------------------------------- MODULE Backend -------------------------------
(***************************************************************************)
(* The backend serving requests: the filter every request passes           *)
(* (src/src/middleware/AuthFilter.cpp) and the handlers of MalphasApi      *)
(* (src/src/Api.cpp), over the tables and statements of Schema.            *)
(*                                                                         *)
(* Crow runs the handlers of one process on a single worker thread, so a   *)
(* process has one request in flight and one connection.  Several          *)
(* processes may serve the same database.  A request takes one step per    *)
(* SQL statement, since each statement is a transaction of its own: the    *)
(* filter's SELECT and INSERT, the handler's statement, and for PUT        *)
(* /circuit as many UPDATEs as the body names columns.                     *)
(*                                                                         *)
(* A statement may also be aborted by the database, or be committed and    *)
(* its result lost with the connection.  Nothing ever reopens a            *)
(* connection: afterwards all statements of that process fail.             *)
(***************************************************************************)
EXTENDS Schema

CONSTANTS
    Proc,        \* backend processes
    Identities,  \* the pairs of X-User-ID and X-User-Name the proxy forwards
    Requests,    \* the requests of a behaviour
    Omitted,     \* a key that the body of PUT /circuit does not have
    Seeds,       \* databases that a deployment may find
    MaxFaults    \* bound on aborted statements, lost connections and crashes

SceneRef   == SceneId   \union {Malformed}
CircuitRef == CircuitId \union {Malformed}
WireRef    == WireId    \union {Malformed}

\* The columns put_circuit may update, in the order of its code.
Columns == <<"location_x", "location_y", "parent_circuit", "gate_type">>
ColumnSet == {Columns[i] : i \in 1..4}

\* What reaches the handlers.  "invalid" is a request that its handler answers
\* before it sends any statement: a body that is no JSON or lacks a key or has
\* one of the wrong type, an empty text, a missing parameter, a bad wire path.
Request ==
    [op : {"invalid", "get_scene"}]
    \union [op : {"post_scene"}, text : Text]
    \union [op : {"put_scene"}, id : SceneRef, text : Text]
    \union [op : {"delete_scene", "get_circuit", "get_wire"}, id : SceneRef]
    \union [op : {"post_circuit"}, parent_scene : SceneRef,
            location_x : Coord, location_y : Coord,
            parent_circuit : CircuitRef \union {Null}, gate_type : GateType]
    \union [op : {"put_circuit"}, id : CircuitRef,
            location_x : Coord \union {Omitted, Malformed},
            location_y : Coord \union {Omitted, Malformed},
            parent_circuit : CircuitRef \union {Omitted},
            gate_type : GateType \union {Omitted, Malformed}]
    \union [op : {"circuit_delete"}, id : CircuitRef]
    \union [op : {"post_wire"}, source_circuit : CircuitRef,
            target_circuit : CircuitRef, init_signal : BOOLEAN]
    \union [op : {"wire_delete"}, id : WireRef]

NoRequest == [op |-> "none"]
Identity == [id : UserId, nickname : Nickname]
Anonymous == [id |-> Absent, nickname |-> Absent]

ASSUME IdentitiesAssumption == Identities \subseteq Identity
ASSUME RequestsAssumption == Requests \subseteq Request
ASSUME SeedsAssumption == Seeds \subseteq Database /\ \A d \in Seeds : Integrity(d)
ASSUME OmittedAssumption ==
    Omitted \notin Coord \union GateType \union CircuitId \union {Malformed, Null}
ASSUME MaxFaultsAssumption == MaxFaults \in Nat

VARIABLES
    db,         \* the tables
    minted,     \* the UUIDs of rows that exist or existed
    pc,         \* where each process is
    who,        \* the identity in the headers of its request
    req,        \* its request
    made,       \* the UUID that post_* draws for its row
    todo,       \* the columns put_circuit still has to look at
    outcome,    \* how the request was answered
    body,       \* the rows of a GET response
    touched,    \* the handler's statements have changed a table
    connected,  \* the process' connection is alive
    faults      \* how many faults there were

tables == <<db, minted>>
session == <<pc, who, req, made, todo, outcome, body, touched>>
link == <<connected, faults>>
vars == <<tables, session, link>>

Places == {"down", "idle", "auth_lookup", "auth_insert", "handle", "reply"}

\* ok: 200.  unauthorized: 401.  refused: the filter's 500.  rejected: 400, or 500
\* for a JSON value of the wrong type.  failed: a statement failed, 400 or 500.
Outcomes == {"none", "ok", "unauthorized", "refused", "rejected", "failed"}

Row(id, row) == [id |-> id, row |-> row]

InitSession ==
    /\ who = [p \in Proc |-> Anonymous]
    /\ req = [p \in Proc |-> NoRequest]
    /\ made = [p \in Proc |-> Absent]
    /\ todo = [p \in Proc |-> {}]
    /\ outcome = [p \in Proc |-> "none"]
    /\ body = [p \in Proc |-> {}]
    /\ touched = [p \in Proc |-> FALSE]

Init ==
    /\ db \in Seeds
    /\ minted = Scenes(db) \union Circuits(db) \union Wires(db)
    /\ pc = [p \in Proc |-> "idle"]
    /\ InitSession
    /\ connected = [p \in Proc |-> TRUE]
    /\ faults = 0

Go(p, place) == pc' = [pc EXCEPT ![p] = place]

Answer(p, o) == Go(p, "reply") /\ outcome' = [outcome EXCEPT ![p] = o]

Fault == faults < MaxFaults /\ faults' = faults + 1

\* Database::query and dao_query: the statement s, of which p learns ok.
Executes(p, s, ok) ==
    \/ /\ connected[p]
       /\ ok = s.ok
       /\ db' = s.db
       /\ UNCHANGED link
    \/ /\ ~connected[p]
       /\ ok = FALSE
       /\ UNCHANGED <<db, link>>
    \/ /\ connected[p]
       /\ Fault
       /\ ok = FALSE
       /\ UNCHANGED <<db, connected>>
    \/ /\ connected[p]
       /\ Fault
       /\ ok = FALSE
       /\ db' = s.db
       /\ connected' = [connected EXCEPT ![p] = FALSE]

Query(ok) == [ok |-> ok, db |-> db]

-----------------------------------------------------------------------------
(* The request arrives, and passes the filter.                             *)

\* Faulty variant: an id is free again once its row is gone.
FreshIdsReused(r) ==
    LET unused(ids) == ids \ {made[q] : q \in Proc}
    IN  CASE r.op = "post_scene"   -> unused(SceneId \ Scenes(db))
          [] r.op = "post_circuit" -> unused(CircuitId \ Circuits(db))
          [] r.op = "post_wire"    -> unused(WireId \ Wires(db))
          [] OTHER                 -> {Absent}

\* A random UUID: none that ever had a row, none that another process drew.
FreshIds(r) ==
    LET unused(ids) == ids \ (minted \union {made[q] : q \in Proc})
    IN  CASE r.op = "post_scene"   -> unused(SceneId)
          [] r.op = "post_circuit" -> unused(CircuitId)
          [] r.op = "post_wire"    -> unused(WireId)
          [] OTHER                 -> {Absent}

\* put_circuit's keys; the request has no others that matter.
Requested(r) ==
    IF r.op = "put_circuit" THEN {f \in ColumnSet : r[f] # Omitted} ELSE {}

Receive(p, i, r) ==
    /\ pc[p] = "idle"
    /\ Go(p, "auth_lookup")
    /\ who' = [who EXCEPT ![p] = i]
    /\ req' = [req EXCEPT ![p] = r]
    /\ \E id \in FreshIds(r) : made' = [made EXCEPT ![p] = id]
    /\ todo' = [todo EXCEPT ![p] = Requested(r)]
    /\ UNCHANGED <<tables, outcome, body, touched, link>>

\* A missing header ends the request before any statement.
Unauthorized(p) ==
    /\ pc[p] = "auth_lookup"
    /\ who[p] = Anonymous
    /\ Answer(p, "unauthorized")
    /\ UNCHANGED <<tables, who, req, made, todo, body, touched, link>>

\* Faulty variant: the user is inserted without being looked up.
AuthLookupSkipped(p) ==
    /\ pc[p] = "auth_lookup"
    /\ who[p] # Anonymous
    /\ Go(p, "auth_insert")
    /\ UNCHANGED <<tables, who, req, made, todo, outcome, body, touched, link>>

\* get_one_user is false for a missing user and for a failed SELECT alike.
AuthLookup(p) ==
    /\ pc[p] = "auth_lookup"
    /\ who[p] # Anonymous
    /\ \E ok \in BOOLEAN :
        /\ Executes(p, Query(TRUE), ok)
        /\ Go(p, IF ok /\ who[p].id \in Users(db) THEN "handle" ELSE "auth_insert")
    /\ UNCHANGED <<minted, who, req, made, todo, outcome, body, touched>>

\* Faulty variant: the result of user_insert is dropped.
AuthInsertUnchecked(p) ==
    /\ pc[p] = "auth_insert"
    /\ \E ok \in BOOLEAN : Executes(p, user_insert(db, who[p].id, who[p].nickname), ok)
    /\ Go(p, "handle")
    /\ UNCHANGED <<minted, who, req, made, todo, outcome, body, touched>>

AuthInsert(p) ==
    /\ pc[p] = "auth_insert"
    /\ \E ok \in BOOLEAN :
        /\ Executes(p, user_insert(db, who[p].id, who[p].nickname), ok)
        /\ IF ok THEN Go(p, "handle") /\ UNCHANGED outcome ELSE Answer(p, "refused")
    /\ UNCHANGED <<minted, who, req, made, todo, body, touched>>

-----------------------------------------------------------------------------
(* The handlers.                                                           *)

Handles(p, op) == pc[p] = "handle" /\ req[p].op = op

\* Faulty variant: dao_query asks for the status of the other kind of statement.
VerdictOtherStatus(ok) == "failed"

Verdict(ok) == IF ok THEN "ok" ELSE "failed"

\* A handler that sends the one statement s and answers by its result.
Modifies(p, s) ==
    /\ \E ok \in BOOLEAN : Executes(p, s, ok) /\ Answer(p, Verdict(ok))
    /\ touched' = [touched EXCEPT ![p] = db' # db]
    /\ UNCHANGED <<who, req, made, todo, body>>

Creates(p, s) ==
    /\ Modifies(p, s)
    /\ minted' = IF db' = db THEN minted ELSE minted \union {made[p]}

\* A handler that answers with the rows a query finds.
Reads(p, wellFormed, rows) ==
    /\ \E ok \in BOOLEAN :
        /\ Executes(p, Query(wellFormed), ok)
        /\ Answer(p, Verdict(ok))
        /\ body' = [body EXCEPT ![p] = IF ok THEN rows ELSE {}]
    /\ UNCHANGED <<minted, who, req, made, todo, touched>>

Reject(p) ==
    /\ Handles(p, "invalid")
    /\ Answer(p, "rejected")
    /\ UNCHANGED <<tables, who, req, made, todo, body, touched, link>>

post_scene(p) ==
    /\ Handles(p, "post_scene")
    /\ Creates(p, scene_save(db, made[p], who[p].id, req[p].text))

get_scene(p) ==
    /\ Handles(p, "get_scene")
    /\ Reads(p, TRUE, {Row(s, db.scene[s]) : s \in get_scenes_of_user(db, who[p].id)})

delete_scene(p) ==
    /\ Handles(p, "delete_scene")
    /\ Modifies(p, scene_delete(db, req[p].id, who[p].id))
    /\ UNCHANGED minted

put_scene(p) ==
    /\ Handles(p, "put_scene")
    /\ Modifies(p, scene_update_basic(db, req[p].id, who[p].id, req[p].text))
    /\ UNCHANGED minted

\* The row of a post_circuit body.
CircuitOf(r) ==
    [parent_scene |-> r.parent_scene, location_x |-> r.location_x,
     location_y |-> r.location_y, parent_circuit |-> r.parent_circuit,
     gate_type |-> r.gate_type]

post_circuit(p) ==
    /\ Handles(p, "post_circuit")
    /\ Creates(p, circuit_save(db, made[p], CircuitOf(req[p])))

\* A circuit without a parent is shown with the empty text, which is no UUID.
CircuitDto(row) ==
    [row EXCEPT !.parent_circuit = IF @ = Null THEN Malformed ELSE @]

get_circuit(p) ==
    /\ Handles(p, "get_circuit")
    /\ Reads(p, req[p].id # Malformed,
             {Row(c, CircuitDto(db.circuit[c])) : c \in get_circuits_in_scene(db, req[p].id)})

circuit_delete(p) ==
    /\ Handles(p, "circuit_delete")
    /\ Modifies(p, delete_circuit(db, req[p].id))
    /\ UNCHANGED minted

\* f is the first column that is left.
IsNext(p, f) ==
    \E i \in 1..4 : /\ f = Columns[i]
                    /\ f \in todo[p]
                    /\ \A j \in 1..(i - 1) : Columns[j] \notin todo[p]

\* The UPDATE of one column.
Update(d, f, value, id) ==
    CASE f = "location_x"     -> update_circuit_location_x(d, value, id)
      [] f = "location_y"     -> update_circuit_location_y(d, value, id)
      [] f = "parent_circuit" -> update_circuit_parent_circuit(d, value, id)
      [] f = "gate_type"      -> update_circuit_gate_type(d, value, id)

\* Faulty variants of put_circuit_column: CHECK is left out; the key stays set.
put_circuit_column_unchecked(p) ==
    /\ Handles(p, "put_circuit")
    /\ \E f \in ColumnSet, ok \in BOOLEAN :
        /\ IsNext(p, f)
        /\ Executes(p, Update(db, f, req[p][f], req[p].id), ok)
        /\ todo' = [todo EXCEPT ![p] = todo[p] \ {f}]
    /\ touched' = [touched EXCEPT ![p] = touched[p] \/ db' # db]
    /\ UNCHANGED <<minted, pc, who, req, made, outcome, body>>

put_circuit_column_repeated(p) ==
    /\ Handles(p, "put_circuit")
    /\ \E f \in ColumnSet, ok \in BOOLEAN :
        /\ IsNext(p, f)
        /\ Executes(p, Update(db, f, req[p][f], req[p].id), ok)
        /\ IF ok THEN UNCHANGED <<pc, outcome>> ELSE Answer(p, "failed")
    /\ touched' = [touched EXCEPT ![p] = touched[p] \/ db' # db]
    /\ UNCHANGED <<minted, who, req, made, todo, body>>

\* One UPDATE of put_circuit.  The first that fails ends the request; the ones
\* before it are committed.
put_circuit_column(p) ==
    /\ Handles(p, "put_circuit")
    /\ \E f \in ColumnSet, ok \in BOOLEAN :
        /\ IsNext(p, f)
        /\ Executes(p, Update(db, f, req[p][f], req[p].id), ok)
        /\ IF ok
           THEN todo' = [todo EXCEPT ![p] = todo[p] \ {f}] /\ UNCHANGED <<pc, outcome>>
           ELSE Answer(p, "failed") /\ UNCHANGED todo
    /\ touched' = [touched EXCEPT ![p] = touched[p] \/ db' # db]
    /\ UNCHANGED <<minted, who, req, made, body>>

put_circuit_done(p) ==
    /\ Handles(p, "put_circuit")
    /\ todo[p] = {}
    /\ Answer(p, "ok")
    /\ UNCHANGED <<tables, who, req, made, todo, body, touched, link>>

WireOf(r) ==
    [source_circuit |-> r.source_circuit, target_circuit |-> r.target_circuit,
     init_signal |-> r.init_signal]

post_wire(p) ==
    /\ Handles(p, "post_wire")
    /\ Creates(p, wire_save(db, made[p], WireOf(req[p])))

get_wire(p) ==
    /\ Handles(p, "get_wire")
    /\ Reads(p, req[p].id # Malformed,
             {Row(w, dao_map_wire(db.wire[w])) : w \in get_wires_in_scene(db, req[p].id)})

wire_delete(p) ==
    /\ Handles(p, "wire_delete")
    /\ Modifies(p, delete_wire(db, req[p].id))
    /\ UNCHANGED minted

Handle(p) ==
    \/ Reject(p)
    \/ post_scene(p) \/ get_scene(p) \/ delete_scene(p) \/ put_scene(p)
    \/ post_circuit(p) \/ get_circuit(p) \/ circuit_delete(p)
    \/ put_circuit_column(p) \/ put_circuit_done(p)
    \/ post_wire(p) \/ get_wire(p) \/ wire_delete(p)

-----------------------------------------------------------------------------
(* The response leaves; the process and its connection come and go.        *)

EndSession(p) ==
    /\ who' = [who EXCEPT ![p] = Anonymous]
    /\ req' = [req EXCEPT ![p] = NoRequest]
    /\ made' = [made EXCEPT ![p] = Absent]
    /\ todo' = [todo EXCEPT ![p] = {}]
    /\ outcome' = [outcome EXCEPT ![p] = "none"]
    /\ body' = [body EXCEPT ![p] = {}]
    /\ touched' = [touched EXCEPT ![p] = FALSE]

Reply(p) ==
    /\ pc[p] = "reply"
    /\ Go(p, "idle")
    /\ EndSession(p)
    /\ UNCHANGED <<tables, link>>

LoseConnection(p) ==
    /\ pc[p] # "down"
    /\ connected[p]
    /\ Fault
    /\ connected' = [connected EXCEPT ![p] = FALSE]
    /\ UNCHANGED <<tables, session>>

\* The request in flight is forgotten; what it committed is not.
Crash(p) ==
    /\ pc[p] # "down"
    /\ Fault
    /\ Go(p, "down")
    /\ EndSession(p)
    /\ connected' = [connected EXCEPT ![p] = FALSE]
    /\ UNCHANGED tables

\* main() connects anew; no migration is left to run.
Restart(p) ==
    /\ pc[p] = "down"
    /\ Go(p, "idle")
    /\ connected' = [connected EXCEPT ![p] = TRUE]
    /\ UNCHANGED <<tables, who, req, made, todo, outcome, body, touched, faults>>

\* The steps a process takes by itself while it has a request.
Work(p) == Unauthorized(p) \/ AuthLookup(p) \/ AuthInsert(p) \/ Handle(p) \/ Reply(p)

Next ==
    \E p \in Proc :
        \/ \E i \in Identities \union {Anonymous}, r \in Requests : Receive(p, i, r)
        \/ Work(p)
        \/ LoseConnection(p)
        \/ Crash(p)
        \/ Restart(p)

Spec == Init /\ [][Next]_vars

\* The worker thread keeps running; nothing obliges clients to send requests,
\* nor anyone to restart a process.
FairSpec == Spec /\ \A p \in Proc : WF_vars(Work(p))

-----------------------------------------------------------------------------
(* Properties.                                                             *)

Ids == SceneId \union CircuitId \union WireId

TypeOK ==
    /\ db \in Database
    /\ minted \subseteq Ids
    /\ pc \in [Proc -> Places]
    /\ who \in [Proc -> Identities \union {Anonymous}]
    /\ req \in [Proc -> Requests \union {NoRequest}]
    /\ made \in [Proc -> Ids \union {Absent}]
    /\ todo \in [Proc -> SUBSET ColumnSet]
    /\ outcome \in [Proc -> Outcomes]
    /\ touched \in [Proc -> BOOLEAN]
    /\ connected \in [Proc -> BOOLEAN]
    /\ faults \in 0..MaxFaults

\* Whatever requests interleave, fail or are cut off, no row is left behind
\* whose scene, parent, end or author is gone, and no two users share a name.
IntegrityHolds == Integrity(db)

\* A handler only ever runs for a user that is in the table, although the
\* filter looks up and inserts in two statements and takes every failure of the
\* first for "not there": so a scene never fails on its author.
HandledAreRegistered ==
    \A p \in Proc : pc[p] = "handle" => who[p].id \in Users(db)

\* A scene appears, changes or goes only in the handler of a request by its
\* author, whatever other processes do between the steps of that request.
OnlyAuthorTouchesScene ==
    [][\A s \in SceneId : db'.scene[s] # db.scene[s] =>
        \E p \in Proc :
            /\ pc[p] = "handle" /\ pc'[p] = "reply"
            /\ req[p].op \in {"post_scene", "put_scene", "delete_scene"}
            /\ s \in Scenes(db) => db.scene[s].author = who[p].id
            /\ s \in Scenes(db') => db'.scene[s].author = who[p].id]_vars

\* Lifelong facts: a user's nickname, a scene's author, a circuit's scene and a
\* wire never change, and an id whose row is gone never gets another.
LifelongFacts ==
    [][/\ \A u \in Users(db) : db'.user[u] = db.user[u]
       /\ \A s \in Scenes(db) \intersect Scenes(db') :
              db'.scene[s].author = db.scene[s].author
       /\ \A c \in Circuits(db) \intersect Circuits(db') :
              db'.circuit[c].parent_scene = db.circuit[c].parent_scene
       /\ \A w \in Wires(db) \intersect Wires(db') : db'.wire[w] = db.wire[w]
       /\ Scenes(db') \intersect minted \subseteq Scenes(db)
       /\ Circuits(db') \intersect minted \subseteq Circuits(db)
       /\ Wires(db') \intersect minted \subseteq Wires(db)]_vars

\* A cascade takes nothing it need not: what goes is what the request names, or
\* it loses its scene, its parent or one of its ends in the same step.
CascadeIsJustified ==
    [][\A p \in Proc : pc[p] = "handle" /\ pc'[p] = "reply" =>
        /\ \A c \in Circuits(db) \ Circuits(db') :
            \/ req[p].op = "circuit_delete" /\ req[p].id = c
            \/ db.circuit[c].parent_scene \in Scenes(db) \ Scenes(db')
            \/ db.circuit[c].parent_circuit \in Circuits(db) \ Circuits(db')
        /\ \A w \in Wires(db) \ Wires(db') :
            \/ req[p].op = "wire_delete" /\ req[p].id = w
            \/ db.wire[w].source_circuit \in Circuits(db) \ Circuits(db')
            \/ db.wire[w].target_circuit \in Circuits(db) \ Circuits(db')]_vars

\* PUT /circuit writes the requested values to the requested columns of the
\* requested circuit and to nothing else, however far it gets.
OnlyRequestedColumnsChange ==
    [][\A c \in Circuits(db) \intersect Circuits(db'), f \in ColumnSet :
        db'.circuit[c][f] # db.circuit[c][f] =>
            \E p \in Proc : /\ Handles(p, "put_circuit")
                            /\ req[p].id = c
                            /\ db'.circuit[c][f] = req[p][f]]_vars

\* A handler that reports an error has changed nothing, save PUT /circuit,
\* which may have updated some columns, unless the connection died under it.
ErrorLeavesNoTrace ==
    \A p \in Proc :
        pc[p] = "reply" /\ outcome[p] # "ok" /\ touched[p] =>
            req[p].op = "put_circuit" \/ ~connected[p]

\* What 200 promises, to a client that is alone: the request took effect as a
\* whole, or its WHERE clause found no row of the sender's.
Done(d, i, r, id) ==
    CASE r.op = "post_scene"   -> d.scene[id] = [author |-> i.id, text |-> r.text]
      [] r.op = "post_circuit" -> d.circuit[id] = CircuitOf(r)
      [] r.op = "post_wire"    -> d.wire[id] = WireOf(r)
      [] r.op = "put_scene"    ->
            r.id \in get_scenes_of_user(d, i.id) => d.scene[r.id].text = r.text
      [] r.op = "delete_scene" -> r.id \notin get_scenes_of_user(d, i.id)
      [] r.op = "put_circuit"  ->
            r.id \in Circuits(d) => \A f \in Requested(r) : d.circuit[r.id][f] = r[f]
      [] r.op = "circuit_delete" -> r.id \notin Circuits(d)
      [] r.op = "wire_delete"    -> r.id \notin Wires(d)
      [] OTHER -> TRUE

\* A request that is answered 200 has had its effect, with one process.
AcknowledgedIsDone ==
    \A p \in Proc : pc[p] = "reply" /\ outcome[p] = "ok" =>
        Done(db, who[p], req[p], made[p])

\* Without faults the filter turns an identity away only for good reason: its
\* nickname belongs to a user, or another process has inserted the very same
\* user since the look-up that missed it, so that a repetition would be let in.
RefusedForCause ==
    [][\A p \in Proc : faults' = 0 =>
        /\ pc[p] = "auth_lookup" /\ pc'[p] = "auth_insert" => who[p].id \notin Users(db)
        /\ pc[p] = "auth_insert" /\ pc'[p] = "reply" =>
            \/ who[p].id \in Users(db)
            \/ \E u \in Users(db) : db.user[u] = who[p].nickname]_vars

\* Every request that arrives is answered, unless its process dies first.
Answered ==
    \A p \in Proc : pc[p] \notin {"down", "idle"} ~> pc[p] \in {"down", "idle"}

-----------------------------------------------------------------------------
(* Clients that keep a circuit's parent and a wire's ends in one scene, as  *)
(* they know it when they send.  The server does not ask this of them.      *)

SameScene(d, r) ==
    LET together(cs) == \E s \in Scenes(d) : cs \subseteq CircuitsOf(d, {s})
    IN  CASE r.op = "post_circuit" ->
                \/ r.parent_circuit = Null
                \/ r.parent_circuit \in CircuitsOf(d, {r.parent_scene})
          [] r.op = "put_circuit" ->
                r.parent_circuit = Omitted \/ together({r.id, r.parent_circuit})
          [] r.op = "post_wire" -> together({r.source_circuit, r.target_circuit})
          [] OTHER -> TRUE

TidyClients ==
    \A p \in Proc : pc[p] = "idle" /\ pc'[p] = "auth_lookup" => SameScene(db, req'[p])

TidySpec == Init /\ [][Next /\ TidyClients]_vars

\* With such clients every wire is listed in a scene: none is stored that no
\* GET /wire will ever show.
WiresAreListed ==
    \A w \in Wires(db) : \E s \in Scenes(db) : w \in get_wires_in_scene(db, s)

\* With such clients the deletion of a scene takes only its own circuits.
SceneDeletionStaysInside ==
    [][\A c \in Circuits(db) \ Circuits(db') :
        Scenes(db') # Scenes(db) => db.circuit[c].parent_scene \notin Scenes(db')]_vars

\* A wire is shown with the initial signal it was stored with.  (False: see the
\* run backend_init_signal.)
InitSignalIsShown ==
    \A p \in Proc : pc[p] = "reply" /\ req[p].op = "get_wire" =>
        \A dto \in body[p] :
            dto.id \in Wires(db) => dto.row.init_signal = db.wire[dto.id].init_signal
=============================================================================
