----------------------------- MODULE AnswerProofs -----------------------------
(***************************************************************************)
(* What an answer tells: an error response leaves no trace but where the   *)
(* code lets it, the filter refuses nobody without cause, and 200 means to *)
(* a client that is alone that the request has had its effect.             *)
(*                                                                         *)
(* Backend implements SceneService: every step of a process is a step of   *)
(* the service for its client, or changes nothing that the service knows.  *)
(***************************************************************************)
EXTENDS SceneRefinement, EchoClients, BackendProofs

\* A process that has not come to its handler has touched nothing; in it, only
\* put_circuit goes on after a change.
Trace(p) ==
    /\ pc[p] \in {"idle", "down", "auth_lookup", "auth_insert"} => ~touched[p]
    /\ pc[p] = "handle" /\ touched[p] => req[p].op = "put_circuit"
    /\ pc[p] = "reply" /\ outcome[p] # "ok" /\ touched[p] =>
            req[p].op = "put_circuit" \/ ~connected[p]

Traces == \A p \in Proc : Trace(p)

\* Without faults all connections are alive.
Linked == faults = 0 => \A p \in Proc : connected[p]

\* The step is of no other process.
Local(p) ==
    \A q \in Proc \ {p} :
        /\ pc'[q] = pc[q] /\ req'[q] = req[q] /\ outcome'[q] = outcome[q]
        /\ touched'[q] = touched[q] /\ connected'[q] = connected[q]

-----------------------------------------------------------------------------
\* What a statement tells of the connection.
LEMMA ExecutesLink ==
    ASSUME TypeOK, NEW p \in Proc, NEW s, NEW ok \in BOOLEAN, Executes(p, s, ok)
    PROVE  /\ \A q \in Proc \ {p} : connected'[q] = connected[q]
           /\ ~ok /\ db' # db => ok = s.ok \/ ~connected'[p]
           /\ Linked => Linked'
           /\ Linked /\ faults' = 0 => ok = s.ok
<1>1. Fault => faults' # 0
  BY DEF TypeOK, Fault
<1>2. \A q \in Proc \ {p} : connected'[q] = connected[q]
  BY DEF Executes, TypeOK, link
<1>3. ~ok /\ db' # db => ok = s.ok \/ ~connected'[p]
  BY DEF Executes, TypeOK, link
<1>4. Linked => Linked'
  BY <1>1 DEF Executes, TypeOK, link, Linked
<1>5. Linked /\ faults' = 0 => ok = s.ok
  BY <1>1 DEF Executes, TypeOK, link, Linked
<1>6. QED
  BY <1>2, <1>3, <1>4, <1>5

\* A handler that writes leaves a trace of an error only on a dead connection.
LEMMA ModifiesTrace ==
    ASSUME TypeOK, NEW p \in Proc, NEW s, ~s.ok => s.db = db, Modifies(p, s)
    PROVE  Local(p) /\ Trace(p)' /\ (Linked => Linked')
<1>1. PICK ok \in BOOLEAN : Executes(p, s, ok) /\ Answer(p, Verdict(ok))
  BY DEF Modifies
<1>2. /\ pc'[p] = "reply" /\ outcome'[p] = Verdict(ok)
      /\ touched'[p] = (db' # db)
      /\ \A q \in Proc \ {p} : /\ pc'[q] = pc[q] /\ outcome'[q] = outcome[q]
                               /\ touched'[q] = touched[q]
      /\ req' = req
  BY <1>1 DEF Modifies, Answer, Go, TypeOK
<1>3. db' \in {db, s.db}
  BY <1>1, ExecutesFacts
<1>4. ~ok /\ db' # db => ~connected'[p]
  BY <1>1, <1>3, ExecutesLink
<1>5. Trace(p)'
  BY <1>2, <1>4 DEF Trace, Verdict
<1>6. QED
  BY <1>1, <1>2, <1>5, ExecutesLink DEF Local

\* A handler that reads touches nothing.
LEMMA ReadsTrace ==
    ASSUME TypeOK, NEW p \in Proc, pc[p] = "handle", Trace(p), req[p].op # "put_circuit",
           NEW wellFormed, NEW rows, Reads(p, wellFormed, rows)
    PROVE  Local(p) /\ Trace(p)' /\ (Linked => Linked')
<1>1. PICK ok \in BOOLEAN : Executes(p, Query(wellFormed), ok) /\ Answer(p, Verdict(ok))
  BY DEF Reads
<1>2. /\ pc'[p] = "reply" /\ touched' = touched /\ req' = req
      /\ \A q \in Proc \ {p} : pc'[q] = pc[q] /\ outcome'[q] = outcome[q]
  BY <1>1 DEF Reads, Answer, Go, TypeOK
<1>3. Trace(p)'
  BY <1>2 DEF Trace
<1>4. QED
  BY <1>1, <1>2, <1>3, ExecutesLink DEF Local

LEMMA HandleTrace ==
    ASSUME IInv, NEW p \in Proc, Trace(p), Handle(p)
    PROVE  Local(p) /\ Trace(p)' /\ (Linked => Linked')
<1> USE DEF IInv
<1>1. CASE Reject(p) \/ put_circuit_done(p)
  <2>1. /\ pc[p] = "handle" /\ pc'[p] = "reply"
        /\ \A q \in Proc \ {p} : pc'[q] = pc[q] /\ outcome'[q] = outcome[q]
        /\ UNCHANGED <<touched, req, connected, faults>>
        /\ outcome'[p] = "ok" \/ req[p].op = "invalid"
    BY <1>1 DEF Reject, put_circuit_done, Answer, Go, Handles, TypeOK, tables, link
  <2>2. QED
    BY <2>1 DEF Local, Trace, Linked
<1>2. CASE post_scene(p)
  BY <1>2, ModifiesTrace DEF post_scene, Creates, scene_save, Result
<1>3. CASE put_scene(p)
  BY <1>3, ModifiesTrace DEF put_scene, scene_update_basic, Result
<1>4. CASE delete_scene(p)
  BY <1>4, ModifiesTrace DEF delete_scene, scene_delete, Result
<1>5. CASE post_circuit(p)
  BY <1>5, ModifiesTrace DEF post_circuit, Creates, circuit_save, Result
<1>6. CASE circuit_delete(p)
  BY <1>6, ModifiesTrace DEF circuit_delete, delete_circuit, Result
<1>7. CASE post_wire(p)
  BY <1>7, ModifiesTrace DEF post_wire, Creates, wire_save, Result
<1>8. CASE wire_delete(p)
  BY <1>8, ModifiesTrace DEF wire_delete, delete_wire, Result
<1>9. CASE get_scene(p)
  BY <1>9, ReadsTrace DEF get_scene, Handles
<1>10. CASE get_circuit(p)
  BY <1>10, ReadsTrace DEF get_circuit, Handles
<1>11. CASE get_wire(p)
  BY <1>11, ReadsTrace DEF get_wire, Handles
<1>12. CASE put_circuit_column(p)
  <2>1. PICK f \in ColumnSet, ok \in BOOLEAN :
          /\ Executes(p, Update(db, f, req[p][f], req[p].id), ok)
          /\ IF ok THEN UNCHANGED <<pc, outcome>> ELSE Answer(p, "failed")
    BY <1>12 DEF put_circuit_column
  <2>2. req[p].op = "put_circuit" /\ req' = req
    BY <1>12 DEF put_circuit_column, Handles
  <2>3. /\ pc'[p] \in {"handle", "reply"}
        /\ \A q \in Proc \ {p} : pc'[q] = pc[q] /\ outcome'[q] = outcome[q]
    BY <1>12, <2>1 DEF put_circuit_column, Handles, Answer, Go, TypeOK
  <2>4. \A q \in Proc \ {p} : touched'[q] = touched[q]
    BY <1>12 DEF put_circuit_column, TypeOK
  <2>5. Trace(p)'
    BY <2>2, <2>3 DEF Trace
  <2>6. QED
    BY <2>1, <2>2, <2>3, <2>4, <2>5, ExecutesLink DEF Local
<1>13. QED
  BY <1>1, <1>2, <1>3, <1>4, <1>5, <1>6, <1>7, <1>8, <1>9, <1>10, <1>11, <1>12 DEF Handle

LEMMA FilterTrace ==
    ASSUME IInv, NEW p \in Proc, Trace(p), AuthLookup(p) \/ AuthInsert(p)
    PROVE  Local(p) /\ Trace(p)' /\ (Linked => Linked')
<1> USE DEF IInv
<1>1. PICK s : \E ok \in BOOLEAN : Executes(p, s, ok)
  <2>1. CASE AuthLookup(p)
    BY <2>1 DEF AuthLookup
  <2>2. CASE AuthInsert(p)
    BY <2>2 DEF AuthInsert
  <2>3. QED
    BY <2>1, <2>2
<1>2. touched' = touched /\ req' = req /\ ~touched[p]
  BY DEF AuthLookup, AuthInsert, Trace
<1>3. \A q \in Proc \ {p} : pc'[q] = pc[q] /\ outcome'[q] = outcome[q]
  <2>1. CASE AuthLookup(p)
    <3>1. \E place : Go(p, place)
      BY <2>1 DEF AuthLookup
    <3>2. QED
      BY <2>1, <3>1 DEF AuthLookup, Go, TypeOK
  <2>2. CASE AuthInsert(p)
    <3>1. \E place : Go(p, place)
      BY <2>2 DEF AuthInsert, Answer
    <3>2. \A q \in Proc \ {p} : outcome'[q] = outcome[q]
      BY <2>2 DEF AuthInsert, Answer, TypeOK
    <3>3. QED
      BY <3>1, <3>2 DEF Go, TypeOK
  <2>3. QED
    BY <2>1, <2>2
<1>4. Trace(p)'
  BY <1>2 DEF Trace
<1>5. QED
  BY <1>1, <1>2, <1>3, <1>4, ExecutesLink DEF Local

LEMMA OtherTrace ==
    ASSUME IInv, NEW p \in Proc, Trace(p),
           \/ \E i \in Identities \union {Anonymous}, r \in Requests : Receive(p, i, r)
           \/ Unauthorized(p) \/ Reply(p) \/ LoseConnection(p) \/ Crash(p) \/ Restart(p)
    PROVE  Local(p) /\ Trace(p)' /\ (Linked => Linked')
<1> USE DEF IInv
<1>1. Fault => faults' # 0
  BY DEF TypeOK, Fault
<1>2. CASE \E i \in Identities \union {Anonymous}, r \in Requests : Receive(p, i, r)
  BY <1>2 DEF Receive, Go, Local, Trace, Linked, TypeOK, link
<1>3. CASE Unauthorized(p)
  BY <1>3 DEF Unauthorized, Answer, Go, Local, Trace, Linked, TypeOK, link
<1>4. CASE Reply(p)
  BY <1>4 DEF Reply, EndSession, Go, Local, Trace, Linked, TypeOK, link
<1>5. CASE LoseConnection(p)
  BY <1>1, <1>5 DEF LoseConnection, Local, Trace, Linked, TypeOK, session
<1>6. CASE Crash(p)
  BY <1>1, <1>6 DEF Crash, EndSession, Go, Local, Trace, Linked, TypeOK
<1>7. CASE Restart(p)
  BY <1>7 DEF Restart, Go, Local, Trace, Linked, TypeOK
<1>8. QED
  BY <1>2, <1>3, <1>4, <1>5, <1>6, <1>7

LEMMA TraceStep ==
    ASSUME IInv, Traces, Linked, Next
    PROVE  Traces' /\ Linked'
<1>1. PICK p \in Proc :
        \/ \E i \in Identities \union {Anonymous}, r \in Requests : Receive(p, i, r)
        \/ Work(p) \/ LoseConnection(p) \/ Crash(p) \/ Restart(p)
  BY DEF Next
<1>2. Local(p) /\ Trace(p)' /\ Linked'
  BY <1>1, HandleTrace, FilterTrace, OtherTrace DEF Traces, Work
<1>3. \A q \in Proc \ {p} : Trace(q)'
  BY <1>2 DEF Local, Traces, Trace
<1>4. QED
  BY <1>2, <1>3 DEF Traces

\* The invariants of this module.
THEOREM TraceInvariant == Spec => [](IInv /\ Traces /\ Linked)
<1>1. Init => Traces /\ Linked
  BY DEF Init, InitSession, Traces, Trace, Linked
<1>2. IInv /\ Traces /\ Linked /\ [Next]_vars => Traces' /\ Linked'
  <2>1. CASE Next
    BY <2>1, TraceStep
  <2>2. CASE UNCHANGED vars
    BY <2>2 DEF vars, session, link, Traces, Trace, Linked
  <2>3. QED
    BY <2>1, <2>2
<1>3. QED
  BY <1>1, <1>2, Invariant, PTL DEF Spec

\* An error response means that nothing has changed, unless the request was a
\* PUT /circuit or its connection is dead.
THEOREM ErrorsLeaveNoTrace == Spec => []ErrorLeavesNoTrace
<1>1. Traces => ErrorLeavesNoTrace
  BY DEF Traces, Trace, ErrorLeavesNoTrace
<1>2. QED
  BY <1>1, TraceInvariant, PTL

\* Every step is the step of one process.
LEMMA OneSteps ==
    ASSUME IInv, Traces, Next
    PROVE  \E m \in Proc :
        /\ Local(m)
        /\ \/ \E i \in Identities \union {Anonymous}, r \in Requests : Receive(m, i, r)
           \/ Work(m) \/ LoseConnection(m) \/ Crash(m) \/ Restart(m)
<1>1. PICK m \in Proc :
        \/ \E i \in Identities \union {Anonymous}, r \in Requests : Receive(m, i, r)
        \/ Work(m) \/ LoseConnection(m) \/ Crash(m) \/ Restart(m)
  BY DEF Next
<1>2. Local(m)
  BY <1>1, HandleTrace, FilterTrace, OtherTrace DEF Traces, Work
<1>3. QED
  BY <1>1, <1>2

\* Without faults the look-up sends to the INSERT only who is missing.
LEMMA LookupCause ==
    ASSUME TypeOK, Linked, NEW p \in Proc, AuthLookup(p), faults' = 0,
           pc'[p] = "auth_insert"
    PROVE  who[p].id \notin Users(db)
<1>1. PICK ok \in BOOLEAN :
        /\ Executes(p, Query(TRUE), ok)
        /\ Go(p, IF ok /\ who[p].id \in Users(db) THEN "handle" ELSE "auth_insert")
  BY DEF AuthLookup
<1>2. ok = Query(TRUE).ok
  BY <1>1, ExecutesLink
<1>3. pc'[p] = IF ok /\ who[p].id \in Users(db) THEN "handle" ELSE "auth_insert"
  BY <1>1 DEF Go, TypeOK
<1>4. QED
  BY <1>2, <1>3 DEF Query

\* Without faults the INSERT is refused only for a key that is taken.
LEMMA InsertCause ==
    ASSUME TypeOK, Linked, NEW p \in Proc, AuthInsert(p), faults' = 0, pc'[p] = "reply"
    PROVE  \/ who[p].id \in Users(db)
           \/ \E u \in Users(db) : db.user[u] = who[p].nickname
<1> DEFINE s == user_insert(db, who[p].id, who[p].nickname)
<1>1. PICK ok \in BOOLEAN :
        /\ Executes(p, s, ok)
        /\ IF ok THEN Go(p, "handle") /\ UNCHANGED outcome ELSE Answer(p, "refused")
  BY DEF AuthInsert
<1>2. ok = s.ok
  BY <1>1, ExecutesLink
<1>3. ~ok
  BY <1>1 DEF Go, TypeOK
<1>4. QED
  BY <1>2, <1>3 DEF user_insert, Result

\* As long as nothing fails, the filter registers only who is missing, and
\* refuses only a name that is taken or a user who has come in meanwhile.
THEOREM RefusalCorrect == Spec => RefusedForCause
<1> DEFINE Cause(p) ==
        /\ pc[p] = "auth_lookup" /\ pc'[p] = "auth_insert" => who[p].id \notin Users(db)
        /\ pc[p] = "auth_insert" /\ pc'[p] = "reply" =>
            \/ who[p].id \in Users(db)
            \/ \E u \in Users(db) : db.user[u] = who[p].nickname
<1> DEFINE AllCause == \A p \in Proc : faults' = 0 => Cause(p)
<1>1. ASSUME IInv, Traces, Linked, Next, faults' = 0, NEW p \in Proc
      PROVE  Cause(p)
  <2> USE <1>1 DEF IInv
  <2>1. PICK m \in Proc :
          /\ Local(m)
          /\ \/ \E i \in Identities \union {Anonymous}, r \in Requests : Receive(m, i, r)
             \/ Work(m) \/ LoseConnection(m) \/ Crash(m) \/ Restart(m)
    BY OneSteps
  <2>2. CASE p # m
    BY <2>1, <2>2 DEF Local
  <2>3. CASE p = m
    <3>1. CASE AuthLookup(p)
      <4>1. pc[p] = "auth_lookup"
        BY <3>1 DEF AuthLookup
      <4>2. QED
        BY <3>1, <4>1, LookupCause
    <3>2. CASE AuthInsert(p)
      <4>1. pc[p] = "auth_insert"
        BY <3>2 DEF AuthInsert
      <4>2. QED
        BY <3>2, <4>1, InsertCause
    <3>3. CASE Handle(p)
      <4>1. pc[p] = "handle"
        BY <3>3 DEF Handle, Reject, post_scene, get_scene, delete_scene, put_scene,
                    post_circuit, get_circuit, circuit_delete, put_circuit_column,
                    put_circuit_done, post_wire, get_wire, wire_delete, Handles
      <4>2. QED
        BY <4>1
    <3>4. CASE \/ \E i \in Identities \union {Anonymous}, r \in Requests : Receive(p, i, r)
               \/ Unauthorized(p) \/ Reply(p) \/ LoseConnection(p) \/ Crash(p) \/ Restart(p)
      BY <3>4 DEF Receive, Unauthorized, Answer, Reply, LoseConnection, session, Crash,
                  Restart, Go, TypeOK
    <3>5. QED
      BY <2>1, <2>3, <3>1, <3>2, <3>3, <3>4 DEF Work
  <2>4. QED
    BY <2>2, <2>3
<1>2. IInv /\ Traces /\ Linked /\ [Next]_vars => [AllCause]_vars
  BY <1>1
<1>3. QED
  BY <1>2, TraceInvariant, PTL DEF Spec, RefusedForCause

-----------------------------------------------------------------------------
(* What 200 promises to a client that is alone.                            *)

\* The columns put_circuit has come past are written, if there is a circuit.
Written(p) ==
    pc[p] = "handle" /\ req[p].op = "put_circuit" /\ req[p].id \in Circuits(db) =>
        \A f \in Requested(req[p]) \ todo[p] : db.circuit[req[p].id][f] = req[p][f]

Promised(p) == pc[p] = "reply" /\ outcome[p] = "ok" => Done(db, who[p], req[p], made[p])

LEMMA SceneStatementsDo ==
    ASSUME NEW d \in Database, NEW i, NEW r
    PROVE  /\ \A id \in SceneId :
                r.op = "post_scene" /\ scene_save(d, id, i.id, r.text).ok =>
                    Done(scene_save(d, id, i.id, r.text).db, i, r, id)
           /\ r.op = "put_scene" /\ scene_update_basic(d, r.id, i.id, r.text).ok =>
                \A x : Done(scene_update_basic(d, r.id, i.id, r.text).db, i, r, x)
           /\ r.op = "delete_scene" /\ scene_delete(d, r.id, i.id).ok =>
                \A x : Done(scene_delete(d, r.id, i.id).db, i, r, x)
<1>1. ASSUME NEW id \in SceneId, r.op = "post_scene", scene_save(d, id, i.id, r.text).ok
      PROVE  Done(scene_save(d, id, i.id, r.text).db, i, r, id)
  BY <1>1 DEF scene_save, Result, Done, Database
<1>2. ASSUME r.op = "put_scene", scene_update_basic(d, r.id, i.id, r.text).ok, NEW x
      PROVE  Done(scene_update_basic(d, r.id, i.id, r.text).db, i, r, x)
  <2> DEFINE e == scene_update_basic(d, r.id, i.id, r.text).db
  <2>1. \A s \in SceneId : e.scene[s] = IF s \in OwnScenes(d, r.id, i.id)
                                        THEN [d.scene[s] EXCEPT !.text = r.text]
                                        ELSE d.scene[s]
    BY <1>2 DEF scene_update_basic, Result, Database
  <2> HIDE DEF e
  <2>2. ASSUME r.id \in get_scenes_of_user(e, i.id)
        PROVE  e.scene[r.id].text = r.text
    <3>1. r.id \in SceneId /\ e.scene[r.id] # Absent /\ e.scene[r.id].author = i.id
      BY <2>2 DEF get_scenes_of_user, Scenes
    <3>2. CASE r.id \in OwnScenes(d, r.id, i.id)
      <4>1. d.scene[r.id] \in SceneRow
        BY <3>1, <3>2 DEF OwnScenes, Scenes, Database
      <4>2. QED
        BY <2>1, <3>1, <3>2, <4>1 DEF SceneRow
    <3>3. CASE r.id \notin OwnScenes(d, r.id, i.id)
      BY <2>1, <3>1, <3>3 DEF OwnScenes, Scenes
    <3>4. QED
      BY <3>2, <3>3
  <2>3. QED
    BY <1>2, <2>2 DEF Done, e
<1>3. ASSUME r.op = "delete_scene", scene_delete(d, r.id, i.id).ok, NEW x
      PROVE  Done(scene_delete(d, r.id, i.id).db, i, r, x)
  <2> DEFINE e == scene_delete(d, r.id, i.id).db
  <2>1. \A s \in SceneId : e.scene[s] = IF s \in OwnScenes(d, r.id, i.id)
                                        THEN Absent ELSE d.scene[s]
    BY <1>3 DEF scene_delete, Result, Remove, Database
  <2> HIDE DEF e
  <2>2. r.id \notin get_scenes_of_user(e, i.id)
    BY <2>1 DEF get_scenes_of_user, Scenes, OwnScenes
  <2>3. QED
    BY <1>3, <2>2 DEF Done, e
<1>4. QED
  BY <1>1, <1>2, <1>3

LEMMA CircuitStatementsDo ==
    ASSUME NEW d \in Database, NEW i, NEW r
    PROVE  /\ \A id \in CircuitId :
                r.op = "post_circuit" /\ circuit_save(d, id, CircuitOf(r)).ok =>
                    Done(circuit_save(d, id, CircuitOf(r)).db, i, r, id)
           /\ r.op = "circuit_delete" /\ delete_circuit(d, r.id).ok =>
                \A x : Done(delete_circuit(d, r.id).db, i, r, x)
<1>1. ASSUME NEW id \in CircuitId, r.op = "post_circuit", circuit_save(d, id, CircuitOf(r)).ok
      PROVE  Done(circuit_save(d, id, CircuitOf(r)).db, i, r, id)
  BY <1>1 DEF circuit_save, Result, Done, Database
<1>2. ASSUME r.op = "circuit_delete", delete_circuit(d, r.id).ok, NEW x
      PROVE  Done(delete_circuit(d, r.id).db, i, r, x)
  <2> DEFINE e == delete_circuit(d, r.id).db
             gone == Cascade(d, {r.id} \intersect Circuits(d))
  <2>1. \A c \in CircuitId : e.circuit[c] = IF c \in gone THEN Absent ELSE d.circuit[c]
    BY <1>2 DEF delete_circuit, Result, Remove, Database
  <2>2. r.id \in Circuits(d) => r.id \in gone
    BY DEF Cascade, Circuits
  <2> HIDE DEF e, gone
  <2>3. r.id \notin Circuits(e)
    BY <2>1, <2>2 DEF Circuits
  <2>4. QED
    BY <1>2, <2>3 DEF Done, e
<1>3. QED
  BY <1>1, <1>2

LEMMA WireStatementsDo ==
    ASSUME NEW d \in Database, NEW i, NEW r
    PROVE  /\ \A id \in WireId :
                r.op = "post_wire" /\ wire_save(d, id, WireOf(r)).ok =>
                    Done(wire_save(d, id, WireOf(r)).db, i, r, id)
           /\ r.op = "wire_delete" /\ delete_wire(d, r.id).ok =>
                \A x : Done(delete_wire(d, r.id).db, i, r, x)
<1>1. ASSUME NEW id \in WireId, r.op = "post_wire", wire_save(d, id, WireOf(r)).ok
      PROVE  Done(wire_save(d, id, WireOf(r)).db, i, r, id)
  BY <1>1 DEF wire_save, Result, Done, Database
<1>2. ASSUME r.op = "wire_delete", delete_wire(d, r.id).ok, NEW x
      PROVE  Done(delete_wire(d, r.id).db, i, r, x)
  <2>1. r.id \notin Wires(delete_wire(d, r.id).db)
    BY <1>2 DEF delete_wire, Result, Database, Wires
  <2>2. QED
    BY <1>2, <2>1 DEF Done
<1>3. QED
  BY <1>1, <1>2

\* An UPDATE that is accepted sets its column, and takes back no other.
LEMMA UpdateDoes ==
    ASSUME NEW d \in Database, NEW r \in Requests, r.op = "put_circuit",
           NEW f \in Requested(r), Update(d, f, r[f], r.id).ok,
           NEW e, e = Update(d, f, r[f], r.id).db, r.id \in Circuits(e)
    PROVE  /\ r.id \in Circuits(d)
           /\ e.circuit[r.id][f] = r[f]
           /\ \A g \in ColumnSet : d.circuit[r.id][g] = r[g] => e.circuit[r.id][g] = r[g]
<1>1. f \in {"location_x", "location_y", "parent_circuit", "gate_type"}
  BY ColumnNames DEF Requested
<1>2. r.id \in Circuits(d)
  BY UpdateWrites
<1>3. d.circuit[r.id] \in CircuitRow /\ r.id \in CircuitId
  BY <1>2 DEF Circuits, Database
<1>4. \A g \in ColumnSet : d.circuit[r.id][g] = r[g] => e.circuit[r.id][g] = r[g]
  BY <1>2, UpdateWrites
<1>5. CASE f = "location_x"
  <2>1. e = [d EXCEPT !.circuit[r.id].location_x = r.location_x]
    BY <1>2, <1>5 DEF Update, update_circuit_location_x, Result
  <2>2. e.circuit[r.id] = [d.circuit[r.id] EXCEPT !.location_x = r.location_x]
    BY <1>3, <2>1 DEF Database
  <2>3. QED
    BY <1>2, <1>3, <1>4, <1>5, <2>2 DEF CircuitRow
<1>6. CASE f = "location_y"
  <2>1. e = [d EXCEPT !.circuit[r.id].location_y = r.location_y]
    BY <1>2, <1>6 DEF Update, update_circuit_location_y, Result
  <2>2. e.circuit[r.id] = [d.circuit[r.id] EXCEPT !.location_y = r.location_y]
    BY <1>3, <2>1 DEF Database
  <2>3. QED
    BY <1>2, <1>3, <1>4, <1>6, <2>2 DEF CircuitRow
<1>7. CASE f = "parent_circuit"
  <2>1. e = [d EXCEPT !.circuit[r.id].parent_circuit = r.parent_circuit]
    BY <1>2, <1>7 DEF Update, update_circuit_parent_circuit, Result
  <2>2. e.circuit[r.id] = [d.circuit[r.id] EXCEPT !.parent_circuit = r.parent_circuit]
    BY <1>3, <2>1 DEF Database
  <2>3. QED
    BY <1>2, <1>3, <1>4, <1>7, <2>2 DEF CircuitRow
<1>8. CASE f = "gate_type"
  <2>1. e = [d EXCEPT !.circuit[r.id].gate_type = r.gate_type]
    BY <1>2, <1>8 DEF Update, update_circuit_gate_type, Result
  <2>2. e.circuit[r.id] = [d.circuit[r.id] EXCEPT !.gate_type = r.gate_type]
    BY <1>3, <2>1 DEF Database
  <2>3. QED
    BY <1>2, <1>3, <1>4, <1>8, <2>2 DEF CircuitRow
<1>9. QED
  BY <1>1, <1>5, <1>6, <1>7, <1>8

\* The handlers of one statement answer 200 only when it was accepted and done.
LEMMA ModifiesKeepsWord ==
    ASSUME TypeOK, NEW p \in Proc, NEW s, Modifies(p, s),
           s.ok => Done(s.db, who[p], req[p], made[p])
    PROVE  Written(p)' /\ Promised(p)'
<1>1. PICK ok \in BOOLEAN : Executes(p, s, ok) /\ Answer(p, Verdict(ok))
  BY DEF Modifies
<1>2. pc'[p] = "reply" /\ outcome'[p] = Verdict(ok)
  BY <1>1 DEF Answer, Go, TypeOK
<1>3. who' = who /\ req' = req /\ made' = made
  BY DEF Modifies
<1>4. ok => s.ok /\ db' = s.db
  BY <1>1, ExecutesFacts
<1>5. Promised(p)'
  BY <1>2, <1>3, <1>4 DEF Promised, Verdict
<1>6. QED
  BY <1>2, <1>5 DEF Written

LEMMA ReadsKeepsWord ==
    ASSUME TypeOK, NEW p \in Proc, req[p].op \in {"get_scene", "get_circuit", "get_wire"},
           NEW wellFormed, NEW rows, Reads(p, wellFormed, rows)
    PROVE  Written(p)' /\ Promised(p)'
<1>1. pc'[p] = "reply" /\ req' = req
  BY DEF Reads, Answer, Go, TypeOK
<1>2. Done(db', who'[p], req'[p], made'[p])
  BY <1>1 DEF Done
<1>3. QED
  BY <1>1, <1>2 DEF Written, Promised

LEMMA ColumnKeepsWord ==
    ASSUME IInv, NEW p \in Proc, Written(p), put_circuit_column(p)
    PROVE  Written(p)' /\ Promised(p)'
<1> USE DEF IInv
<1>1. PICK f \in ColumnSet, ok \in BOOLEAN :
        /\ IsNext(p, f)
        /\ Executes(p, Update(db, f, req[p][f], req[p].id), ok)
        /\ IF ok
           THEN todo' = [todo EXCEPT ![p] = todo[p] \ {f}] /\ UNCHANGED <<pc, outcome>>
           ELSE Answer(p, "failed") /\ UNCHANGED todo
  BY DEF put_circuit_column
<1>2. pc[p] = "handle" /\ req[p].op = "put_circuit" /\ req' = req
  BY DEF put_circuit_column, Handles
<1>3. f \in todo[p] /\ todo[p] \subseteq Requested(req[p]) /\ req[p] \in Requests
  BY <1>1, <1>2 DEF IsNext, RequestKnown, InFlight
<1>4. CASE ~ok
  BY <1>1, <1>2, <1>4 DEF Answer, Go, TypeOK, Written, Promised
<1>5. CASE ok
  <2>1. /\ db' = Update(db, f, req[p][f], req[p].id).db
        /\ Update(db, f, req[p][f], req[p].id).ok
    BY <1>1, <1>5, ExecutesFacts
  <2>2. pc' = pc /\ todo'[p] = todo[p] \ {f}
    BY <1>1, <1>5 DEF TypeOK
  <2>3. ASSUME req[p].id \in Circuits(db'), NEW g \in Requested(req[p]) \ todo'[p]
        PROVE  db'.circuit[req[p].id][g] = req[p][g]
    <3>1. /\ req[p].id \in Circuits(db)
          /\ db'.circuit[req[p].id][f] = req[p][f]
          /\ \A h \in ColumnSet : db.circuit[req[p].id][h] = req[p][h]
                                    => db'.circuit[req[p].id][h] = req[p][h]
      BY <1>2, <1>3, <2>1, <2>3, UpdateDoes DEF TypeOK
    <3>2. CASE g = f
      BY <3>1, <3>2
    <3>3. CASE g # f
      <4>1. g \in ColumnSet /\ g \in Requested(req[p]) \ todo[p]
        BY <1>2, <2>2, <2>3, <3>3 DEF Requested
      <4>2. QED
        BY <1>2, <3>1, <4>1 DEF Written
    <3>4. QED
      BY <3>2, <3>3
  <2>4. QED
    BY <1>2, <2>2, <2>3 DEF Written, Promised
<1>6. QED
  BY <1>4, <1>5

LEMMA HandleKeepsWord ==
    ASSUME IInv, NEW p \in Proc, Written(p), Handle(p)
    PROVE  Written(p)' /\ Promised(p)'
<1> USE DEF IInv
<1>1. db \in Database
  BY DEF TypeOK
<1>2. pc[p] = "handle" => Fits(req[p], made[p])
  BY DEF RequestKnown, InFlight
<1>3. CASE post_scene(p)
  BY <1>1, <1>2, <1>3, SceneStatementsDo, ModifiesKeepsWord
  DEF post_scene, Creates, Handles, Fits
<1>4. CASE put_scene(p)
  BY <1>1, <1>4, SceneStatementsDo, ModifiesKeepsWord DEF put_scene, Handles
<1>5. CASE delete_scene(p)
  BY <1>1, <1>5, SceneStatementsDo, ModifiesKeepsWord DEF delete_scene, Handles
<1>6. CASE post_circuit(p)
  BY <1>1, <1>2, <1>6, CircuitStatementsDo, ModifiesKeepsWord
  DEF post_circuit, Creates, Handles, Fits
<1>7. CASE circuit_delete(p)
  BY <1>1, <1>7, CircuitStatementsDo, ModifiesKeepsWord DEF circuit_delete, Handles
<1>8. CASE post_wire(p)
  BY <1>1, <1>2, <1>8, WireStatementsDo, ModifiesKeepsWord
  DEF post_wire, Creates, Handles, Fits
<1>9. CASE wire_delete(p)
  BY <1>1, <1>9, WireStatementsDo, ModifiesKeepsWord DEF wire_delete, Handles
<1>10. CASE get_scene(p)
  BY <1>10, ReadsKeepsWord DEF get_scene, Handles
<1>11. CASE get_circuit(p)
  BY <1>11, ReadsKeepsWord DEF get_circuit, Handles
<1>12. CASE get_wire(p)
  BY <1>12, ReadsKeepsWord DEF get_wire, Handles
<1>13. CASE put_circuit_column(p)
  BY <1>13, ColumnKeepsWord
<1>14. CASE put_circuit_done(p)
  <2>1. /\ pc[p] = "handle" /\ req[p].op = "put_circuit" /\ todo[p] = {} /\ pc'[p] = "reply"
        /\ UNCHANGED <<db, who, req, made>>
    BY <1>14 DEF put_circuit_done, Handles, Answer, Go, TypeOK, tables
  <2>2. Done(db, who[p], req[p], made[p])
    BY <2>1 DEF Written, Done
  <2>3. QED
    BY <2>1, <2>2 DEF Written, Promised
<1>15. CASE Reject(p)
  BY <1>15 DEF Reject, Answer, Go, TypeOK, Written, Promised
<1>16. QED
  BY <1>3, <1>4, <1>5, <1>6, <1>7, <1>8, <1>9, <1>10, <1>11, <1>12, <1>13, <1>14, <1>15
  DEF Handle

\* The filter says 401 or 500 itself, and lets a put_circuit in with all its columns.
FirstColumn(p) == pc[p] \in {"auth_lookup", "auth_insert"} => todo[p] = Requested(req[p])

LEMMA RestKeepsWord ==
    ASSUME IInv, NEW p \in Proc, Written(p), Promised(p), FirstColumn(p),
           \/ \E i \in Identities \union {Anonymous}, r \in Requests : Receive(p, i, r)
           \/ Unauthorized(p) \/ AuthLookup(p) \/ AuthInsert(p) \/ Reply(p)
           \/ LoseConnection(p) \/ Crash(p) \/ Restart(p)
    PROVE  Written(p)' /\ Promised(p)' /\ FirstColumn(p)'
<1> USE DEF IInv
<1>1. CASE \E i \in Identities \union {Anonymous}, r \in Requests : Receive(p, i, r)
  BY <1>1 DEF Receive, Go, TypeOK, Written, Promised, FirstColumn
<1>2. CASE Unauthorized(p)
  BY <1>2 DEF Unauthorized, Answer, Go, TypeOK, Written, Promised, FirstColumn
<1>3. CASE AuthLookup(p)
  <2>1. /\ pc[p] = "auth_lookup" /\ pc'[p] \in {"handle", "auth_insert"}
        /\ UNCHANGED <<req, todo>>
    BY <1>3 DEF AuthLookup, Go, TypeOK
  <2>2. QED
    BY <2>1 DEF Written, Promised, FirstColumn
<1>4. CASE AuthInsert(p)
  <2>1. /\ pc[p] = "auth_insert" /\ UNCHANGED <<req, todo>>
        /\ \/ pc'[p] = "handle"
           \/ pc'[p] = "reply" /\ outcome'[p] = "refused"
    BY <1>4 DEF AuthInsert, Answer, Go, TypeOK
  <2>2. QED
    BY <2>1 DEF Written, Promised, FirstColumn
<1>5. CASE Reply(p) \/ Crash(p) \/ Restart(p)
  <2>1. pc'[p] \in {"idle", "down"}
    BY <1>5 DEF Reply, Crash, Restart, Go, TypeOK
  <2>2. QED
    BY <2>1 DEF Written, Promised, FirstColumn
<1>6. CASE LoseConnection(p)
  BY <1>6 DEF LoseConnection, tables, session, Written, Promised, FirstColumn
<1>7. QED
  BY <1>1, <1>2, <1>3, <1>4, <1>5, <1>6

LEMMA HandleLeavesFilter ==
    ASSUME TypeOK, NEW p \in Proc, Handle(p)
    PROVE  FirstColumn(p)'
<1>1. pc'[p] \in {"handle", "reply"}
  BY DEF Handle, Handles, Reject, put_circuit_column, put_circuit_done, post_scene, get_scene,
         delete_scene, put_scene, post_circuit, get_circuit, circuit_delete, post_wire,
         get_wire, wire_delete, Creates, Modifies, Reads, Answer, Go, TypeOK
<1>2. QED
  BY <1>1 DEF FirstColumn

\* An answer of 200 means that the request has had its whole effect, or that its
\* WHERE clause found no row of the sender's: by any sequence of requests, columns
\* and faults, if one process serves the database.
THEOREM AcknowledgementsCorrect ==
    ASSUME \A p, q \in Proc : p = q
    PROVE  Spec => []AcknowledgedIsDone
<1> DEFINE Word == \A p \in Proc : Written(p) /\ Promised(p) /\ FirstColumn(p)
<1>1. Init => Word
  BY DEF Init, InitSession, Written, Promised, FirstColumn
<1>2. IInv /\ Word /\ [Next]_vars => Word'
  <2>1. ASSUME IInv, Word, Next
        PROVE  Word'
    <3>1. PICK p \in Proc :
            \/ \E i \in Identities \union {Anonymous}, r \in Requests : Receive(p, i, r)
            \/ Work(p) \/ LoseConnection(p) \/ Crash(p) \/ Restart(p)
      BY <2>1 DEF Next
    <3>2. Written(p) /\ Promised(p) /\ FirstColumn(p)
      BY <2>1
    <3>3. Written(p)' /\ Promised(p)' /\ FirstColumn(p)'
      BY <2>1, <3>1, <3>2, HandleKeepsWord, HandleLeavesFilter, RestKeepsWord DEF Work, IInv
    <3>4. QED
      BY <3>3
  <2>2. ASSUME Word, UNCHANGED vars
        PROVE  Word'
    BY <2>2 DEF vars, tables, session, Written, Promised, FirstColumn
  <2>3. QED
    BY <2>1, <2>2
<1>3. Word => AcknowledgedIsDone
  BY DEF Promised, AcknowledgedIsDone
<1> HIDE DEF Word
<1>4. QED
  BY <1>1, <1>2, <1>3, Invariant, PTL DEF Spec

-----------------------------------------------------------------------------
(* The service of scenes.                                                  *)

\* Only an answer has rows.
Bodies ==
    /\ body = [p \in Proc |-> body[p]]
    /\ \A p \in Proc : pc[p] # "reply" => body[p] = {}

-----------------------------------------------------------------------------
(* The rows of an answer.                                                  *)

LEMMA BodiesStep ==
    ASSUME TypeOK, Bodies, Next
    PROVE  Bodies'
<1>1. PICK p \in Proc :
        \/ \E i \in Identities \union {Anonymous}, r \in Requests : Receive(p, i, r)
        \/ Work(p) \/ LoseConnection(p) \/ Crash(p) \/ Restart(p)
  BY DEF Next
<1>2. ASSUME body' = body, pc[p] # "reply" \/ pc' = pc,
             \E place : pc' = [pc EXCEPT ![p] = place]
      PROVE  Bodies'
  BY <1>2 DEF Bodies, TypeOK
<1>3. ASSUME NEW some, body' = [body EXCEPT ![p] = some],
             pc' = [pc EXCEPT ![p] = "reply"]
      PROVE  Bodies'
  BY <1>3 DEF Bodies, TypeOK
<1>4. ASSUME body' = [body EXCEPT ![p] = {}], \E place : pc' = [pc EXCEPT ![p] = place]
      PROVE  Bodies'
  BY <1>4 DEF Bodies, TypeOK
<1>5. CASE \E i \in Identities \union {Anonymous}, r \in Requests : Receive(p, i, r)
  BY <1>2, <1>5 DEF Receive, Go
<1>6. CASE Unauthorized(p) \/ AuthLookup(p) \/ AuthInsert(p)
  <2>1. body' = body /\ pc[p] # "reply"
    BY <1>6 DEF Unauthorized, AuthLookup, AuthInsert
  <2>2. \E place : pc' = [pc EXCEPT ![p] = place]
    BY <1>6 DEF Unauthorized, AuthLookup, AuthInsert, Answer, Go
  <2>3. QED
    BY <1>2, <2>1, <2>2
<1>7. CASE get_scene(p) \/ get_circuit(p) \/ get_wire(p)
  <2>1. \E some : body' = [body EXCEPT ![p] = some] /\ pc' = [pc EXCEPT ![p] = "reply"]
    BY <1>7 DEF get_scene, get_circuit, get_wire, Reads, Answer, Go
  <2>2. QED
    BY <1>3, <2>1
<1>8. CASE Handle(p) /\ ~(get_scene(p) \/ get_circuit(p) \/ get_wire(p))
  <2>1. body' = body /\ pc[p] = "handle"
    BY <1>8 DEF Handle, Handles, Reject, put_circuit_column, put_circuit_done, post_scene,
                delete_scene, put_scene, post_circuit, circuit_delete, post_wire, wire_delete,
                Creates, Modifies
  <2>2. pc' = [pc EXCEPT ![p] = "reply"] \/ pc' = pc
    BY <1>8 DEF Handle, Reject, put_circuit_column, put_circuit_done, post_scene,
                delete_scene, put_scene, post_circuit, circuit_delete, post_wire, wire_delete,
                Creates, Modifies, Answer, Go
  <2>3. pc = [pc EXCEPT ![p] = pc[p]]
    BY DEF TypeOK
  <2>4. QED
    BY <1>2, <2>1, <2>2, <2>3
<1>9. CASE Reply(p) \/ Crash(p)
  BY <1>4, <1>9 DEF Reply, Crash, EndSession, Go
<1>10. CASE LoseConnection(p)
  BY <1>10 DEF LoseConnection, session, Bodies
<1>11. CASE Restart(p)
  BY <1>2, <1>11 DEF Restart, Go
<1>12. QED
  BY <1>1, <1>5, <1>6, <1>7, <1>8, <1>9, <1>10, <1>11 DEF Work

-----------------------------------------------------------------------------
(* Answers.                                                                *)

\* An answer of the process is one of the service.
LEMMA AnswerMaps ==
    ASSUME TypeOK, Bodies, NEW p \in Proc, NEW o, pc[p] \in InFlight, Answer(p, o),
           UNCHANGED <<who, req>>, NEW some, body' = [body EXCEPT ![p] = some],
           NEW shown, shown = IF req[p].op = "get_scene" THEN some ELSE {}
    PROVE  Service!Answer(p, o = "ok", shown)
<1>1. /\ pc' = [pc EXCEPT ![p] = "reply"]
      /\ outcome' = [outcome EXCEPT ![p] = o]
  BY DEF Answer, Go
<1>2. Phase(p) = "asked"
  BY DEF Phase, InFlight
<1>3. [q \in Proc |-> Phase(q)'] = [[q \in Proc |-> Phase(q)] EXCEPT ![p] = "answered"]
  BY <1>1 DEF Phase, TypeOK
<1>4. [q \in Proc |-> outcome'[q] = "ok"] =
        [[q \in Proc |-> outcome[q] = "ok"] EXCEPT ![p] = (o = "ok")]
  BY <1>1 DEF TypeOK
<1>5. [q \in Proc |-> ShownScenes(q)'] =
        [[q \in Proc |-> ShownScenes(q)] EXCEPT
            ![p] = shown]
  BY <1>1 DEF ShownScenes, TypeOK, Bodies
<1>6. QED
  BY <1>2, <1>3, <1>4, <1>5 DEF Service!Answer

\* The same where the rows are left as they are, namely none.
LEMMA PlainAnswerMaps ==
    ASSUME TypeOK, Bodies, NEW p \in Proc, NEW o, pc[p] \in InFlight, Answer(p, o),
           UNCHANGED <<who, req, body>>
    PROVE  Service!Answer(p, o = "ok", {})
<1>1. body' = [body EXCEPT ![p] = {}]
  BY DEF Bodies, InFlight
<1>2. {} = IF req[p].op = "get_scene" THEN {} ELSE {}
  OBVIOUS
<1>3. QED
  BY <1>1, <1>2, AnswerMaps DEF Service!Answer

\* What a statement does to the link, as the service sees it.
LEMMA LinkMaps ==
    ASSUME TypeOK, NEW p \in Proc, NEW s, NEW ok \in BOOLEAN, Executes(p, s, ok)
    PROVE  \/ ok /\ s.ok /\ db' = s.db /\ UNCHANGED connected
           \/ ~ok /\ db' = db /\ UNCHANGED connected
           \/ ~ok /\ ~s.ok /\ db' = s.db /\ UNCHANGED connected
           \/ ~ok /\ db' = s.db /\ connected[p] /\ Service!Break(p)
BY DEF Executes, link, Service!Break

\* A handler that writes grants the request with its effect, refuses it without,
\* or is not heard of again.
LEMMA ModifiesMaps ==
    ASSUME TypeOK, Bodies, NEW p \in Proc, pc[p] = "handle", req[p].op # "get_scene",
           NEW s, Modifies(p, s), ~s.ok => s.db = db,
           s.ok /\ db' = s.db => Service!Effect(p),
           db' = db => minted' = minted
    PROVE  Service!Grant(p) \/ Service!Refuse(p) \/ Service!Unheard(p)
<1>1. PICK ok \in BOOLEAN : Executes(p, s, ok) /\ Answer(p, Verdict(ok))
  BY DEF Modifies
<1>2. Service!Answer(p, Verdict(ok) = "ok", {})
  BY <1>1, PlainAnswerMaps DEF Modifies, InFlight
<1>3. Service!Answer(p, ok, {})
  BY <1>2 DEF Verdict
<1>4. CASE ok /\ s.ok /\ db' = s.db /\ UNCHANGED connected
  <2>1. Service!Listing(p) = {}
    BY DEF Service!Listing
  <2>2. Service!Grant(p)
    BY <1>3, <1>4, <2>1 DEF Service!Grant, Service!Answer
  <2>3. QED
    BY <2>2
<1>5. CASE ~ok /\ db' = db /\ (UNCHANGED connected \/ Service!Break(p))
  <2>1. Service!Refuse(p)
    BY <1>3, <1>5 DEF Service!Refuse, Service!store
  <2>2. QED
    BY <2>1
<1>6. CASE ~ok /\ s.ok /\ db' = s.db /\ connected[p] /\ Service!Break(p)
  <2>1. Service!Unheard(p)
    BY <1>3, <1>6 DEF Service!Unheard
  <2>2. QED
    BY <2>1
<1>7. QED
  BY <1>1, <1>4, <1>5, <1>6, LinkMaps

-----------------------------------------------------------------------------
(* Effects.                                                                *)

LEMMA CreateMaps ==
    ASSUME IInv, Fresh, NEW p \in Proc, Handles(p, "post_scene"),
           NEW s, s = scene_save(db, made[p], who[p].id, req[p].text), s.ok, db' = s.db,
           minted' = IF db' = db THEN minted ELSE minted \union {made[p]}
    PROVE  Service!Effect(p)
<1> DEFINE row == [author |-> who[p].id, text |-> req[p].text]
<1>1. made[p] \in SceneId /\ made[p] \notin minted
  BY DEF IInv, Handles, RequestKnown, InFlight, Fits, Fresh, DrawnAreFresh, Creating
<1>2. row \in SceneRow
  <2>1. req[p] \in Requests /\ who[p] \in Identities
    BY DEF IInv, Handles, RequestKnown, InFlight
  <2>2. req[p].text \in Text
    BY <2>1, RequestFields DEF Handles
  <2>3. QED
    BY <2>1, <2>2, IdentitiesAssumption DEF Identity, SceneRow
<1>3. made[p] \notin Scenes(db)
  BY <1>1 DEF Fresh, RowsMinted
<1>4. db \in Database
  BY DEF IInv, TypeOK
<1>5. db'.scene = [db.scene EXCEPT ![made[p]] = row]
  BY <1>4 DEF scene_save, Result, Database
<1>6. db' # db
  BY <1>1, <1>2, <1>3, <1>4, <1>5, AbsentAssumption DEF Scenes, Database
<1>7. Service!Create(p)
  BY <1>1, <1>5, <1>6 DEF Service!Create, Handles
<1>8. QED
  BY <1>7 DEF Service!Effect

\* The scenes a WHERE clause matches are those that the service takes to be meant.
LEMMA MeantMaps ==
    ASSUME NEW p \in Proc
    PROVE  Service!Meant(p) = OwnScenes(db, req[p].id, who[p].id)
BY DEF Service!Meant, Service!Owned, OwnScenes, Scenes

LEMMA RewriteMaps ==
    ASSUME TypeOK, NEW p \in Proc, Handles(p, "put_scene"), minted' = minted,
           NEW s, s = scene_update_basic(db, req[p].id, who[p].id, req[p].text),
           s.ok, db' = s.db
    PROVE  Service!Effect(p)
<1>1. db'.scene = [t \in SceneId |-> IF t \in OwnScenes(db, req[p].id, who[p].id)
                     THEN [db.scene[t] EXCEPT !.text = req[p].text] ELSE db.scene[t]]
  BY DEF scene_update_basic, Result, TypeOK, Database
<1>2. Service!Rewrite(p)
  BY <1>1, MeantMaps DEF Service!Rewrite, Handles
<1>3. QED
  BY <1>2 DEF Service!Effect

LEMMA EraseMaps ==
    ASSUME TypeOK, NEW p \in Proc, Handles(p, "delete_scene"), minted' = minted,
           NEW s, s = scene_delete(db, req[p].id, who[p].id), s.ok, db' = s.db
    PROVE  Service!Effect(p)
<1>1. db'.scene = [t \in SceneId |-> IF t \in OwnScenes(db, req[p].id, who[p].id)
                                      THEN Absent ELSE db.scene[t]]
  BY DEF scene_delete, Remove, Result, TypeOK, Database
<1>2. Service!Erase(p)
  BY <1>1, MeantMaps DEF Service!Erase, Handles
<1>3. QED
  BY <1>2 DEF Service!Effect

LEMMA ElsewhereMaps ==
    ASSUME NEW p \in Proc, req[p].op \notin {"post_scene", "put_scene", "delete_scene"},
           db'.scene = db.scene, minted \subseteq minted'
    PROVE  Service!Effect(p)
BY DEF Service!Effect, Service!Elsewhere

-----------------------------------------------------------------------------
(* Handlers.                                                               *)

\* What a step of p is to the service.
Serves(p) ==
    \/ Service!Grant(p) \/ Service!Refuse(p) \/ Service!Unheard(p)
    \/ Service!Leave(p) \/ Service!Link(p)
    \/ \E u \in UserId \union {Absent}, r \in Requests : Service!Ask(p, u, r)
    \/ UNCHANGED Service!vars

LEMMA WritersMap ==
    ASSUME IInv, Fresh, Bodies, NEW p \in Proc,
           \/ post_scene(p) \/ put_scene(p) \/ delete_scene(p)
           \/ post_circuit(p) \/ circuit_delete(p) \/ post_wire(p) \/ wire_delete(p)
    PROVE  Serves(p)
<1> USE DEF IInv
<1>1. db \in Database
  BY DEF TypeOK
<1>2. CASE post_scene(p)
  <2> DEFINE s == scene_save(db, made[p], who[p].id, req[p].text)
  <2>1. /\ Handles(p, "post_scene") /\ Modifies(p, s)
        /\ minted' = IF db' = db THEN minted ELSE minted \union {made[p]}
    BY <1>2 DEF post_scene, Creates
  <2>2. ~s.ok => s.db = db
    BY DEF scene_save, Result
  <2>3. s.ok /\ db' = s.db => Service!Effect(p)
    BY <2>1, CreateMaps
  <2> HIDE DEF s
  <2>4. Service!Grant(p) \/ Service!Refuse(p) \/ Service!Unheard(p)
    BY <2>1, <2>2, <2>3, ModifiesMaps DEF Handles
  <2>5. QED
    BY <2>4 DEF Serves
<1>3. CASE put_scene(p)
  <2> DEFINE s == scene_update_basic(db, req[p].id, who[p].id, req[p].text)
  <2>1. Handles(p, "put_scene") /\ Modifies(p, s) /\ minted' = minted
    BY <1>3 DEF put_scene
  <2>2. ~s.ok => s.db = db
    BY DEF scene_update_basic, Result
  <2>3. s.ok /\ db' = s.db => Service!Effect(p)
    BY <2>1, RewriteMaps
  <2> HIDE DEF s
  <2>4. Service!Grant(p) \/ Service!Refuse(p) \/ Service!Unheard(p)
    BY <2>1, <2>2, <2>3, ModifiesMaps DEF Handles
  <2>5. QED
    BY <2>4 DEF Serves
<1>4. CASE delete_scene(p)
  <2> DEFINE s == scene_delete(db, req[p].id, who[p].id)
  <2>1. Handles(p, "delete_scene") /\ Modifies(p, s) /\ minted' = minted
    BY <1>4 DEF delete_scene
  <2>2. ~s.ok => s.db = db
    BY DEF scene_delete, Result
  <2>3. s.ok /\ db' = s.db => Service!Effect(p)
    BY <2>1, EraseMaps
  <2> HIDE DEF s
  <2>4. Service!Grant(p) \/ Service!Refuse(p) \/ Service!Unheard(p)
    BY <2>1, <2>2, <2>3, ModifiesMaps DEF Handles
  <2>5. QED
    BY <2>4 DEF Serves
\* The other statements leave the scenes alone.
<1>5. ASSUME NEW op, op \notin {"post_scene", "put_scene", "delete_scene", "get_scene"},
             Handles(p, op), NEW s, Modifies(p, s), ~s.ok => s.db = db,
             s.db.scene = db.scene, minted \subseteq minted', db' = db => minted' = minted
      PROVE  Serves(p)
  <2>1. s.ok /\ db' = s.db => Service!Effect(p)
    BY <1>5, ElsewhereMaps DEF Handles
  <2>2. Service!Grant(p) \/ Service!Refuse(p) \/ Service!Unheard(p)
    BY <1>5, <2>1, ModifiesMaps DEF Handles
  <2>3. QED
    BY <2>2 DEF Serves
<1>6. CASE post_circuit(p)
  <2> DEFINE s == circuit_save(db, made[p], CircuitOf(req[p]))
  <2>1. /\ Handles(p, "post_circuit") /\ Modifies(p, s)
        /\ minted \subseteq minted' /\ (db' = db => minted' = minted)
    BY <1>6 DEF post_circuit, Creates
  <2>2. ~s.ok => s.db = db
    BY DEF circuit_save, Result
  <2>3. s.db.scene = db.scene
    BY <1>1, SceneTableKept
  <2>4. QED
    BY <1>5, <2>1, <2>2, <2>3
<1>7. CASE circuit_delete(p)
  <2> DEFINE s == delete_circuit(db, req[p].id)
  <2>1. Handles(p, "circuit_delete") /\ Modifies(p, s) /\ minted' = minted
    BY <1>7 DEF circuit_delete
  <2>2. ~s.ok => s.db = db
    BY DEF delete_circuit, Result
  <2>3. s.db.scene = db.scene
    BY <1>1, SceneTableKept
  <2>4. QED
    BY <1>5, <2>1, <2>2, <2>3
<1>8. CASE post_wire(p)
  <2> DEFINE s == wire_save(db, made[p], WireOf(req[p]))
  <2>1. /\ Handles(p, "post_wire") /\ Modifies(p, s)
        /\ minted \subseteq minted' /\ (db' = db => minted' = minted)
    BY <1>8 DEF post_wire, Creates
  <2>2. ~s.ok => s.db = db
    BY DEF wire_save, Result
  <2>3. s.db.scene = db.scene
    BY <1>1, SceneTableKept
  <2>4. QED
    BY <1>5, <2>1, <2>2, <2>3
<1>9. CASE wire_delete(p)
  <2> DEFINE s == delete_wire(db, req[p].id)
  <2>1. Handles(p, "wire_delete") /\ Modifies(p, s) /\ minted' = minted
    BY <1>9 DEF wire_delete
  <2>2. ~s.ok => s.db = db
    BY DEF delete_wire, Result
  <2>3. s.db.scene = db.scene
    BY <1>1, SceneTableKept
  <2>4. QED
    BY <1>5, <2>1, <2>2, <2>3
<1>10. QED
  BY <1>2, <1>3, <1>4, <1>6, <1>7, <1>8, <1>9

LEMMA ReadersMap ==
    ASSUME TypeOK, Bodies, NEW p \in Proc, get_scene(p) \/ get_circuit(p) \/ get_wire(p)
    PROVE  Serves(p)
<1>1. ASSUME NEW op, op \in {"get_scene", "get_circuit", "get_wire"}, Handles(p, op),
             NEW wellFormed, NEW found, Reads(p, wellFormed, found),
             op = "get_scene" => found = Service!Listing(p)
      PROVE  Serves(p)
  <2>1. PICK ok \in BOOLEAN :
          /\ Executes(p, Query(wellFormed), ok)
          /\ Answer(p, Verdict(ok))
          /\ body' = [body EXCEPT ![p] = IF ok THEN found ELSE {}]
    BY <1>1 DEF Reads
  <2>2. /\ db' = db /\ minted' = minted
        /\ ok => UNCHANGED connected
        /\ UNCHANGED connected \/ Service!Break(p)
    BY <1>1, <2>1, LinkMaps DEF Reads, Query
  <2> DEFINE some == IF ok THEN found ELSE {}
             shown == IF req[p].op = "get_scene" THEN some ELSE {}
  <2>3. Service!Answer(p, Verdict(ok) = "ok", shown)
    <3>1. body' = [body EXCEPT ![p] = some] /\ UNCHANGED <<who, req>> /\ pc[p] \in InFlight
      BY <1>1, <2>1 DEF Reads, Handles, InFlight
    <3>2. PICK o, any, part : o = Verdict(ok) /\ any = some /\ part = shown
      OBVIOUS
    <3>3. /\ Answer(p, o) /\ body' = [body EXCEPT ![p] = any]
          /\ part = IF req[p].op = "get_scene" THEN any ELSE {}
      BY <2>1, <3>1, <3>2
    <3>4. Service!Answer(p, o = "ok", part)
      BY <3>1, <3>3, AnswerMaps, ZenonT(60)
    <3>5. QED
      BY <3>2, <3>4 DEF Service!Answer
  <2>4. CASE ok
    <3>1. shown = Service!Listing(p)
      BY <1>1, <2>4 DEF Handles, Service!Listing
    <3>2. Service!Effect(p)
      BY <1>1, <2>2, ElsewhereMaps DEF Handles
    <3>3. Service!Grant(p)
      BY <2>2, <2>3, <2>4, <3>1, <3>2 DEF Service!Grant, Service!Answer, Verdict
    <3>4. QED
      BY <3>3 DEF Serves
  <2>5. CASE ~ok
    <3>1. shown = {}
      BY <2>5
    <3>2. Service!Refuse(p)
      BY <2>2, <2>3, <2>5, <3>1 DEF Service!Refuse, Service!Answer, Service!store, Verdict
    <3>3. QED
      BY <3>2 DEF Serves
  <2>6. QED
    BY <2>4, <2>5
<1>2. CASE get_scene(p)
  <2> DEFINE found == {Row(s, db.scene[s]) : s \in get_scenes_of_user(db, who[p].id)}
  <2>1. Handles(p, "get_scene") /\ Reads(p, TRUE, found)
    BY <1>2 DEF get_scene
  <2>2. found = Service!Listing(p)
    BY <2>1 DEF Handles, Row, get_scenes_of_user, Scenes, Service!Listing, Service!Owned
  <2> HIDE DEF found
  <2>3. QED
    BY <1>1, <2>1, <2>2
<1>3. CASE get_circuit(p) \/ get_wire(p)
  <2>1. \E op \in {"get_circuit", "get_wire"} : \E wellFormed, found :
          Handles(p, op) /\ Reads(p, wellFormed, found)
    BY <1>3 DEF get_circuit, get_wire
  <2>2. QED
    BY <1>1, <2>1
<1>4. QED
  BY <1>2, <1>3

\* A step that leaves everything alone that the service knows of, save the link.
LEMMA SilentMaps ==
    ASSUME TypeOK, Bodies, NEW p \in Proc, NEW place, pc' = [pc EXCEPT ![p] = place],
           {pc[p], place} \subseteq InFlight \/ {pc[p], place} \subseteq {"down", "idle"}
                \/ place = pc[p],
           UNCHANGED <<who, req, outcome, body, minted>>, db'.scene = db.scene,
           \/ UNCHANGED connected \/ Service!Break(p)
           \/ pc[p] = "down" /\ connected' = [connected EXCEPT ![p] = TRUE]
    PROVE  Serves(p)
<1>1. \A q \in Proc : Phase(q)' = Phase(q)
  BY DEF Phase, InFlight, TypeOK
<1>2. \A q \in Proc : ShownScenes(q)' = ShownScenes(q)
  BY DEF ShownScenes, InFlight, TypeOK
<1>3. /\ [q \in Proc |-> Phase(q)'] = [q \in Proc |-> Phase(q)]
      /\ [q \in Proc |-> ShownScenes(q)'] = [q \in Proc |-> ShownScenes(q)]
  BY <1>1, <1>2
<1>4. UNCHANGED <<Service!store, Service!calls>>
  BY <1>3 DEF Service!store, Service!calls
<1>5. CASE UNCHANGED connected
  <2>1. UNCHANGED Service!vars
    BY <1>4, <1>5 DEF Service!vars
  <2>2. QED
    BY <2>1 DEF Serves
<1>6. CASE ~ UNCHANGED connected
  <2>1. pc[p] = "down" => Phase(p) = "free"
    BY DEF Phase
  <2>2. Service!Link(p)
    BY <1>4, <1>6, <2>1 DEF Service!Link
  <2>3. QED
    BY <2>2 DEF Serves
<1>7. QED
  BY <1>5, <1>6

\* A step that answers without success and leaves the scenes alone.
LEMMA RefusalMaps ==
    ASSUME TypeOK, Bodies, NEW p \in Proc, NEW o, o # "ok", pc[p] \in InFlight, Answer(p, o),
           UNCHANGED <<who, req, body, minted>>, db'.scene = db.scene,
           UNCHANGED connected \/ Service!Break(p)
    PROVE  Serves(p)
<1>1. Service!Answer(p, o = "ok", {})
  BY PlainAnswerMaps
<1>2. Service!Refuse(p)
  BY <1>1 DEF Service!Refuse, Service!Answer, Service!store
<1>3. QED
  BY <1>2 DEF Serves

LEMMA ColumnMaps ==
    ASSUME IInv, Bodies, NEW p \in Proc, put_circuit_column(p)
    PROVE  Serves(p)
<1> USE DEF IInv
<1>1. PICK f \in ColumnSet, ok \in BOOLEAN :
        /\ IsNext(p, f)
        /\ Executes(p, Update(db, f, req[p][f], req[p].id), ok)
        /\ IF ok THEN UNCHANGED <<pc, outcome>> ELSE Answer(p, "failed")
  BY DEF put_circuit_column
<1>2. /\ pc[p] = "handle" /\ req[p] \in Requests /\ req[p].op = "put_circuit"
      /\ f \in Requested(req[p])
      /\ UNCHANGED <<minted, who, req, body>>
  BY <1>1 DEF put_circuit_column, Handles, IsNext, RequestKnown, InFlight
<1>3. db \in Database
  BY DEF TypeOK
<1> DEFINE s == Update(db, f, req[p][f], req[p].id)
<1>4. s.db.scene = db.scene
  BY <1>2, <1>3, UpdateWrites
<1>5. Executes(p, s, ok)
  BY <1>1
<1> HIDE DEF s
<1>6. /\ db'.scene = db.scene
      /\ ok => UNCHANGED connected
      /\ UNCHANGED connected \/ Service!Break(p)
  BY <1>4, <1>5, LinkMaps
<1>7. CASE ok
  <2>1. pc' = [pc EXCEPT ![p] = "handle"] /\ UNCHANGED outcome
    BY <1>1, <1>2, <1>7 DEF TypeOK
  <2>2. QED
    BY <1>2, <1>6, <1>7, <2>1, SilentMaps
<1>8. CASE ~ok
  BY <1>1, <1>2, <1>6, <1>8, RefusalMaps DEF InFlight
<1>9. QED
  BY <1>7, <1>8

LEMMA DoneMaps ==
    ASSUME TypeOK, Bodies, NEW p \in Proc, put_circuit_done(p)
    PROVE  Serves(p)
<1>1. /\ pc[p] = "handle" /\ req[p].op = "put_circuit" /\ Answer(p, "ok")
      /\ UNCHANGED <<db, minted, who, req, body, connected>>
  BY DEF put_circuit_done, Handles, tables, link
<1>2. Service!Answer(p, TRUE, {})
  <2>1. PICK o : o = "ok"
    OBVIOUS
  <2>2. Service!Answer(p, o = "ok", {})
    BY <1>1, <2>1, PlainAnswerMaps DEF InFlight
  <2>3. QED
    BY <2>1, <2>2 DEF Service!Answer
<1>3. Service!Effect(p) /\ Service!Listing(p) = {}
  BY <1>1, ElsewhereMaps DEF Service!Listing
<1>4. Service!Grant(p)
  BY <1>1, <1>2, <1>3 DEF Service!Grant, Service!Answer
<1>5. QED
  BY <1>4 DEF Serves

-----------------------------------------------------------------------------
(* The other steps.                                                        *)

LEMMA ReceiveMaps ==
    ASSUME TypeOK, Bodies, NEW p \in Proc, NEW i \in Identities \union {Anonymous},
           NEW r \in Requests, Receive(p, i, r)
    PROVE  Serves(p)
<1>1. /\ pc[p] = "idle" /\ pc' = [pc EXCEPT ![p] = "auth_lookup"]
      /\ who' = [who EXCEPT ![p] = i] /\ req' = [req EXCEPT ![p] = r]
      /\ UNCHANGED <<db, minted, outcome, body, connected>>
  BY DEF Receive, Go, tables, link
<1>2. i.id \in UserId \union {Absent}
  BY IdentitiesAssumption DEF Identity, Anonymous
<1>3. Phase(p) = "free"
  BY <1>1 DEF Phase
<1>4. [q \in Proc |-> Phase(q)'] = [[q \in Proc |-> Phase(q)] EXCEPT ![p] = "asked"]
  BY <1>1 DEF Phase, TypeOK
<1>5. [q \in Proc |-> who'[q].id] = [[q \in Proc |-> who[q].id] EXCEPT ![p] = i.id]
  BY <1>1 DEF TypeOK
<1>6. [q \in Proc |-> ShownScenes(q)'] = [q \in Proc |-> ShownScenes(q)]
  BY <1>1 DEF ShownScenes, TypeOK
<1>7. Service!Ask(p, i.id, r)
  BY <1>1, <1>3, <1>4, <1>5, <1>6 DEF Service!Ask, Service!store
<1>8. QED
  BY <1>2, <1>7 DEF Serves

LEMMA FilterMaps ==
    ASSUME IInv, Bodies, NEW p \in Proc, Unauthorized(p) \/ AuthLookup(p) \/ AuthInsert(p)
    PROVE  Serves(p)
<1> USE DEF IInv
<1>1. CASE Unauthorized(p)
  BY <1>1, RefusalMaps DEF Unauthorized, tables, link, InFlight
<1>2. CASE AuthLookup(p)
  <2>1. PICK ok \in BOOLEAN : Executes(p, Query(TRUE), ok)
    BY <1>2 DEF AuthLookup
  <2>2. db' = db /\ (UNCHANGED connected \/ Service!Break(p))
    BY <2>1, LinkMaps DEF Query
  <2>3. PICK place \in {"handle", "auth_insert"} : pc' = [pc EXCEPT ![p] = place]
    BY <1>2 DEF AuthLookup, Go
  <2>4. QED
    BY <1>2, <2>2, <2>3, SilentMaps DEF AuthLookup, InFlight
<1>3. CASE AuthInsert(p)
  <2> DEFINE s == user_insert(db, who[p].id, who[p].nickname)
  <2>1. PICK ok \in BOOLEAN :
          /\ Executes(p, s, ok)
          /\ IF ok THEN Go(p, "handle") /\ UNCHANGED outcome ELSE Answer(p, "refused")
    BY <1>3 DEF AuthInsert
  <2>2. s.db.scene = db.scene
    BY SceneTableKept DEF TypeOK
  <2> HIDE DEF s
  <2>3. db'.scene = db.scene /\ (UNCHANGED connected \/ Service!Break(p))
    BY <2>1, <2>2, LinkMaps
  <2>4. CASE ok
    BY <1>3, <2>1, <2>3, <2>4, SilentMaps DEF AuthInsert, Go, InFlight
  <2>5. CASE ~ok
    BY <1>3, <2>1, <2>3, <2>5, RefusalMaps DEF AuthInsert, InFlight
  <2>6. QED
    BY <2>4, <2>5
<1>4. QED
  BY <1>1, <1>2, <1>3

LEMMA EndMaps ==
    ASSUME TypeOK, Bodies, NEW p \in Proc, Reply(p) \/ Crash(p)
    PROVE  Serves(p)
<1>1. PICK place \in {"down", "idle"} : pc' = [pc EXCEPT ![p] = place]
  BY DEF Reply, Crash, Go
<1>2. /\ EndSession(p) /\ UNCHANGED <<db, minted>>
      /\ (pc[p] = "reply" /\ UNCHANGED connected) \/ Service!Break(p)
  BY DEF Reply, Crash, tables, link, Service!Break
<1>3. [q \in Proc |-> Phase(q)'] = [[q \in Proc |-> Phase(q)] EXCEPT ![p] = "free"]
  BY <1>1 DEF Phase, TypeOK
<1>4. [q \in Proc |-> who'[q].id] = [[q \in Proc |-> who[q].id] EXCEPT ![p] = Absent]
  BY <1>2 DEF EndSession, Anonymous, TypeOK
<1>5. [q \in Proc |-> outcome'[q] = "ok"] =
        [[q \in Proc |-> outcome[q] = "ok"] EXCEPT ![p] = FALSE]
  BY <1>2 DEF EndSession, TypeOK
<1>6. [q \in Proc |-> ShownScenes(q)'] = [[q \in Proc |-> ShownScenes(q)] EXCEPT ![p] = {}]
  BY <1>1, <1>2 DEF EndSession, ShownScenes, TypeOK, Bodies
<1>7. pc[p] = "reply" => Phase(p) = "answered"
  BY DEF Phase
<1>8. Service!Leave(p)
  BY <1>2, <1>3, <1>4, <1>5, <1>6, <1>7 DEF Service!Leave, Service!store, EndSession
<1>9. QED
  BY <1>8 DEF Serves

LEMMA ConnectionMaps ==
    ASSUME TypeOK, Bodies, NEW p \in Proc, LoseConnection(p) \/ Restart(p)
    PROVE  Serves(p)
<1>1. CASE LoseConnection(p)
  <2>1. /\ pc' = [pc EXCEPT ![p] = pc[p]] /\ Service!Break(p)
        /\ UNCHANGED <<who, req, outcome, body, db, minted>>
    BY <1>1 DEF LoseConnection, session, tables, TypeOK, Service!Break
  <2>2. QED
    BY <2>1, SilentMaps
<1>2. CASE Restart(p)
  BY <1>2, SilentMaps DEF Restart, Go, tables
<1>3. QED
  BY <1>1, <1>2

-----------------------------------------------------------------------------
(* The refinement.                                                         *)

LEMMA StepMaps ==
    ASSUME IInv, Fresh, Bodies, Next
    PROVE  [Service!Next]_(Service!vars)
<1>1. PICK p \in Proc :
        \/ \E i \in Identities \union {Anonymous}, r \in Requests : Receive(p, i, r)
        \/ Work(p) \/ LoseConnection(p) \/ Crash(p) \/ Restart(p)
  BY DEF Next
<1>2. TypeOK
  BY DEF IInv
<1>3. Reject(p) => Serves(p)
  BY <1>2, RefusalMaps DEF Reject, Handles, tables, link, InFlight
<1>4. Handle(p) => Serves(p)
  BY <1>2, <1>3, WritersMap, ReadersMap, ColumnMaps, DoneMaps DEF Handle
<1>5. Work(p) => Serves(p)
  BY <1>2, <1>4, FilterMaps, EndMaps DEF Work
<1>6. Serves(p)
  BY <1>1, <1>2, <1>5, ReceiveMaps, EndMaps, ConnectionMaps
<1>7. QED
  BY <1>6 DEF Serves, Service!Next

LEMMA InitMaps == Init => Service!Init
<1> SUFFICES ASSUME Init PROVE Service!Init
  OBVIOUS
<1>1. \A s \in SceneId : db.scene[s] # Absent => s \in minted
  BY DEF Init, Scenes
<1>2. /\ \A q \in Proc : Phase(q) = "free" /\ ShownScenes(q) = {}
      /\ \A q \in Proc : who[q].id = Absent /\ outcome[q] # "ok"
      /\ req = [q \in Proc |-> NoRequest] /\ connected = [q \in Proc |-> TRUE]
  BY DEF Init, InitSession, Phase, ShownScenes, Anonymous
<1>3. QED
  BY <1>1, <1>2 DEF Service!Init

\* Whatever the number of processes, users, requests and faults, clients cannot
\* tell the backend from a service that serves each request for scenes in one
\* step.
THEOREM ScenesCorrect == Spec => ScenesAreAtomic
<1>1. Init => Bodies
  BY DEF Init, InitSession, Bodies
<1>2. IInv /\ Bodies /\ [Next]_vars => Bodies'
  <2>1. CASE Next
    BY <2>1, BodiesStep DEF IInv
  <2>2. CASE UNCHANGED vars
    BY <2>2 DEF vars, session, Bodies
  <2>3. QED
    BY <2>1, <2>2
<1>3. IInv /\ Fresh /\ Bodies /\ [Next]_vars => [Service!Next]_(Service!vars)
  <2>1. CASE Next
    BY <2>1, StepMaps
  <2>2. CASE UNCHANGED vars
    <3>1. UNCHANGED <<pc, who, req, outcome, body, db, minted, connected>>
      BY <2>2 DEF vars, tables, session, link
    <3>2. UNCHANGED Service!vars
      BY <3>1 DEF Service!vars, Service!store, Service!calls, Phase, ShownScenes
    <3>3. QED
      BY <3>2
  <2>3. QED
    BY <2>1, <2>2
<1>4. QED
  BY <1>1, <1>2, <1>3, InitMaps, Freshness, PTL DEF Spec, ScenesAreAtomic, Service!Spec

-----------------------------------------------------------------------------
(* Clients that send back what they were shown.                            *)

\* A move names a circuit and has no malformed column but perhaps the parent.
WellFormed(r) ==
    r.id \in CircuitId /\ Malformed \notin {r.location_x, r.location_y, r.gate_type}

\* A process has no outcome before its answer, answers get_circuit with circuits,
\* and works on moves that are well formed.
Client(p) ==
    /\ pc[p] # "reply" => outcome[p] = "none"
    /\ pc[p] = "reply" /\ req[p].op = "get_circuit" => \A dto \in body[p] : dto.id \in CircuitId
    /\ pc[p] \in InFlight /\ Moves(req[p]) => WellFormed(req[p])

Clients == \A p \in Proc : Client(p)

SeenCircuits == \A dto \in seen : dto.id \in CircuitId

\* A step changes the rows of one answer.
LEMMA BodyLocal ==
    ASSUME Bodies, NEW m \in Proc,
           \/ \E i \in Identities \union {Anonymous}, r \in Requests : Receive(m, i, r)
           \/ Work(m) \/ LoseConnection(m) \/ Crash(m) \/ Restart(m)
    PROVE  \A q \in Proc \ {m} : body'[q] = body[q]
<1>1. SUFFICES ASSUME NEW some, body' = body \/ body' = [body EXCEPT ![m] = some]
               PROVE  \A q \in Proc \ {m} : body'[q] = body[q]
  <2>1. CASE get_scene(m) \/ get_circuit(m) \/ get_wire(m)
    <3>1. \E some : body' = [body EXCEPT ![m] = some]
      BY <2>1 DEF get_scene, get_circuit, get_wire, Reads
    <3>2. QED
      BY <3>1
  <2>2. CASE Handle(m) /\ ~(get_scene(m) \/ get_circuit(m) \/ get_wire(m))
    <3>1. body' = body
      BY <2>2 DEF Handle, Reject, put_circuit_column, put_circuit_done, post_scene,
                  delete_scene, put_scene, post_circuit, circuit_delete, post_wire, wire_delete,
                  Creates, Modifies
    <3>2. QED
      BY <3>1
  <2>3. CASE Reply(m) \/ Crash(m)
    <3>1. body' = [body EXCEPT ![m] = {}]
      BY <2>3 DEF Reply, Crash, EndSession
    <3>2. QED
      BY <3>1
  <2>4. CASE \/ \E i \in Identities \union {Anonymous}, r \in Requests : Receive(m, i, r)
             \/ Unauthorized(m) \/ AuthLookup(m) \/ AuthInsert(m)
             \/ LoseConnection(m) \/ Restart(m)
    <3>1. body' = body
      BY <2>4 DEF Receive, Unauthorized, AuthLookup, AuthInsert, LoseConnection, Restart, session
    <3>2. QED
      BY <3>1
  <2>5. QED
    BY <2>1, <2>2, <2>3, <2>4 DEF Work
<1>2. QED
  BY <1>1 DEF Bodies

LEMMA HandleClient ==
    ASSUME IInv, Bodies, NEW p \in Proc, Client(p), Handle(p)
    PROVE  Client(p)'
<1> USE DEF IInv
<1>1. pc[p] = "handle" /\ req' = req
  BY DEF Handle, Handles, Reject, put_circuit_column, put_circuit_done, post_scene, get_scene,
         delete_scene, put_scene, post_circuit, get_circuit, circuit_delete, post_wire, get_wire,
         wire_delete, Creates, Modifies, Reads
<1>2. CASE get_circuit(p)
  <2>1. PICK ok \in BOOLEAN :
          /\ Answer(p, Verdict(ok))
          /\ body' = [body EXCEPT ![p] = IF ok
               THEN {Row(c, CircuitDto(db.circuit[c])) : c \in get_circuits_in_scene(db, req[p].id)}
               ELSE {}]
    BY <1>2 DEF get_circuit, Reads
  <2>2. \A dto \in body'[p] : dto.id \in CircuitId
    BY <2>1 DEF Bodies, Row, get_circuits_in_scene, CircuitsOf, Circuits
  <2>3. pc'[p] = "reply"
    BY <2>1 DEF Answer, Go, TypeOK
  <2>4. QED
    BY <2>2, <2>3 DEF Client, InFlight
<1>3. CASE put_circuit_column(p)
  <2>1. \/ pc' = pc /\ outcome' = outcome
        \/ Answer(p, "failed")
    BY <1>3 DEF put_circuit_column
  <2>2. req[p].op # "get_circuit"
    BY <1>3 DEF put_circuit_column, Handles
  <2>3. QED
    BY <1>1, <2>1, <2>2 DEF Client, Answer, Go, TypeOK, InFlight
<1>4. CASE ~get_circuit(p) /\ ~put_circuit_column(p)
  <2>1. req[p].op # "get_circuit"
    BY <1>4 DEF Handle, Handles, Reject, put_circuit_done, post_scene, get_scene,
                delete_scene, put_scene, post_circuit, circuit_delete, post_wire, get_wire,
                wire_delete
  <2>2. \E o : Answer(p, o)
    BY <1>4 DEF Handle, Reject, put_circuit_done, post_scene, get_scene,
                delete_scene, put_scene, post_circuit, circuit_delete, post_wire, get_wire,
                wire_delete, Creates, Modifies, Reads
  <2>3. pc'[p] = "reply"
    BY <2>2 DEF Answer, Go, TypeOK
  <2>4. QED
    BY <1>1, <2>1, <2>3 DEF Client, InFlight
<1>5. QED
  BY <1>2, <1>3, <1>4

LEMMA RestClient ==
    ASSUME IInv, Bodies, NEW p \in Proc, Client(p),
           \/ Unauthorized(p) \/ AuthLookup(p) \/ AuthInsert(p) \/ Reply(p)
           \/ LoseConnection(p) \/ Crash(p) \/ Restart(p)
    PROVE  Client(p)'
<1> USE DEF IInv
<1>1. CASE Unauthorized(p)
  BY <1>1 DEF Unauthorized, Answer, Go, TypeOK, Client, Bodies, InFlight
<1>2. CASE AuthLookup(p)
  <2>1. /\ outcome' = outcome /\ req' = req /\ body' = body /\ pc[p] = "auth_lookup"
        /\ \E place \in {"handle", "auth_insert"} : Go(p, place)
    BY <1>2 DEF AuthLookup
  <2>2. pc'[p] \in {"handle", "auth_insert"}
    BY <2>1 DEF Go, TypeOK
  <2>3. QED
    BY <2>1, <2>2 DEF Client, InFlight
<1>3. CASE AuthInsert(p)
  <2>1. /\ req' = req /\ body' = body /\ pc[p] = "auth_insert"
        /\ (Go(p, "handle") /\ outcome' = outcome) \/ Answer(p, "refused")
    BY <1>3 DEF AuthInsert
  <2>2. (pc'[p] = "handle" /\ outcome' = outcome) \/ pc'[p] = "reply"
    BY <2>1 DEF Answer, Go, TypeOK
  <2>3. QED
    BY <2>1, <2>2 DEF Client, InFlight, Bodies
<1>4. CASE Reply(p)
  BY <1>4 DEF Reply, EndSession, Go, TypeOK, Client, InFlight
<1>5. CASE Crash(p)
  BY <1>5 DEF Crash, EndSession, Go, TypeOK, Client, InFlight
<1>6. CASE LoseConnection(p)
  BY <1>6 DEF LoseConnection, session, Client
<1>7. CASE Restart(p)
  BY <1>7 DEF Restart, Go, TypeOK, Client, InFlight
<1>8. QED
  BY <1>1, <1>2, <1>3, <1>4, <1>5, <1>6, <1>7

LEMMA ClientsStep ==
    ASSUME IInv, Traces, Bodies, Clients, SeenCircuits, EchoNext
    PROVE  Clients' /\ SeenCircuits'
<1> USE DEF IInv
<1>1. PICK m \in Proc :
        /\ Local(m)
        /\ \/ \E i \in Identities \union {Anonymous}, r \in Requests : Receive(m, i, r)
           \/ Work(m) \/ LoseConnection(m) \/ Crash(m) \/ Restart(m)
  BY OneSteps DEF EchoNext
<1>2. ASSUME \E i \in Identities \union {Anonymous}, r \in Requests : Receive(m, i, r)
      PROVE  Client(m)'
  <2>1. PICK i \in Identities \union {Anonymous}, r \in Requests : Receive(m, i, r)
    BY <1>2
  <2>2. /\ pc[m] = "idle" /\ pc'[m] = "auth_lookup"
        /\ req'[m] = r /\ outcome' = outcome
    BY <2>1 DEF Receive, Go, TypeOK
  <2>3. Echoes(r)
    BY <2>2 DEF EchoNext
  <2>4. Moves(r) => WellFormed(r)
    <3>1. Moves(r) => (\E dto \in seen : r.id = dto.id)
                      /\ Malformed \notin {r.location_x, r.location_y, r.gate_type}
      BY <2>3 DEF Echoes, Moves
    <3>2. QED
      BY <3>1 DEF WellFormed, SeenCircuits
  <2>5. QED
    BY <2>2, <2>4 DEF Client, Clients
<1>3. Client(m)'
  BY <1>1, <1>2, HandleClient, RestClient DEF Clients, Work
<1>4. \A q \in Proc \ {m} : Client(q)'
  <2>1. \A q \in Proc \ {m} : body'[q] = body[q]
    BY <1>1, BodyLocal
  <2>2. QED
    BY <1>1, <2>1 DEF Local, Clients, Client
<1>5. \A dto \in Shown : dto.id \in CircuitId
  BY DEF Shown, Clients, Client
<1>6. SeenCircuits'
  BY <1>5 DEF EchoNext, SeenCircuits
<1>7. QED
  BY <1>3, <1>4, <1>6 DEF Clients

\* Without faults, what an UPDATE of a well-formed move is refused for.
LEMMA MoveRefused ==
    ASSUME IInv, Linked, NEW p \in Proc, Client(p), Moves(req[p]),
           put_circuit_column(p), outcome'[p] = "failed", faults' = 0
    PROVE  \/ req[p].parent_circuit = Malformed
           \/ /\ req[p].id \in Circuits(db)
              /\ db.circuit[req[p].id].parent_circuit # req[p].parent_circuit
<1> USE DEF IInv
<1>1. PICK f \in ColumnSet, ok \in BOOLEAN :
        /\ IsNext(p, f)
        /\ Executes(p, Update(db, f, req[p][f], req[p].id), ok)
        /\ IF ok
           THEN todo' = [todo EXCEPT ![p] = todo[p] \ {f}] /\ UNCHANGED <<pc, outcome>>
           ELSE Answer(p, "failed") /\ UNCHANGED todo
  BY DEF put_circuit_column
<1>2. pc[p] = "handle" /\ req[p].op = "put_circuit"
  BY DEF put_circuit_column, Handles
<1>3. WellFormed(req[p]) /\ outcome[p] = "none"
  BY <1>2 DEF Client, InFlight
<1>4. ~ok
  BY <1>1, <1>3
<1>5. ~ Update(db, f, req[p][f], req[p].id).ok
  BY <1>1, <1>4, ExecutesLink
<1>6. f \in todo[p] /\ todo[p] \subseteq Requested(req[p]) /\ req[p] \in Requests
  BY <1>1, <1>2 DEF IsNext, RequestKnown, InFlight
<1>7. req[p].id # Malformed
  BY <1>3, MalformedAssumption DEF WellFormed
<1>8. f = "parent_circuit"
  <2>1. f \in {"location_x", "location_y", "parent_circuit", "gate_type"}
    BY ColumnNames
  <2>2. CASE f = "location_x"
    BY <1>3, <1>5, <1>7, <2>2 DEF Update, update_circuit_location_x, Result, WellFormed
  <2>3. CASE f = "location_y"
    BY <1>3, <1>5, <1>7, <2>3 DEF Update, update_circuit_location_y, Result, WellFormed
  <2>4. CASE f = "gate_type"
    BY <1>3, <1>5, <1>7, <2>4 DEF Update, update_circuit_gate_type, Result, WellFormed
  <2>5. QED
    BY <2>1, <2>2, <2>3, <2>4
<1>9. \/ req[p].parent_circuit = Malformed
      \/ req[p].id \in Circuits(db) /\ req[p].parent_circuit \notin Circuits(db)
  BY <1>5, <1>7, <1>8 DEF Update, update_circuit_parent_circuit, Result
<1>10. req[p].parent_circuit \in CircuitId \union {Malformed}
  BY <1>2, <1>6, <1>8, RequestFields DEF Requested
<1>11. req[p].id \in Circuits(db) =>
          db.circuit[req[p].id].parent_circuit \in Circuits(db) \union {Null}
  BY DEF IntegrityHolds, Integrity
<1>12. QED
  BY <1>9, <1>10, <1>11, NullAssumption

\* A client that moves a circuit as it was shown is refused only for a parent
\* that the response wrote as no reference, or that has been replaced meanwhile;
\* never because the parent was deleted.
THEOREM EchoCorrect == EchoSpec => EchoRefusedForCause
<1> DEFINE Cause(p) ==
        pc[p] = "handle" /\ Moves(req[p]) /\ outcome'[p] = "failed" /\ faults' = 0 =>
        \/ req[p].parent_circuit = Malformed
        \/ /\ req[p].id \in Circuits(db)
           /\ db.circuit[req[p].id].parent_circuit # req[p].parent_circuit
<1>1. ASSUME IInv, Traces, Linked, Clients, Next, NEW p \in Proc PROVE Cause(p)
  <2> SUFFICES ASSUME pc[p] = "handle", Moves(req[p]), outcome'[p] = "failed", faults' = 0
               PROVE  \/ req[p].parent_circuit = Malformed
                      \/ /\ req[p].id \in Circuits(db)
                         /\ db.circuit[req[p].id].parent_circuit # req[p].parent_circuit
    OBVIOUS
  <2>1. outcome[p] = "none" /\ TypeOK
    BY <1>1 DEF Clients, Client, IInv
  <2>2. PICK m \in Proc :
          /\ Local(m)
          /\ \/ \E i \in Identities \union {Anonymous}, r \in Requests : Receive(m, i, r)
             \/ Work(m) \/ LoseConnection(m) \/ Crash(m) \/ Restart(m)
    BY <1>1, OneSteps
  <2>3. m = p
    BY <2>1, <2>2 DEF Local
  <2>4. Handle(p)
    <3>1. ~ \E i \in Identities \union {Anonymous}, r \in Requests : Receive(p, i, r)
      BY DEF Receive
    <3>2. ~Unauthorized(p) /\ ~AuthLookup(p) /\ ~AuthInsert(p) /\ ~Reply(p) /\ ~Restart(p)
      BY DEF Unauthorized, AuthLookup, AuthInsert, Reply, Restart
    <3>3. ~LoseConnection(p) /\ ~Crash(p)
      BY <2>1 DEF LoseConnection, Crash, EndSession, session, TypeOK
    <3>4. QED
      BY <2>2, <2>3, <3>1, <3>2, <3>3 DEF Work
  <2>5. req[p].op = "put_circuit"
    BY DEF Moves
  <2>6. put_circuit_column(p) \/ put_circuit_done(p)
    BY <2>4, <2>5 DEF Handle, Handles, Reject, post_scene, get_scene, delete_scene, put_scene,
                      post_circuit, get_circuit, circuit_delete, post_wire, get_wire, wire_delete
  <2>7. ~put_circuit_done(p)
    BY <2>1 DEF put_circuit_done, Answer, TypeOK
  <2>8. QED
    BY <1>1, <2>6, <2>7, MoveRefused DEF Clients
<1>2. EchoSpec => Spec
  <2>1. InitEcho => Init
    BY DEF InitEcho
  <2>2. [EchoNext]_<<vars, seen>> => [Next]_vars
    BY DEF EchoNext
  <2>3. QED
    BY <2>1, <2>2, PTL DEF EchoSpec, Spec
<1>3. InitEcho => Bodies /\ Clients /\ SeenCircuits
  BY DEF InitEcho, Init, InitSession, Bodies, Clients, Client, SeenCircuits, InFlight
<1>4. IInv /\ Traces /\ Bodies /\ Clients /\ SeenCircuits /\ [EchoNext]_<<vars, seen>>
        => Bodies' /\ Clients' /\ SeenCircuits'
  <2>1. CASE EchoNext
    BY <2>1, BodiesStep, ClientsStep DEF EchoNext, IInv
  <2>2. CASE UNCHANGED <<vars, seen>>
    BY <2>2 DEF vars, session, Bodies, Clients, Client, SeenCircuits
  <2>3. QED
    BY <2>1, <2>2
<1>5. IInv /\ Traces /\ Linked /\ Clients /\ [EchoNext]_<<vars, seen>>
        => [\A p \in Proc : Cause(p)]_<<vars, seen>>
  BY <1>1 DEF EchoNext
<1>6. EchoSpec => [][\A p \in Proc : Cause(p)]_<<vars, seen>>
  BY <1>2, <1>3, <1>4, <1>5, TraceInvariant, PTL DEF EchoSpec
<1>7. QED
  BY <1>6 DEF EchoRefusedForCause
=============================================================================
