--------------------------- MODULE SceneRefinement ---------------------------
(***************************************************************************)
(* Backend implements SceneService: a process is the client whose request  *)
(* it serves, the request is in the service while it passes the filter and *)
(* its handler, and it takes effect in the handler's one statement.        *)
(***************************************************************************)
EXTENDS Backend

Phase(p) ==
    CASE pc[p] \in {"down", "idle"} -> "free"
      [] pc[p] = "reply" -> "answered"
      [] OTHER -> "asked"

\* The response shows the rows only of a request for scenes.
ShownScenes(p) == IF pc[p] = "reply" /\ req[p].op = "get_scene" THEN body[p] ELSE {}

Service == INSTANCE SceneService WITH
    Client <- Proc, User <- UserId \union {Absent}, Request <- Requests,
    Nothing <- NoRequest, Nobody <- Absent,
    scene <- db.scene,
    used <- minted,
    phase <- [p \in Proc |-> Phase(p)],
    by <- [p \in Proc |-> who[p].id],
    asked <- req,
    granted <- [p \in Proc |-> outcome[p] = "ok"],
    rows <- [p \in Proc |-> ShownScenes(p)],
    linked <- connected

\* To clients, the service of scenes is atomic: look-up, insertion and statement
\* of a request, interleaved with those of others, amount to one step in which it
\* has its whole effect for its own user, and its answer tells whether it had.
ScenesAreAtomic == Service!Spec
=============================================================================
