----------------------------- MODULE SceneService -----------------------------
(***************************************************************************)
(* What the backend promises about scenes: each request takes effect once  *)
(* and at once, between its arrival and its answer, for the user who sent  *)
(* it.  A request that is granted has had all of its effect and shows what *)
(* was true at that moment; one that is not has had none, unless the link  *)
(* to the database broke as it took effect.                                *)
(*                                                                         *)
(* There are no processes, filters or statements here: SceneRefinement     *)
(* shows that Backend with all of these implements this specification.     *)
(***************************************************************************)

CONSTANTS
    Client,      \* whoever can have one request in the service
    User,        \* the ids of users, and of clients that name none
    SceneId,     \* the ids of scenes
    Request,     \* what clients ask for, of scenes or of other things
    Nothing,     \* the request of a client that has none
    Nobody,      \* the user of a client that has no request
    Absent       \* stands for a scene that does not exist

VARIABLES
    scene,    \* each scene's author and text
    used,     \* the ids that something has or had
    phase,    \* "free", "asked" or "answered"
    by,       \* the user each client asks for
    asked,    \* its request
    granted,  \* whether it was answered, and with success
    rows,     \* the scenes its answer shows
    linked    \* its request can reach the database

store == <<scene, used>>
calls == <<phase, by, asked, granted, rows>>
vars == <<store, calls, linked>>

Init ==
    /\ \A s \in SceneId : scene[s] # Absent => s \in used
    /\ phase = [c \in Client |-> "free"]
    /\ by = [c \in Client |-> Nobody]
    /\ asked = [c \in Client |-> Nothing]
    /\ granted = [c \in Client |-> FALSE]
    /\ rows = [c \in Client |-> {}]
    /\ linked = [c \in Client |-> TRUE]

Owned(u) == {s \in SceneId : scene[s] # Absent /\ scene[s].author = u}

\* The scene that the request of c names, if it is the user's own.
Meant(c) == {s \in Owned(by[c]) : s = asked[c].id}

Create(c) ==
    /\ asked[c].op = "post_scene"
    /\ \E id \in SceneId \ used :
        /\ scene' = [scene EXCEPT ![id] = [author |-> by[c], text |-> asked[c].text]]
        /\ used' = used \union {id}

Rewrite(c) ==
    /\ asked[c].op = "put_scene"
    /\ scene' = [s \in SceneId |-> IF s \in Meant(c)
                                   THEN [scene[s] EXCEPT !.text = asked[c].text] ELSE scene[s]]
    /\ used' = used

Erase(c) ==
    /\ asked[c].op = "delete_scene"
    /\ scene' = [s \in SceneId |-> IF s \in Meant(c) THEN Absent ELSE scene[s]]
    /\ used' = used

\* What is stored for other requests leaves the scenes alone and may use up an id.
Elsewhere(c) ==
    /\ asked[c].op \notin {"post_scene", "put_scene", "delete_scene"}
    /\ scene' = scene
    /\ used \subseteq used'

Effect(c) == Create(c) \/ Rewrite(c) \/ Erase(c) \/ Elsewhere(c)

\* The answer to "get_scene".
Listing(c) ==
    IF asked[c].op = "get_scene"
    THEN {[id |-> s, row |-> scene[s]] : s \in Owned(by[c])} ELSE {}

Break(c) == linked' = [linked EXCEPT ![c] = FALSE]

Answer(c, ok, shown) ==
    /\ phase[c] = "asked"
    /\ phase' = [phase EXCEPT ![c] = "answered"]
    /\ granted' = [granted EXCEPT ![c] = ok]
    /\ rows' = [rows EXCEPT ![c] = shown]
    /\ UNCHANGED <<by, asked>>

Ask(c, u, r) ==
    /\ phase[c] = "free"
    /\ phase' = [phase EXCEPT ![c] = "asked"]
    /\ by' = [by EXCEPT ![c] = u]
    /\ asked' = [asked EXCEPT ![c] = r]
    /\ UNCHANGED <<store, granted, rows, linked>>

Grant(c) == Effect(c) /\ Answer(c, TRUE, Listing(c)) /\ UNCHANGED linked

Refuse(c) ==
    /\ Answer(c, FALSE, {})
    /\ UNCHANGED linked \/ Break(c)
    /\ UNCHANGED store

\* The effect is there and nobody heard of it.
Unheard(c) == Effect(c) /\ Answer(c, FALSE, {}) /\ linked[c] /\ Break(c)

\* The answer is taken away, or the request is given up.
Leave(c) ==
    /\ phase' = [phase EXCEPT ![c] = "free"]
    /\ by' = [by EXCEPT ![c] = Nobody]
    /\ asked' = [asked EXCEPT ![c] = Nothing]
    /\ granted' = [granted EXCEPT ![c] = FALSE]
    /\ rows' = [rows EXCEPT ![c] = {}]
    /\ (phase[c] = "answered" /\ UNCHANGED linked) \/ Break(c)
    /\ UNCHANGED store

\* A link breaks, or a client without a request gets a new one.
Link(c) ==
    /\ Break(c) \/ (phase[c] = "free" /\ linked' = [linked EXCEPT ![c] = TRUE])
    /\ UNCHANGED <<store, calls>>

Next ==
    \E c \in Client :
        \/ \E u \in User, r \in Request : Ask(c, u, r)
        \/ Grant(c) \/ Refuse(c) \/ Unheard(c) \/ Leave(c) \/ Link(c)

Spec == Init /\ [][Next]_vars
=============================================================================
