-------------------------- MODULE MCSceneRefinement --------------------------
(* The small instances of Backend, for the refinement. *)
EXTENDS SceneRefinement, MCBackend

\* Scenes, every way to name one in a PUT, and a circuit that is lost with its scene.
ServiceRequests ==
    (SceneRequests \ [op : {"delete_scene"}, id : {Malformed}])
    \union NewCircuit({s1}, {Null})
=============================================================================
