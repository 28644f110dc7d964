---------------------------- MODULE MCDeployment ----------------------------
(* Two images over users only: script 1 stands for the ones that make the   *)
(* tables, script 2 inserts the testing user.                               *)
EXTENDS Deployment, MCBackend

MCImages == {1..1, 1..2}
MCTestUser == 2
Tester == [id |-> u0, nickname |-> n0]
\* A database without any row.
NoSeeds == {[user |-> [u \in UserId |-> Absent], scene |-> [s \in SceneId |-> Absent],
             circuit |-> [c \in CircuitId |-> Absent], wire |-> [w \in WireId |-> Absent]]}
\* Someone with the name of the testing user, and someone without.
Namesakes == {Alice, [id |-> u2, nickname |-> n0]}
UserRequests == {[op |-> "get_scene"], [op |-> "post_scene", text |-> t1]}
=============================================================================
