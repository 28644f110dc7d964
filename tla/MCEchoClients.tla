---------------------------- MODULE MCEchoClients ----------------------------
(* Two clients that move, copy, re-parent and delete circuits, whose        *)
(* requests name any parent that a response may show.                       *)
EXTENDS EchoClients, MCBackend

\* Moves and new parents name the other circuit, never the circuit itself.
EchoRequests ==
    NewCircuit({s1}, CircuitId \union {Null, Malformed})
    \union UNION {PutRequest({c}, {1}, {Omitted}, CircuitRef \ {c}, {Omitted})
                    \union PutRequest({c}, {Omitted}, {Omitted}, CircuitId \ {c}, {Omitted, g2})
                    : c \in CircuitId}
    \union [op : {"circuit_delete"}, id : CircuitId]
    \union [op : {"get_circuit"}, id : {s1}]

ProcCircuitSymmetry == Permutations(Proc) \union Permutations(CircuitId)
=============================================================================
