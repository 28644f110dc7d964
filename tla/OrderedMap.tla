------------------------------ MODULE OrderedMap ------------------------------
(***************************************************************************)
(* ordered_map (src/include/ordered_map.hpp), a map that remembers the     *)
(* order in which its keys were added: the vector of keys and the map of   *)
(* values, as one sequence of pairs with distinct keys.                    *)
(***************************************************************************)
EXTENDS Folding

Keys(map) == {map[i].key : i \in DOMAIN map}

\* Faulty variant: a value replaces an earlier one and moves its key to the end.
emplace_again(map, key, value) ==
  Append(SelectSeq(map, LAMBDA pair : pair.key # key), [key |-> key, value |-> value])

emplace(map, key, value) ==
  IF key \in Keys(map) THEN map ELSE Append(map, [key |-> key, value |-> value])

filter(map, values) ==
  Flat([i \in DOMAIN map |-> IF map[i].value \in values THEN <<map[i]>> ELSE <<>>])

\* for_each appending to a sequence: what cb gives for each pair in turn, where
\* cb also gets to know whether the pair is the last.
for_each(map, cb(_, _)) == Flat([i \in DOMAIN map |-> cb(map[i], i = Len(map))])
===============================================================================
