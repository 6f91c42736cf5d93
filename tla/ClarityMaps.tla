----------------------------- MODULE ClarityMaps -----------------------------
(***************************************************************************)
(* A define-map of a contract is a function on the keys present.           *)
(***************************************************************************)

(* map-set *)
MapSet(map, key, value) ==
  [k \in DOMAIN map \cup {key} |-> IF k = key THEN value ELSE map[k]]

(* map-delete *)
Kept_MapDelete(map, key) == map
MapDelete(map, key) == [k \in DOMAIN map \ {key} |-> map[k]]
=============================================================================
