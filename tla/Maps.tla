--------------------------------- MODULE Maps ---------------------------------
(****************************************************************************)
(* Maps from keys to values, as functions whose domain is the set of keys   *)
(* present: the operations the code's maps have in common.                  *)
(****************************************************************************)

Entry(key, value) == [k \in {key} |-> value]

With(map, key, value) ==
    [k \in DOMAIN map \cup {key} |-> IF k = key THEN value ELSE map[k]]

\* The entries of new written over those of map.
Over(new, map) ==
    [k \in DOMAIN new \cup DOMAIN map |-> IF k \in DOMAIN new THEN new[k] ELSE map[k]]

Without(map, keys) == [k \in DOMAIN map \ keys |-> map[k]]
=============================================================================
