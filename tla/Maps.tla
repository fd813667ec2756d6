-------------------------------- MODULE Maps --------------------------------
(***************************************************************************)
(* The std::map and std::optional of the C++ sources, as functions with a  *)
(* finite domain that grows and shrinks.                                   *)
(***************************************************************************)

\* A map with no entry.
EmptyMap == [k \in {} |-> k]

\* map is a map from some of the keys to values.
IsMap(map, Keys, Values) ==
    DOMAIN map \subseteq Keys /\ map \in [DOMAIN map -> Values]

\* map[key] = value: inserts or overwrites.
Put(map, key, value) ==
    [k \in DOMAIN map \cup {key} |-> IF k = key THEN value ELSE map[k]]

\* map.try_emplace(key, value): leaves an entry that is there alone.
PutNew(map, key, value) ==
    IF key \in DOMAIN map THEN map ELSE Put(map, key, value)

\* map.erase(key).
Drop(map, key) == [k \in DOMAIN map \ {key} |-> map[k]]

=============================================================================
