----------------------------- MODULE PartialMaps -----------------------------
(***************************************************************************)
(* The three things grill does with a std::map: an empty map, m[k]=v (which *)
(* adds the key or overwrites its value) and m.erase(k).                    *)
(***************************************************************************)
EXTENDS Functions

EmptyMap == [k \in {} |-> k]

Put(m, k, v) == [x \in DOMAIN m \cup {k} |-> IF x = k THEN v ELSE m[x]]

Drop(m, k) == Restrict(m, DOMAIN m \ {k})
==============================================================================
