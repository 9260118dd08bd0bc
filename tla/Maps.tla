-------------------------------- MODULE Maps --------------------------------
(***************************************************************************)
(* Maps of records: insert or replace, delete, and set a flag on the       *)
(* records of a set of keys.  A Go map, a table and a collection are each  *)
(* a function whose domain is the set of keys present.                     *)
(***************************************************************************)
Put(m, k, v) == [x \in DOMAIN m \cup {k} |-> IF x = k THEN v ELSE m[x]]
Drop(m, K)   == [x \in DOMAIN m \ K |-> m[x]]
Revoke(m, K) ==
    [x \in DOMAIN m |-> IF x \in K THEN [m[x] EXCEPT !.revoked = TRUE] ELSE m[x]]
End(m, K, t) ==
    [x \in DOMAIN m |-> IF x \in K THEN [m[x] EXCEPT !.ended = t] ELSE m[x]]

IsMap(m, K, V) == DOMAIN m \subseteq K /\ m \in [DOMAIN m -> V]
=============================================================================
