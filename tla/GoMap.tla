-------------------------------- MODULE GoMap --------------------------------
(***************************************************************************)
(* Go maps as functions whose domain is the set of keys present.           *)
(***************************************************************************)

EmptyMap == [x \in {} |-> x]

(* m[k] = v                                                                *)
Put(m, k, v) == [x \in DOMAIN m \cup {k} |-> IF x = k THEN v ELSE m[x]]

(* The entries whose key is in S; delete(m, k) is Keep(m, DOMAIN m \ {k}). *)
Keep(m, S) == [x \in DOMAIN m \cap S |-> m[x]]

Delete(m, k) == Keep(m, DOMAIN m \ {k})
=============================================================================
