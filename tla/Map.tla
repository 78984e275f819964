-------------------------------- MODULE Map --------------------------------
(***************************************************************************)
(* What the hash table promises its users (request parameters, headers): a *)
(* map from keys to values.  An insertion may fail for lack of memory and  *)
(* then changes nothing.                                                   *)
(***************************************************************************)
CONSTANTS Key, Val

VARIABLE map                    \* a function on the keys that are set

Empty == [j \in {} |-> j]

Init == map = Empty

Put(k, v) == map' = [j \in DOMAIN map \cup {k} |-> IF j = k THEN v ELSE map[j]]

Delete(k) == map' = [j \in DOMAIN map \ {k} |-> map[j]]

Clear == map' = Empty

Next == \/ Clear
        \/ \E k \in Key : Delete(k) \/ \E v \in Val : Put(k, v)

Spec == Init /\ [][Next]_map
=============================================================================
