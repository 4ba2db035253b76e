------------------------------ MODULE KeyValue ------------------------------
(***************************************************************************)
(* What the skip list promises: a dictionary.  Inserting overwrites, and   *)
(* erasing a key that is not there does nothing.                           *)
(***************************************************************************)
CONSTANTS Keys, Values

VARIABLE dict

Init == dict = [k \in {} |-> k]

Insert(key, v) ==
    dict' = [k \in DOMAIN dict \cup {key} |-> IF k = key THEN v ELSE dict[k]]

Erase(key) == dict' = [k \in DOMAIN dict \ {key} |-> dict[k]]

Next == \E key \in Keys : Erase(key) \/ \E v \in Values : Insert(key, v)

Spec == Init /\ [][Next]_dict
=============================================================================
