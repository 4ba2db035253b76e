------------------------------- MODULE KeyBag -------------------------------
(***************************************************************************)
(* What a search tree promises: it holds a bag of keys.  Adding a key      *)
(* counts it once more, removing one takes one copy, and removing a key    *)
(* that is not there does nothing.                                         *)
(***************************************************************************)
EXTENDS Naturals

CONSTANT Keys

VARIABLE copies     \* how many times each key is held

Init == copies = [k \in Keys |-> 0]

Insert(key) == copies' = [copies EXCEPT ![key] = @ + 1]

Remove(key) ==
    /\ copies[key] > 0
    /\ copies' = [copies EXCEPT ![key] = @ - 1]

Next == \E key \in Keys : Insert(key) \/ Remove(key)

Spec == Init /\ [][Next]_copies
=============================================================================
