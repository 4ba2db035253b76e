------------------------------ MODULE SkipList ------------------------------
(***************************************************************************)
(* SkipListKv of Common/SkipListKv.h: one linked list per level, a node of *)
(* height h in the lowest h of them, and m_iCurLevel levels in use.        *)
(* Common/SkipList.h is the same list without the values.                  *)
(*                                                                         *)
(* Keys are positive integers; a node is named by its key, the header is 0 *)
(* and End is the null pointer, larger than every key (KeysFit).           *)
(***************************************************************************)
EXTENDS Naturals, FiniteSets

CONSTANTS Keys, Values, MaxLevel, End

(* What the names of the nodes must see to.                                *)
KeysFit == End \in Nat \ {0} /\ Keys \subseteq 1 .. End - 1 /\ MaxLevel \in Nat \ {0}

VARIABLES
    forward,    \* of the header and of each linked node, per level
    value,      \* of each linked node
    curLevel    \* m_iCurLevel

listVars == <<forward, value, curLevel>>

Header == 0
Levels == 1 .. MaxLevel

ListInit ==
    /\ forward = [n \in {Header} |-> [i \in Levels |-> End]]
    /\ value = [k \in {} |-> 0]
    /\ curLevel = 1

OnLevel(i) == {n \in DOMAIN forward : i \in DOMAIN forward[n]}

(* The walk along level i: the last node before key, starting from a node. *)
Along(node, i, key) ==
    LET walk[n \in OnLevel(i)] ==
            IF forward[n][i] < key THEN walk[forward[n][i]] ELSE n
    IN  walk[node]

(* update[i]: the walk comes down level by level from curLevel; levels not *)
(* in use have only the header.                                            *)
UpdateHeader(i, key) == Header   \* mutant: no walk
Update(i, key) ==
    LET update[j \in Levels] ==
            IF j > curLevel THEN Header
            ELSE Along(IF j = MaxLevel THEN Header ELSE update[j + 1], j, key)
    IN  update[i]

(* find: the node after the walk on the lowest level.                      *)
Found(key) == forward[Update(1, key)][1] = key

(* The height of the new node is random_level(), anything up to MaxLevel.  *)
Insert(key, v) ==
    \/ /\ Found(key)
       /\ value' = [value EXCEPT ![key] = v]
       /\ UNCHANGED <<forward, curLevel>>
    \/ /\ ~Found(key)
       /\ \E height \in Levels :
             /\ curLevel' = IF height > curLevel THEN height ELSE curLevel
             /\ forward' =
                  [n \in DOMAIN forward \cup {key} |->
                     IF n = key
                     THEN [i \in 1 .. height |-> forward[Update(i, key)][i]]
                     ELSE [i \in DOMAIN forward[n] |->
                             IF i <= height /\ n = Update(i, key)
                             THEN key ELSE forward[n][i]]]
       /\ value' = [k \in DOMAIN value \cup {key} |->
                       IF k = key THEN v ELSE value[k]]

(* Unlinking stops at the first level that does not have the node; empty   *)
(* levels at the top go out of use.                                        *)
Unlinked(key, i) == \A j \in 1 .. i : forward[Update(j, key)][j] = key

Erase(key) ==
    /\ Found(key)
    /\ LET linked == [n \in DOMAIN forward \ {key} |->
                        [i \in DOMAIN forward[n] |->
                           IF i <= curLevel /\ n = Update(i, key) /\ Unlinked(key, i)
                           THEN forward[key][i] ELSE forward[n][i]]]
       IN  /\ forward' = linked
           /\ \E top \in 1 .. curLevel :
                 /\ top = 1 \/ linked[Header][top] # End
                 /\ \A i \in top + 1 .. curLevel : linked[Header][i] = End
                 /\ curLevel' = top
    /\ value' = [k \in DOMAIN value \ {key} |-> value[k]]

ListNext == \E key \in Keys : Erase(key) \/ \E v \in Values : Insert(key, v)

ListSpec == ListInit /\ [][ListNext]_listVars

-----------------------------------------------------------------------------
(* Every level in use is a sorted sub-list of the one below, on top none   *)
(* is empty, and no pointer leads to a node that is gone: what the walk    *)
(* down relies on when it leaves a level in the middle.                    *)
LevelsNested ==
    LET Linked(i) == {k \in DOMAIN value : \E n \in OnLevel(i) : forward[n][i] = k}
    IN  /\ Linked(1) = DOMAIN value
        /\ DOMAIN forward = DOMAIN value \cup {Header}
        /\ \A i \in Levels :
              /\ Linked(i) = {k \in DOMAIN value : i \in DOMAIN forward[k]}
              /\ Linked(i) # {} => i <= curLevel
              /\ 1 < i /\ i = curLevel => Linked(i) # {}
        /\ \A n \in DOMAIN forward : \A i \in DOMAIN forward[n] :
              forward[n][i] = End \/ (forward[n][i] > n /\ forward[n][i] \in DOMAIN value)

(* The dictionary the walk sees, from the top level down, is the one that  *)
(* inserting and erasing should have produced.                             *)
Dictionary == INSTANCE KeyValue WITH
    dict <- [k \in {k \in Keys : Found(k)} |-> value[k]]

ImplementsDictionary == Dictionary!Spec
=============================================================================
