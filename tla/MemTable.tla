------------------------------ MODULE MemTable ------------------------------
(***************************************************************************)
(* MemTable of Common/MemTable.cpp: a skip list of values under one mutex, *)
(* with a running total of the memory they take.  Every call holds the     *)
(* mutex throughout, so a call is one step.  A value is its length; the    *)
(* empty value stands for a deleted key.                                   *)
(***************************************************************************)
EXTENDS SkipList, Sums

CONSTANTS KeySize,  \* length of a key
          MaxMem    \* bound: the largest total tried

(* Values are lengths, that of a deleted key's among them.                 *)
TableFit == KeysFit /\ KeySize \in Nat /\ Values \subseteq Nat /\ 0 \in Values

VARIABLE szMem      \* m_szMem, an integer: below zero it would be huge

tableVars == <<listVars, szMem>>

TableInit == ListInit /\ szMem = 0

Put(key, v) ==
    /\ szMem' = szMem - (IF Found(key) THEN value[key] ELSE 0) + KeySize + v
    /\ szMem' <= MaxMem
    /\ Insert(key, v)

Delete(key) == Put(key, 0)

TableNext == \E key \in Keys : Delete(key) \/ \E v \in Values : Put(key, v)

TableSpec == TableInit /\ [][TableNext]_tableVars

-----------------------------------------------------------------------------
Occupied == Sum([k \in DOMAIN value |-> KeySize + value[k]])

(* The total is never less than what the table holds: the subtraction of   *)
(* the old value cannot wrap the unsigned total around.  It drifts upwards *)
(* instead, by one key length for every overwrite or delete of a key.      *)
MemCoversContents == szMem >= Occupied
=============================================================================
