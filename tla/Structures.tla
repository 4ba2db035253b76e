----------------------------- MODULE Structures -----------------------------
(***************************************************************************)
(* The containers that callers use one call at a time: the red-black tree, *)
(* the skip list, the memory table on it and the object pool.  They share  *)
(* no state, and one is at work at a time, so that their states add up.    *)
(***************************************************************************)
EXTENDS RBTree, MemTable, ObjectMemPool

VARIABLE part       \* the one that is at work

StructuresFit == TreeFit /\ TableFit /\ ClassesFit

structuresVars == <<part, treeVars, tableVars, objectVars>>

Structures == {"tree", "list", "table", "objects"}

StructuresInit ==
    /\ TreeInit
    /\ TableInit
    /\ ObjectsInit

TreeStep == part = "tree" /\ TreeNext /\ UNCHANGED <<part, tableVars, objectVars>>

(* A skip list of its own: nothing counts its memory.                      *)
ListStep == part = "list" /\ ListNext /\ UNCHANGED <<part, szMem, treeVars, objectVars>>

TableStep == part = "table" /\ TableNext /\ UNCHANGED <<part, treeVars, objectVars>>

ObjectStep == part = "objects" /\ ObjectsNext /\ UNCHANGED <<part, treeVars, tableVars>>

StructuresNext == TreeStep \/ ListStep \/ TableStep \/ ObjectStep

StructuresSpec ==
    part \in Structures /\ StructuresInit /\ [][StructuresNext]_structuresVars

-----------------------------------------------------------------------------
(* After every operation the tree is red-black and can be walked both ways,*)
(* and a search in it fails only when the key is not there; the levels of  *)
(* the skip list are nested sorted lists; the running total of a memory    *)
(* table never falls below its contents; and in an object pool neither     *)
(* objects nor the links of deleted ones are written over.                 *)
StructuresSound ==
    /\ TreeSound
    /\ LevelsNested
    /\ part = "table" => MemCoversContents
    /\ ObjectsApart
=============================================================================
