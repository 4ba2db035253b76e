------------------------------- MODULE RBTree -------------------------------
(***************************************************************************)
(* RedBlackTree of Common/RBTree.h: nodes that point to both children and  *)
(* to their parent, and one sentinel Nil for every missing node.  The      *)
(* sentinel is a real node: removals leave a parent in it, and the fix-ups *)
(* read its colour and that parent.                                        *)
(*                                                                         *)
(* A step is one turn of a loop; treeCall says which, and holds the locals *)
(* of the call.  A case of a fix-up that the code lets run into the next   *)
(* one is a turn too: the test at the head of the loop holds again, and    *)
(* leads to the next case.  The code writes every case twice, mirrored;    *)
(* here the side is a parameter.                                           *)
(***************************************************************************)
EXTENDS Integers, FiniteSets

CONSTANTS TreeKeys,    \* the values inserted, integers
          MaxCopies,   \* bound: how often a key stands in the tree
          MaxNodes     \* bound: nodes in the tree at one time

TreeFit == TreeKeys \subseteq Int /\ {MaxCopies, MaxNodes} \subseteq Nat

(* The address of a node is named by its key and the copy of it.           *)
Nil == <<0, 0>>
Nodes == TreeKeys \X (1 .. MaxCopies)
KeyOf(x) == x[1]

Sides == {"left", "right"}
Other(side) == IF side = "left" THEN "right" ELSE "left"

VARIABLES
    root,
    child, parent, red,     \* left and right, parent, color of each node
    made,                   \* the nodes that insert made and no remove took
    treeCall                \* the loop that is running

treeVars == <<root, child, parent, red, made, treeCall>>

NoCall == [pc |-> "idle"]
Cells == Nodes \cup {Nil}

TreeInit ==
    /\ root = Nil /\ made = {}
    /\ child = [x \in Cells |-> [side \in Sides |-> Nil]]
    /\ parent = [x \in Cells |-> Nil]
    /\ red = [x \in Cells |-> FALSE]
    /\ treeCall = NoCall

(* Which child of its parent x is.                                         *)
SideOf(x) == IF x = child[parent[x]]["left"] THEN "left" ELSE "right"

(* Where data belongs below x.                                             *)
Down(data, x) == IF data < KeyOf(x) THEN "left" ELSE "right"

(* leftRotate is Rotate with "left", rightRotate with "right".             *)
Rotate(x, side) ==
    LET far == Other(side)
        y == child[x][far]
        moved == child[y][side]
        up == parent[x]
    IN  /\ child' = [child EXCEPT ![x][far] = moved,
                                  ![up][SideOf(x)] = IF up = Nil THEN @ ELSE y,
                                  ![y][side] = x]
        /\ parent' = [parent EXCEPT ![moved] = IF moved = Nil THEN @ ELSE x,
                                    ![y] = up, ![x] = y]
        /\ root' = IF up = Nil THEN y ELSE root

-----------------------------------------------------------------------------
(* insert *)

insert(key) ==
    /\ treeCall = NoCall
    /\ Cardinality(made) < MaxNodes
    /\ \E copy \in 1 .. MaxCopies : <<key, copy>> \notin made
    /\ treeCall' = [pc |-> "descend", key |-> key, x |-> root, y |-> Nil]
    /\ UNCHANGED <<root, child, parent, red, made>>

Descend ==
    /\ treeCall.pc = "descend" /\ treeCall.x # Nil
    /\ LET x == treeCall.x IN
       treeCall' = [pc |-> "descend", key |-> treeCall.key,
                    x |-> child[x][Down(treeCall.key, x)], y |-> x]
    /\ UNCHANGED <<root, child, parent, red, made>>

(* The new node is linked under y, red.                                    *)
Attach ==
    /\ treeCall.pc = "descend" /\ treeCall.x = Nil
    /\ \E copy \in 1 .. MaxCopies :
          LET z == <<treeCall.key, copy>>
              y == treeCall.y
          IN  /\ z \notin made
              /\ \A lower \in 1 .. copy - 1 : <<treeCall.key, lower>> \in made
              /\ made' = made \cup {z}
              /\ root' = IF y = Nil THEN z ELSE root
              /\ child' = [child EXCEPT
                              ![y][Down(treeCall.key, y)] = IF y = Nil THEN @ ELSE z,
                              ![z]["left"] = Nil, ![z]["right"] = Nil]
              /\ parent' = [parent EXCEPT ![z] = y]
              /\ red' = [red EXCEPT ![z] = TRUE]
              /\ treeCall' = [pc |-> "insertFixup", z |-> z]

(* The cases of insertFixup look at the parent, its side, the grandparent  *)
(* and the uncle.                                                          *)
Repairing(z) == treeCall = [pc |-> "insertFixup", z |-> z] /\ red[parent[z]]

Side(z) == SideOf(parent[z])
Grandparent(z) == parent[parent[z]]
Uncle(z) == child[Grandparent(z)][Other(Side(z))]
Inner(z) == z = child[parent[z]][Other(Side(z))]

RecolourParent(z) == [red EXCEPT ![parent[z]] = FALSE]   \* mutant: half of it
Recolour(z) == [red EXCEPT ![parent[z]] = FALSE, ![Grandparent(z)] = TRUE]

InsertCase1 ==
    \E z \in made :
        /\ Repairing(z) /\ red[Uncle(z)]
        /\ red' = [Recolour(z) EXCEPT ![Uncle(z)] = FALSE]
        /\ treeCall' = [pc |-> "insertFixup", z |-> Grandparent(z)]
        /\ UNCHANGED <<root, child, parent, made>>

InsertCase2 ==
    \E z \in made :
        /\ Repairing(z) /\ ~ red[Uncle(z)] /\ Inner(z)
        /\ Rotate(parent[z], Side(z))
        /\ treeCall' = [pc |-> "insertFixup", z |-> parent[z]]
        /\ UNCHANGED <<red, made>>

InsertCase3 ==
    \E z \in made :
        /\ Repairing(z) /\ ~ red[Uncle(z)] /\ ~ Inner(z)
        /\ red' = Recolour(z)
        /\ Rotate(Grandparent(z), Other(Side(z)))
        /\ UNCHANGED <<made, treeCall>>

InsertEnds ==
    /\ treeCall.pc = "insertFixup" /\ ~ red[parent[treeCall.z]]
    /\ red' = [red EXCEPT ![root] = FALSE]
    /\ treeCall' = NoCall
    /\ UNCHANGED <<root, child, parent, made>>

-----------------------------------------------------------------------------
(* search, and the walk of remove, which is the same; at a node with the   *)
(* key the one returns and the other goes on.                              *)

search(key) ==
    /\ treeCall = NoCall
    /\ treeCall' = [pc |-> "find", key |-> key, x |-> root]
    /\ UNCHANGED <<root, child, parent, red, made>>

Reached(z) == treeCall.pc = "find" /\ z = treeCall.x /\ z # Nil /\ KeyOf(z) = treeCall.key

Find ==
    /\ treeCall.pc = "find" /\ treeCall.x # Nil /\ ~ Reached(treeCall.x)
    /\ treeCall' = [treeCall EXCEPT !.x = child[@][Down(treeCall.key, @)]]
    /\ UNCHANGED <<root, child, parent, red, made>>

SearchEnds ==
    /\ treeCall.pc = "find" /\ (treeCall.x = Nil \/ Reached(treeCall.x))
    /\ treeCall' = NoCall
    /\ UNCHANGED <<root, child, parent, red, made>>

-----------------------------------------------------------------------------
(* remove *)

(* What follows when the node with this colour is gone from above x.       *)
RepairedFrom(x, wasRed) ==
    treeCall' = IF wasRed THEN NoCall ELSE [pc |-> "deleteFixup", x |-> x]

(* A node with one child or none: transplant puts x in its place, and      *)
(* writes the parent even when x is the sentinel.  The memory of the node  *)
(* is left blank.                                                          *)
Detach ==
    \E z \in made :
        LET x == IF child[z]["left"] = Nil THEN child[z]["right"] ELSE child[z]["left"]
            up == parent[z]
        IN  /\ Reached(z) /\ Nil \in {child[z]["left"], child[z]["right"]}
            /\ root' = IF up = Nil THEN x ELSE root
            /\ child' = [child EXCEPT ![up][SideOf(z)] = IF up = Nil THEN @ ELSE x,
                                      ![z]["left"] = Nil, ![z]["right"] = Nil]
            /\ parent' = [parent EXCEPT ![x] = up, ![z] = Nil]
            /\ red' = [red EXCEPT ![z] = FALSE]
            /\ made' = made \ {z}
            /\ RepairedFrom(x, red[z])

(* With two children its successor takes its place: minimum finds it ...   *)
BeginMinimum ==
    \E z \in made :
        /\ Reached(z) /\ Nil \notin {child[z]["left"], child[z]["right"]}
        /\ treeCall' = [pc |-> "minimum", z |-> z, y |-> child[z]["right"]]
        /\ UNCHANGED <<root, child, parent, red, made>>

SmallestHere(y) == TRUE   \* mutant: the walk down is missing
Smallest(y) == child[y]["left"] = Nil

Minimum ==
    /\ treeCall.pc = "minimum" /\ ~ Smallest(treeCall.y)
    /\ treeCall' = [treeCall EXCEPT !.y = child[treeCall.y]["left"]]
    /\ UNCHANGED <<root, child, parent, red, made>>

(* ... and two transplants move it.                                        *)
MoveSuccessor ==
    \E z, y \in made :
        LET x == child[y]["right"]
            p == parent[y]
            up == parent[z]
            direct == p = z
        IN  /\ treeCall = [pc |-> "minimum", z |-> z, y |-> y] /\ Smallest(y)
            /\ root' = IF up = Nil THEN y ELSE root
            /\ child' = [child EXCEPT ![p][SideOf(y)] = x,
                                      ![y]["right"] = IF direct THEN x ELSE child[z]["right"],
                                      ![up][SideOf(z)] = IF up = Nil THEN @ ELSE y,
                                      ![y]["left"] = child[z]["left"],
                                      ![z]["left"] = Nil, ![z]["right"] = Nil]
            /\ parent' = [parent EXCEPT ![x] = IF direct THEN y ELSE p,
                                        ![child[z]["right"]] = y,
                                        ![child[z]["left"]] = y,
                                        ![y] = up, ![z] = Nil]
            /\ red' = [red EXCEPT ![y] = red[z], ![z] = FALSE]
            /\ made' = made \ {z}
            /\ RepairedFrom(x, red[y])

(* The cases of deleteFixup: x lacks a black node, its sibling has one too *)
(* many.                                                                   *)
Lacking(x) ==
    /\ treeCall = [pc |-> "deleteFixup", x |-> x]
    /\ x # root /\ ~ red[x]

Far(x) == Other(SideOf(x))
Sibling(x) == child[parent[x]][Far(x)]
OuterNephew(x) == child[Sibling(x)][Far(x)]
InnerNephew(x) == child[Sibling(x)][SideOf(x)]

DeleteCase1 ==
    \E x \in Cells :
        /\ Lacking(x) /\ red[Sibling(x)]
        /\ red' = [red EXCEPT ![Sibling(x)] = FALSE, ![parent[x]] = TRUE]
        /\ Rotate(parent[x], SideOf(x))
        /\ UNCHANGED <<made, treeCall>>

DeleteCase2 ==
    \E x \in Cells :
        /\ Lacking(x) /\ ~ red[Sibling(x)]
        /\ ~ red[InnerNephew(x)] /\ ~ red[OuterNephew(x)]
        /\ red' = [red EXCEPT ![Sibling(x)] = TRUE]
        /\ treeCall' = [pc |-> "deleteFixup", x |-> parent[x]]
        /\ UNCHANGED <<root, child, parent, made>>

DeleteCase3 ==
    \E x \in Cells :
        /\ Lacking(x) /\ ~ red[Sibling(x)]
        /\ red[InnerNephew(x)] /\ ~ red[OuterNephew(x)]
        /\ red' = [red EXCEPT ![InnerNephew(x)] = FALSE, ![Sibling(x)] = TRUE]
        /\ Rotate(Sibling(x), Far(x))
        /\ UNCHANGED <<made, treeCall>>

DeleteCase4 ==
    \E x \in Cells :
        /\ Lacking(x) /\ ~ red[Sibling(x)]
        /\ red[OuterNephew(x)]
        /\ red' = [red EXCEPT ![Sibling(x)] = red[parent[x]], ![parent[x]] = FALSE,
                              ![OuterNephew(x)] = FALSE]
        /\ Rotate(parent[x], SideOf(x))
        /\ treeCall' = [pc |-> "deleteFixup", x |-> root']
        /\ UNCHANGED made

DeleteEnds ==
    /\ treeCall.pc = "deleteFixup"
    /\ treeCall.x = root \/ red[treeCall.x]
    /\ red' = [red EXCEPT ![treeCall.x] = FALSE]
    /\ treeCall' = NoCall
    /\ UNCHANGED <<root, child, parent, made>>

TreeNext ==
    \/ \E key \in TreeKeys : insert(key) \/ search(key)
    \/ Descend \/ Attach \/ InsertCase1 \/ InsertCase2 \/ InsertCase3 \/ InsertEnds
    \/ Find \/ SearchEnds \/ Detach \/ BeginMinimum \/ Minimum \/ MoveSuccessor
    \/ DeleteCase1 \/ DeleteCase2 \/ DeleteCase3 \/ DeleteCase4 \/ DeleteEnds

TreeSpec == TreeInit /\ [][TreeNext]_treeVars

-----------------------------------------------------------------------------
(* The nodes of the subtree of x.                                          *)
Under[x \in made \cup {Nil}] ==
    IF x = Nil THEN {} ELSE {x} \cup Under[child[x]["left"]] \cup Under[child[x]["right"]]

(* The black nodes on the way down, the same on every way; 0 stands for a  *)
(* subtree where they differ (every subtree counts its sentinel as one).   *)
BlackHeight[x \in made \cup {Nil}] ==
    IF x = Nil THEN 1
    ELSE LET l == BlackHeight[child[x]["left"]] IN
         IF l = 0 \/ l # BlackHeight[child[x]["right"]] THEN 0
         ELSE l + IF red[x] THEN 0 ELSE 1

(* After every insert and remove the tree is red-black: the root and the   *)
(* sentinel are black, no red node has a red child, and every way down     *)
(* crosses as many black nodes; so the height stays logarithmic.           *)
Balanced ==
    /\ ~ red[root] /\ ~ red[Nil]
    /\ \A x \in made : red[x] => \A side \in Sides : ~ red[child[x][side]]
    /\ BlackHeight[root] # 0

(* No node is lost, or reached twice; the links up undo the links down (the*)
(* fix-ups walk both ways); and keys are in order, those that stand more   *)
(* than once on either side of each other.                                 *)
Navigable ==
    /\ Under[root] = made
    /\ root # Nil => parent[root] = Nil
    /\ \A x \in made :
        /\ Under[child[x]["left"]] \cap Under[child[x]["right"]] = {}
        /\ \A side \in Sides : child[x][side] # Nil => parent[child[x][side]] = x
        /\ \A y \in Under[child[x]["left"]] : KeyOf(y) <= KeyOf(x)
        /\ \A y \in Under[child[x]["right"]] : KeyOf(x) <= KeyOf(y)

(* A search fails only when no node has the key.                           *)
FindsWhatIsHeld ==
    treeCall.pc = "find" /\ treeCall.x = Nil => \A y \in made : KeyOf(y) # treeCall.key

TreeSound == FindsWhatIsHeld /\ (treeCall = NoCall => Balanced /\ Navigable)

(* No rotation, transplant or successor move loses or doubles a key.       *)
Bag == INSTANCE KeyBag WITH
    Keys <- TreeKeys,
    copies <- [k \in TreeKeys |-> Cardinality({x \in Under[root] : KeyOf(x) = k})]

ImplementsBag == Bag!Spec
=============================================================================
