----------------------------- MODULE TreeProof ------------------------------
(***************************************************************************)
(* The red-black tree, for any keys and any number of nodes: between calls *)
(* it is balanced, in order, and linked both ways; a search fails only     *)
(* when the key is not there; and no operation loses or doubles a key.     *)
(***************************************************************************)
EXTENDS RBTree, SumsProof

-----------------------------------------------------------------------------
(* The shape of a tree: H are its nodes, r its root, c and p its links     *)
(* down and up, and sub gives the nodes below each, the node itself with   *)
(* them. The lemmas of the first part are about any such links, so that    *)
(* they serve the state before a step and the state after it.              *)

(* u belongs on this side of n.                                            *)
OnSide(s, u, n) == IF s = "left" THEN KeyOf(u) <= KeyOf(n) ELSE KeyOf(n) <= KeyOf(u)

(* The children of n, and the nodes sub says are below it and below them.  *)
Family(H, c, p, sub, n) ==
    \A s \in Sides :
        /\ c[n][s] \in H \cup {Nil}
        /\ c[n][s] # Nil => p[c[n][s]] = n
        /\ n \notin sub[c[n][s]]
        /\ \A u \in sub[c[n][s]] : OnSide(s, u, n)
        /\ sub[n] = {n} \cup sub[c[n][s]] \cup sub[c[n][Other(s)]]
        /\ sub[c[n][s]] \cap sub[c[n][Other(s)]] = {}

(* The links make a search tree of the nodes H with the root r.            *)
Shape(H, r, c, p, sub) ==
    /\ H \subseteq Nodes /\ r \in H \cup {Nil}
    /\ sub \in [H \cup {Nil} -> SUBSET H] /\ sub[Nil] = {} /\ sub[r] = H
    /\ r # Nil => p[r] = Nil
    /\ \A n \in H :
        /\ Family(H, c, p, sub, n)
        /\ p[n] \in H \cup {Nil}
        /\ n # r => p[n] \in H /\ \E s \in Sides : c[p[n]][s] = n
        /\ \A u \in sub[n] : sub[u] \subseteq sub[n] /\ (u # n => p[u] \in sub[n])

(* A side and the other one are all there is.                              *)
LEMMA TwoSides ==
    /\ \A s \in Sides : Other(s) \in Sides /\ Other(s) # s /\ Other(Other(s)) = s
    /\ \A s, t \in Sides : t = s \/ t = Other(s)
  BY DEF Sides, Other

(* The sentinel is no node, and keys are integers.                         *)
LEMMA NodesApart ==
    ASSUME TreeFit
    PROVE  Nil \notin Nodes /\ \A x \in Nodes : KeyOf(x) \in Int
  <1>1. \A x \in Nodes : x[1] \in TreeKeys /\ x[2] \in 1 .. MaxCopies
    BY DEF Nodes
  <1>2. MaxCopies \in Nat /\ TreeKeys \subseteq Int
    BY DEF TreeFit
  <1>3. Nil[2] = 0
    BY DEF Nil
  <1>4. 0 \notin 1 .. MaxCopies
    BY <1>2
  <1>5. Nil \notin Nodes
    BY <1>1, <1>3, <1>4
  <1>6. \A x \in Nodes : KeyOf(x) \in TreeKeys
    BY <1>1 DEF KeyOf
  <1> QED
    BY <1>2, <1>5, <1>6

(* What is on one side of a node and what is on the other are in order.    *)
LEMMA SidesOrdered ==
    ASSUME TreeFit, NEW s \in Sides
    PROVE  /\ \A u, n \in Nodes : OnSide(s, u, n) <=> OnSide(Other(s), n, u)
           /\ \A u, n, m \in Nodes : OnSide(s, u, n) /\ OnSide(s, n, m) => OnSide(s, u, m)
  BY NodesApart DEF OnSide, Other, Sides

(* A node is the child of one other, on one side.                          *)
LEMMA OneParent ==
    ASSUME TreeFit, NEW H, NEW r, NEW c, NEW p, NEW sub, Shape(H, r, c, p, sub),
           NEW n \in H, NEW s \in Sides, c[n][s] # Nil
    PROVE  /\ c[n][s] \in H /\ p[c[n][s]] = n /\ c[n][s] # n /\ c[n][s] # r
           /\ c[n][Other(s)] # c[n][s]
           /\ c[n][s] \in sub[c[n][s]]
           /\ \A k \in H, t \in Sides : c[k][t] = c[n][s] => k = n /\ t = s
  <1>1. Nil \notin H
    BY NodesApart DEF Shape
  <1>2. PICK m : m = c[n][s]
    OBVIOUS
  <1>3. m \in H /\ p[m] = n /\ n \notin sub[m]
    BY <1>2 DEF Shape, Family
  <1>4. m \in sub[m]
    BY <1>3 DEF Shape, Family
  <1>5. m # r
    BY <1>1, <1>3 DEF Shape
  <1>6. ASSUME NEW k \in H, NEW t \in Sides, c[k][t] = m PROVE k = n /\ t = s
    <2>1. k = n
      BY <1>1, <1>3, <1>6 DEF Shape, Family
    <2>2. CASE t = Other(s)
      <3>1. m \in sub[c[n][s]] /\ m \in sub[c[n][Other(s)]]
        BY <1>2, <1>4, <1>6, <2>1, <2>2
      <3> QED
        BY <3>1 DEF Shape, Family
    <2> QED
      BY <2>1, <2>2, TwoSides
  <1> QED
    BY <1>2, <1>3, <1>4, <1>5, <1>6, TwoSides

(* The side of a child is the one SideOf would find, with any parent that  *)
(* knows it.                                                               *)
LEMMA ParentKnows ==
    ASSUME TreeFit, NEW H, NEW r, NEW c, NEW p, NEW sub, Shape(H, r, c, p, sub),
           NEW n \in H, p[n] # Nil
    PROVE  /\ p[n] \in H /\ n # r /\ n # p[n]
           /\ \E s \in Sides : c[p[n]][s] = n /\ c[p[n]][Other(s)] # n
                               /\ s = IF n = c[p[n]]["left"] THEN "left" ELSE "right"
  <1>1. n # r /\ p[n] \in H /\ Nil \notin H
    BY NodesApart DEF Shape
  <1>2. PICK s \in Sides : c[p[n]][s] = n
    BY <1>1 DEF Shape
  <1>3. c[p[n]][Other(s)] # n /\ n # p[n]
    BY <1>1, <1>2, OneParent
  <1>4. s = IF n = c[p[n]]["left"] THEN "left" ELSE "right"
    BY <1>2, <1>3 DEF Sides, Other
  <1> QED
    BY <1>1, <1>2, <1>3, <1>4

-----------------------------------------------------------------------------
(* Rotations keep the shape.                                               *)

(* y, the child of x on the side away from s, turns into the place of x;   *)
(* b, the child of y on the side s, changes its parent.                    *)
Turned(H, x, y, b, s, r, c, p, r1, c1, p1) ==
    /\ x \in H /\ s \in Sides /\ y = c[x][Other(s)] /\ y # Nil /\ b = c[y][s]
    /\ r1 = IF r = x THEN y ELSE r
    /\ \A n \in H : \A q \in Sides :
          c1[n][q] = IF n = y /\ q = s THEN x
                     ELSE IF n = x /\ q = Other(s) THEN b
                     ELSE IF c[n][q] = x THEN y ELSE c[n][q]
    /\ \A n \in H : p1[n] = IF n = x THEN y ELSE IF n = y THEN p[x]
                            ELSE IF n = b THEN x ELSE p[n]

(* What is below each node then.                                           *)
TurnedSub(H, x, y, s, c, sub) ==
    [n \in H \cup {Nil} |-> IF n = y THEN sub[x]
                            ELSE IF n = x THEN {x} \cup sub[c[x][s]] \cup sub[c[y][s]]
                            ELSE sub[n]]

(* A rotation keeps the shape.                                             *)
LEMMA TurnShape ==
    ASSUME TreeFit, NEW H, NEW r, NEW c, NEW p, NEW sub, Shape(H, r, c, p, sub),
           NEW x, NEW y, NEW b, NEW s, NEW r1, NEW c1, NEW p1,
           Turned(H, x, y, b, s, r, c, p, r1, c1, p1)
    PROVE  Shape(H, r1, c1, p1, TurnedSub(H, x, y, s, c, sub))
  <1>1. PICK sub1 : sub1 = TurnedSub(H, x, y, s, c, sub)
    OBVIOUS
  <1>2. PICK a, d, f : a = c[x][s] /\ d = c[y][f] /\ f = Other(s)
    OBVIOUS
  <1>3. /\ s \in Sides /\ f \in Sides /\ s # f /\ Other(s) = f /\ Other(f) = s
        /\ \A q \in Sides : q = s \/ q = f
    BY <1>2, TwoSides DEF Turned
  <1>4. /\ Nil \notin H /\ x \in H /\ y \in H /\ x # y
        /\ a \in H \cup {Nil} /\ b \in H \cup {Nil} /\ d \in H \cup {Nil}
        /\ c[x][s] = a /\ c[x][f] = y /\ c[y][s] = b /\ c[y][f] = d
    <2>1. Nil \notin H /\ x \in H /\ y # Nil /\ c[x][s] = a /\ c[x][f] = y /\ c[y][s] = b /\ c[y][f] = d
      BY <1>2, NodesApart DEF Shape, Turned
    <2>2. y \in H /\ x # y
      BY <1>3, <2>1, OneParent
    <2> QED
      BY <1>3, <2>1, <2>2 DEF Shape, Family
  <1>5. \A n \in H \cup {Nil} : sub[n] \subseteq H /\ Nil \notin sub[n]
    BY <1>4 DEF Shape
  <1>6. /\ sub[x] = {x} \cup sub[a] \cup sub[y] /\ sub[y] = {y} \cup sub[b] \cup sub[d]
        /\ x \notin sub[a] /\ x \notin sub[y] /\ y \notin sub[b] /\ y \notin sub[d]
        /\ sub[a] \cap sub[y] = {} /\ sub[b] \cap sub[d] = {}
        /\ p[y] = x /\ (a # Nil => p[a] = x) /\ (b # Nil => p[b] = y) /\ (d # Nil => p[d] = y)
    BY <1>3, <1>4 DEF Shape, Family
  <1>7. /\ sub[Nil] = {} /\ sub[r] = H /\ r \in H \cup {Nil} /\ H \subseteq Nodes
        /\ r # Nil => p[r] = Nil
    BY DEF Shape
  <1>8. /\ \A n \in H : n \in sub[n] /\ p[n] \in H \cup {Nil}
        /\ \A n \in H : n # r => p[n] \in H /\ \E q \in Sides : c[p[n]][q] = n
        /\ \A n \in H : \A u \in sub[n] : sub[u] \subseteq sub[n] /\ (u # n => p[u] \in sub[n])
    BY DEF Shape, Family, Sides
  <1>9. /\ sub1[x] = {x} \cup sub[a] \cup sub[b] /\ sub1[y] = sub[x]
        /\ \A n \in H \cup {Nil} : n # x /\ n # y => sub1[n] = sub[n]
    BY <1>1, <1>2, <1>4 DEF TurnedSub
  <1>10. sub1 \in [H \cup {Nil} -> SUBSET H]
    <2>1. \A n \in H \cup {Nil} : sub1[n] \subseteq H
      BY <1>4, <1>5, <1>9
    <2>2. sub1 = [n \in H \cup {Nil} |-> sub1[n]]
      BY <1>1 DEF TurnedSub
    <2> QED
      BY <2>1, <2>2
  <1>11. /\ r1 = IF r = x THEN y ELSE r
         /\ c1[y][s] = x /\ c1[x][f] = b /\ c1[x][s] = a /\ c1[y][f] = d
         /\ \A n \in H : \A q \in Sides : n # x /\ n # y =>
                c1[n][q] = IF c[n][q] = x THEN y ELSE c[n][q]
         /\ p1[x] = y /\ p1[y] = p[x] /\ (b # Nil => p1[b] = x)
         /\ \A n \in H : n # x /\ n # y /\ n # b => p1[n] = p[n]
    <2>1. a # x /\ d # x /\ b # x /\ b # y
      BY <1>4, <1>6, <1>8
    <2> QED
      BY <1>3, <1>4, <2>1, <1>2 DEF Turned
  <1>12. sub1[Nil] = {} /\ sub1[r1] = H /\ r1 \in H \cup {Nil} /\ (r1 # Nil => p1[r1] = Nil)
    <2>1. r # y /\ r # b
      BY <1>4, <1>6, <1>7
    <2> QED
      BY <1>4, <1>7, <1>9, <1>11, <2>1
  <1>13. ASSUME NEW n \in H PROVE Family(H, c1, p1, sub1, n)
    <2>1. CASE n = x
      <3>1. /\ sub1[a] = sub[a] /\ sub1[b] = sub[b] /\ (a # Nil => p1[a] = p[a])
        <4>1. a # y /\ (a # Nil => a # b)
          BY <1>4, <1>6, <1>8
        <4> QED
          BY <4>1, <1>4, <1>6, <1>8, <1>9, <1>11
      <3>2. (\A u \in sub[a] : OnSide(s, u, x)) /\ (\A u \in sub[b] : OnSide(f, u, x))
        <4>1. (\A u \in sub[a] : OnSide(s, u, x)) /\ (\A u \in sub[y] : OnSide(f, u, x))
          BY <1>3, <1>4 DEF Shape, Family
        <4> QED
          BY <4>1, <1>6
      <3>3. sub[a] \cap sub[b] = {} /\ x \notin sub[b]
        BY <1>6
      <3> QED
        BY <2>1, <3>1, <3>2, <3>3, <1>3, <1>4, <1>6, <1>9, <1>11 DEF Family
    <2>2. CASE n = y
      <3>1. sub1[d] = sub[d] /\ (d # Nil => p1[d] = p[d])
        <4>1. d # x /\ d # y /\ (d # Nil => d # b)
          BY <1>4, <1>6, <1>8
        <4> QED
          BY <4>1, <1>4, <1>9, <1>11
      <3>2. (\A u \in sub1[x] : OnSide(s, u, y)) /\ (\A u \in sub[d] : OnSide(f, u, y))
        <4>1. /\ \A u \in sub[a] : OnSide(s, u, x)
              /\ \A u \in sub[y] : OnSide(f, u, x)
              /\ \A u \in sub[b] : OnSide(s, u, y)
              /\ \A u \in sub[d] : OnSide(f, u, y)
          BY <1>3, <1>4 DEF Shape, Family
        <4>2. OnSide(s, x, y)
          BY <1>3, <1>4, <1>7, <1>8, <4>1, SidesOrdered
        <4>3. \A u \in sub[a] : OnSide(s, u, y)
          BY <1>3, <1>4, <1>5, <1>7, <4>1, <4>2, SidesOrdered
        <4> QED
          BY <1>9, <4>1, <4>2, <4>3
      <3>3. /\ sub1[y] = {y} \cup sub1[x] \cup sub1[d] /\ y \notin sub1[x]
            /\ sub1[x] \cap sub1[d] = {}
        BY <1>4, <1>6, <1>8, <1>9, <3>1
      <3> QED
        BY <2>2, <3>1, <3>2, <3>3, <1>3, <1>4, <1>6, <1>9, <1>11 DEF Family
    <2>3. CASE n # x /\ n # y
      <3> SUFFICES ASSUME NEW q \in Sides
                   PROVE  /\ c1[n][q] \in H \cup {Nil}
                          /\ c1[n][q] # Nil => p1[c1[n][q]] = n
                          /\ sub1[c1[n][q]] = sub[c[n][q]]
        <4>1. ASSUME NEW q \in Sides
              PROVE  /\ n \notin sub[c[n][q]]
                     /\ \A u \in sub[c[n][q]] : OnSide(q, u, n)
                     /\ sub[n] = {n} \cup sub[c[n][q]] \cup sub[c[n][Other(q)]]
                     /\ sub[c[n][q]] \cap sub[c[n][Other(q)]] = {}
                     /\ Other(q) \in Sides
          BY TwoSides DEF Shape, Family
        <4> QED
          BY <4>1, <2>3, <1>9 DEF Family
      <3>1. PICK m : m = c[n][q]
        OBVIOUS
      <3>2. m \in H \cup {Nil} /\ (m # Nil => p[m] = n)
        BY <3>1 DEF Shape, Family
      <3>3. m # y /\ (m = b => b = Nil)
        BY <1>4, <1>6, <2>3, <3>2
      <3> QED
        BY <3>1, <3>2, <3>3, <2>3, <1>4, <1>9, <1>11
    <2> QED
      BY <2>1, <2>2, <2>3
  <1>14. ASSUME NEW n \in H
         PROVE  p1[n] \in H \cup {Nil} /\ (n # r1 => p1[n] \in H /\ \E q \in Sides : c1[p1[n]][q] = n)
    <2>1. CASE n = x
      BY <2>1, <1>3, <1>4, <1>11
    <2>2. CASE n = b
      BY <2>2, <1>3, <1>4, <1>11
    <2>3. CASE n = y
      <3>1. CASE r = x
        BY <2>3, <3>1, <1>4, <1>7, <1>11
      <3>2. CASE r # x
        <4>1. PICK q \in Sides : c[p[x]][q] = x
          BY <3>2, <1>4, <1>8
        <4>2. p[x] \in H /\ p[x] # x /\ p[x] # y
          BY <3>2, <4>1, <1>3, <1>4, <1>6, <1>8, <1>11
        <4> QED
          BY <2>3, <4>1, <4>2, <1>11
      <3> QED
        BY <3>1, <3>2
    <2>4. CASE n # x /\ n # y /\ n # b
      <3>1. p1[n] = p[n] /\ p[n] \in H \cup {Nil}
        BY <2>4, <1>8, <1>11
      <3>2. ASSUME n # r1 PROVE p[n] \in H /\ \E q \in Sides : c1[p[n]][q] = n
        <4>1. n # r
          BY <3>2, <2>4, <1>11
        <4>2. PICK q \in Sides : c[p[n]][q] = n /\ p[n] \in H
          BY <4>1, <1>8
        <4>3. CASE p[n] = x
          BY <4>2, <4>3, <2>4, <1>3, <1>4, <1>11
        <4>4. CASE p[n] = y
          BY <4>2, <4>4, <2>4, <1>3, <1>4, <1>11
        <4>5. CASE p[n] # x /\ p[n] # y
          BY <4>2, <4>5, <2>4, <1>11
        <4> QED
          BY <4>2, <4>3, <4>4, <4>5
      <3> QED
        BY <3>1, <3>2
    <2> QED
      BY <2>1, <2>2, <2>3, <2>4
  <1>15. ASSUME NEW n \in H, NEW u \in sub1[n]
         PROVE  sub1[u] \subseteq sub1[n] /\ (u # n => p1[u] \in sub1[n])
    <2>1. u \in H /\ u \in sub[u]
      BY <1>8, <1>10
    <2>2. sub1[x] \subseteq sub[x] /\ sub[y] \subseteq sub[x]
      BY <1>6, <1>9
    <2>3. CASE n = y
      <3>1. u \in sub[x] /\ sub1[n] = sub[x]
        BY <2>3, <1>9
      <3>2. sub1[u] \subseteq sub[x]
        BY <3>1, <2>1, <2>2, <1>4, <1>8, <1>9
      <3>3. u # y => p1[u] \in sub[x]
        BY <3>1, <2>1, <1>4, <1>6, <1>8, <1>11
      <3> QED
        BY <2>3, <3>1, <3>2, <3>3
    <2>4. CASE n = x
      <3>1. sub1[n] = {x} \cup sub[a] \cup sub[b] /\ u # y
        BY <2>4, <1>6, <1>8, <1>9, <1>4
      <3>2. CASE u = x
        BY <2>4, <3>2
      <3>3. CASE u \in sub[a]
        <4>1. a \in H /\ sub[u] \subseteq sub[a] /\ (u # a => p[u] \in sub[a])
          BY <3>3, <1>4, <1>7, <1>8
        <4>2. u # x /\ u # b /\ sub1[u] = sub[u] /\ p1[u] = p[u]
          BY <3>1, <3>3, <2>1, <1>4, <1>6, <1>8, <1>9, <1>11
        <4> QED
          BY <2>4, <3>1, <4>1, <4>2, <1>4, <1>6
      <3>4. CASE u \in sub[b]
        <4>1. b \in H /\ sub[u] \subseteq sub[b] /\ (u # b => p[u] \in sub[b])
          BY <3>4, <1>4, <1>7, <1>8
        <4>2. u # x /\ sub1[u] = sub[u] /\ (u # b => p1[u] = p[u])
          BY <3>1, <3>4, <2>1, <1>4, <1>6, <1>9, <1>11
        <4> QED
          BY <2>4, <3>1, <4>1, <4>2, <1>4, <1>11
      <3> QED
        BY <3>1, <3>2, <3>3, <3>4
    <2>5. CASE n # x /\ n # y
      <3>1. sub1[n] = sub[n] /\ u \in sub[n]
        BY <2>5, <1>9
      <3>2. sub[u] \subseteq sub[n] /\ (u # n => p[u] \in sub[n])
        BY <3>1, <1>8
      <3>3. u = y => x \in sub[n] /\ sub[x] \subseteq sub[n] /\ (x # n => p[x] \in sub[n])
        BY <3>1, <3>2, <2>5, <1>6, <1>8
      <3>4. u = x => y \in sub[n]
        BY <3>2, <1>6, <1>8, <1>4
      <3>5. u = b /\ u # n => x \in sub[n]
        <4>1. u = b /\ u # n => y \in sub[n]
          BY <3>2, <1>6, <2>1, <1>4
        <4> QED
          BY <4>1, <2>5, <1>6, <1>8
      <3>6. sub1[u] \subseteq sub[n]
        BY <3>2, <3>3, <2>1, <2>2, <1>9
      <3>7. u # n => p1[u] \in sub[n]
        BY <3>2, <3>3, <3>4, <3>5, <2>1, <2>5, <1>4, <1>11
      <3> QED
        BY <3>1, <3>6, <3>7
    <2> QED
      BY <2>3, <2>4, <2>5
  <1> QED
    BY <1>1, <1>7, <1>10, <1>12, <1>13, <1>14, <1>15 DEF Shape

-----------------------------------------------------------------------------
(* A new leaf keeps the shape.                                             *)

(* z, a new node, is hung under y on the side d, or is the first.          *)
Hung(H, z, y, d, r, c, p, r1, c1, p1) ==
    /\ z \in Nodes \ H /\ y \in H \cup {Nil} /\ d \in Sides
    /\ IF y = Nil THEN r = Nil ELSE c[y][d] = Nil
    /\ r1 = IF y = Nil THEN z ELSE r
    /\ \A q \in Sides : c1[z][q] = Nil
    /\ \A n \in H : \A q \in Sides : c1[n][q] = IF n = y /\ q = d THEN z ELSE c[n][q]
    /\ p1[z] = y /\ \A n \in H : p1[n] = p[n]

(* ... where a search for it ends.                                         *)
Belongs(H, z, y, d, c, sub) ==
    /\ y # Nil => OnSide(d, z, y)
    /\ \A n \in H : \A q \in Sides : y \in sub[c[n][q]] => OnSide(q, z, n)

(* The new node is below whatever has y below it.                          *)
HungSub(H, z, y, sub) ==
    [n \in (H \cup {z}) \cup {Nil} |->
        IF n = z THEN {z} ELSE IF y \in sub[n] THEN sub[n] \cup {z} ELSE sub[n]]

(* What every proof about a change of the links begins with.               *)
LEMMA ShapeFacts ==
    ASSUME TreeFit, NEW H, NEW r, NEW c, NEW p, NEW sub, Shape(H, r, c, p, sub)
    PROVE  /\ Nil \notin H /\ H \subseteq Nodes /\ r \in H \cup {Nil} /\ (r = Nil => H = {})
           /\ sub[Nil] = {} /\ sub[r] = H /\ (r # Nil => p[r] = Nil)
           /\ \A n \in H \cup {Nil} : sub[n] \subseteq H /\ Nil \notin sub[n]
           /\ \A n \in H : n \in sub[n] /\ p[n] \in H \cup {Nil}
           /\ \A n \in H : n # r => p[n] \in H /\ \E q \in Sides : c[p[n]][q] = n
           /\ \A n \in H : \A u \in sub[n] : sub[u] \subseteq sub[n] /\ (u # n => p[u] \in sub[n])
           /\ \A n \in H, q \in Sides : /\ c[n][q] \in H \cup {Nil}
                                        /\ c[n][q] # Nil => p[c[n][q]] = n
                                        /\ n \notin sub[c[n][q]]
           /\ \A n \in H : Family(H, c, p, sub, n)
  <1>1. Nil \notin H
    BY NodesApart DEF Shape
  <1> QED
    BY <1>1 DEF Shape, Family, Sides

(* A new leaf in its place keeps the shape.                                *)
LEMMA HangShape ==
    ASSUME TreeFit, NEW H, NEW r, NEW c, NEW p, NEW sub, Shape(H, r, c, p, sub),
           NEW z, NEW y, NEW d, NEW r1, NEW c1, NEW p1,
           Hung(H, z, y, d, r, c, p, r1, c1, p1), Belongs(H, z, y, d, c, sub)
    PROVE  Shape(H \cup {z}, r1, c1, p1, HungSub(H, z, y, sub))
  <1>1. PICK sub1, H1 : sub1 = HungSub(H, z, y, sub) /\ H1 = H \cup {z}
    OBVIOUS
  <1>2. /\ Nil \notin H /\ H \subseteq Nodes /\ r \in H \cup {Nil} /\ (r = Nil => H = {})
        /\ sub[Nil] = {} /\ sub[r] = H /\ (r # Nil => p[r] = Nil)
        /\ \A n \in H \cup {Nil} : sub[n] \subseteq H /\ Nil \notin sub[n]
    BY ShapeFacts
  <1>3. /\ \A n \in H : n \in sub[n] /\ p[n] \in H \cup {Nil}
        /\ \A n \in H : n # r => p[n] \in H /\ \E q \in Sides : c[p[n]][q] = n
        /\ \A n \in H : \A u \in sub[n] : sub[u] \subseteq sub[n] /\ (u # n => p[u] \in sub[n])
        /\ \A n \in H, q \in Sides : /\ c[n][q] \in H \cup {Nil}
                                     /\ c[n][q] # Nil => p[c[n][q]] = n
                                     /\ n \notin sub[c[n][q]]
    BY ShapeFacts
  <1>4. /\ z \in Nodes /\ z \notin H /\ z # Nil /\ y \in H \cup {Nil} /\ y # z /\ d \in Sides
        /\ p1[z] = y /\ (\A n \in H : p1[n] = p[n]) /\ (\A q \in Sides : c1[z][q] = Nil)
        /\ r1 = IF y = Nil THEN z ELSE r
    BY <1>2, NodesApart DEF Hung
  <1>5. \A n \in H : \A q \in Sides : c1[n][q] = IF n = y /\ q = d THEN z ELSE c[n][q]
    BY DEF Hung
  <1>6. IF y = Nil THEN r = Nil ELSE c[y][d] = Nil
    BY DEF Hung
  <1>7. /\ sub1[z] = {z}
        /\ \A n \in H \cup {Nil} : sub1[n] = IF y \in sub[n] THEN sub[n] \cup {z} ELSE sub[n]
        /\ sub1[Nil] = {} /\ \A n \in H1 : n \in H \/ n = z
    BY <1>1, <1>2, <1>4 DEF HungSub
  <1>8. sub1 \in [H1 \cup {Nil} -> SUBSET H1]
    <2>1. ASSUME NEW n \in H1 \cup {Nil} PROVE sub1[n] \subseteq H1
      <3>1. CASE n = z
        BY <3>1, <1>1, <1>7
      <3>2. CASE n \in H \cup {Nil}
        <4>1. sub[n] \subseteq H /\ (sub1[n] = sub[n] \cup {z} \/ sub1[n] = sub[n])
          BY <3>2, <1>2, <1>7
        <4> QED
          BY <4>1, <1>1
      <3> QED
        BY <3>1, <3>2, <1>1
    <2>2. sub1 = [n \in H1 \cup {Nil} |-> sub1[n]]
      BY <1>1 DEF HungSub
    <2> QED
      BY <2>1, <2>2
  <1>9. sub1[r1] = H1 /\ r1 \in H1 \cup {Nil} /\ (r1 # Nil => p1[r1] = Nil)
    <2>1. CASE y = Nil
      BY <2>1, <1>1, <1>2, <1>4, <1>6, <1>7
    <2>2. CASE y # Nil
      BY <2>2, <1>1, <1>2, <1>4, <1>7
    <2> QED
      BY <2>1, <2>2
  <1>10. Family(H1, c1, p1, sub1, z)
    <2>1. \A q \in Sides : Other(q) \in Sides
      BY TwoSides
    <2> QED
      BY <2>1, <1>1, <1>4, <1>7 DEF Family
  <1>11. ASSUME NEW n \in H PROVE Family(H1, c1, p1, sub1, n)
    <2>1. ASSUME NEW q \in Sides, n = y /\ q = d
          PROVE  c1[n][q] = z /\ sub[c[n][q]] = {}
      BY <2>1, <1>2, <1>5, <1>6
    <2>2. ASSUME NEW q \in Sides, ~ (n = y /\ q = d)
          PROVE  c1[n][q] = c[n][q] /\ c[n][q] \in H \cup {Nil}
      BY <2>2, <1>3, <1>5
    <2>3. ASSUME NEW q \in Sides
          PROVE  sub1[c1[n][q]] = IF (n = y /\ q = d) \/ y \in sub[c[n][q]]
                                  THEN sub[c[n][q]] \cup {z} ELSE sub[c[n][q]]
      BY <2>1, <2>2, <1>4, <1>7
    <2>4. ASSUME NEW q \in Sides
          PROVE  /\ sub[n] = {n} \cup sub[c[n][q]] \cup sub[c[n][Other(q)]]
                 /\ sub[c[n][q]] \cap sub[c[n][Other(q)]] = {}
                 /\ n \notin sub[c[n][q]] /\ z \notin sub[c[n][q]]
                 /\ \A u \in sub[c[n][q]] : OnSide(q, u, n)
                 /\ c[n][q] # Nil => p[c[n][q]] = n
                 /\ Other(q) \in Sides /\ Other(q) # q
      BY <1>2, <1>3, <1>4, TwoSides DEF Shape, Family
    <2>5. ASSUME NEW q \in Sides
          PROVE  /\ c1[n][q] \in H1 \cup {Nil}
                 /\ c1[n][q] # Nil => p1[c1[n][q]] = n
                 /\ n \notin sub1[c1[n][q]]
                 /\ \A u \in sub1[c1[n][q]] : OnSide(q, u, n)
      <3>1. \A u \in sub1[c1[n][q]] : OnSide(q, u, n)
        <4>1. (n = y /\ q = d) \/ y \in sub[c[n][q]] => OnSide(q, z, n)
          BY <1>2 DEF Belongs
        <4>2. \A u \in sub[c[n][q]] : OnSide(q, u, n)
          BY <2>4
        <4> QED
          BY <4>1, <4>2, <2>3
      <3>2. n # z /\ n \notin sub1[c1[n][q]]
        <4>1. n # z /\ n \notin sub[c[n][q]]
          BY <1>4, <2>4
        <4>2. sub1[c1[n][q]] \subseteq sub[c[n][q]] \cup {z}
          BY <2>3
        <4> QED
          BY <4>1, <4>2
      <3>3. CASE n = y /\ q = d
        BY <3>1, <3>2, <3>3, <2>1, <1>1, <1>4
      <3>4. CASE ~ (n = y /\ q = d)
        <4>1. c1[n][q] = c[n][q] /\ c[n][q] \in H \cup {Nil} /\ (c[n][q] # Nil => p[c[n][q]] = n)
          BY <3>4, <2>2, <2>4
        <4> QED
          BY <4>1, <3>1, <3>2, <1>1, <1>4
      <3> QED
        BY <3>3, <3>4
    <2>6. ASSUME NEW q \in Sides
          PROVE  /\ sub1[n] = {n} \cup sub1[c1[n][q]] \cup sub1[c1[n][Other(q)]]
                 /\ sub1[c1[n][q]] \cap sub1[c1[n][Other(q)]] = {}
      <3>1. PICK A, B : A = sub[c[n][q]] /\ B = sub[c[n][Other(q)]]
        OBVIOUS
      <3>2. sub[n] = {n} \cup A \cup B /\ A \cap B = {} /\ z \notin A /\ z \notin B /\ n \notin A /\ n \notin B
        BY <3>1, <2>4
      <3>3. /\ sub1[c1[n][q]] = IF (n = y /\ q = d) \/ y \in A THEN A \cup {z} ELSE A
            /\ sub1[c1[n][Other(q)]] = IF (n = y /\ Other(q) = d) \/ y \in B THEN B \cup {z} ELSE B
            /\ q = d \/ Other(q) = d
        BY <3>1, <2>3, <2>4, <1>4, TwoSides
      <3>4. sub1[n] = IF y \in sub[n] THEN sub[n] \cup {z} ELSE sub[n]
        BY <1>7
      <3> QED
        BY <3>2, <3>3, <3>4, <2>4
    <2> QED
      BY <2>5, <2>6 DEF Family
  <1>12. ASSUME NEW n \in H1
         PROVE  p1[n] \in H1 \cup {Nil} /\ (n # r1 => p1[n] \in H1 /\ \E q \in Sides : c1[p1[n]][q] = n)
    <2>1. CASE n = z
      BY <2>1, <1>1, <1>4, <1>5
    <2>2. CASE n \in H
      <3>1. p1[n] = p[n] /\ p[n] \in H \cup {Nil}
        BY <2>2, <1>3, <1>4
      <3>2. ASSUME n # r1 PROVE p[n] \in H /\ \E q \in Sides : c1[p[n]][q] = n
        <4>1. n # r
          BY <2>2, <3>2, <1>2, <1>4, <1>6
        <4>2. PICK q \in Sides : c[p[n]][q] = n /\ p[n] \in H
          BY <4>1, <2>2, <1>3
        <4> QED
          BY <4>2, <2>2, <1>2, <1>5, <1>6
      <3> QED
        BY <3>1, <3>2, <1>1
    <2> QED
      BY <2>1, <2>2, <1>7
  <1>13. ASSUME NEW n \in H1, NEW u \in sub1[n]
         PROVE  sub1[u] \subseteq sub1[n] /\ (u # n => p1[u] \in sub1[n])
    <2>1. CASE n = z
      BY <2>1, <1>7
    <2>2. CASE n \in H /\ u = z
      <3>1. z \notin sub[n] /\ sub1[n] = IF y \in sub[n] THEN sub[n] \cup {z} ELSE sub[n]
        BY <2>2, <1>2, <1>4, <1>7
      <3> QED
        BY <2>2, <3>1, <1>4, <1>7
    <2>3. CASE n \in H /\ u # z
      <3>1. u \in sub[n] /\ u \in H
        BY <2>3, <1>2, <1>7
      <3>2. sub[u] \subseteq sub[n] /\ (u # n => p[u] \in sub[n]) /\ p1[u] = p[u]
        BY <3>1, <2>3, <1>3, <1>4
      <3> QED
        BY <3>1, <3>2, <2>3, <1>7
    <2> QED
      BY <2>1, <2>2, <2>3, <1>7
  <1>14. H1 \subseteq Nodes
    BY <1>1, <1>2, <1>4
  <1>15. Shape(H1, r1, c1, p1, sub1)
    BY <1>7, <1>8, <1>9, <1>10, <1>11, <1>12, <1>13, <1>14 DEF Shape
  <1> QED
    BY <1>1, <1>15

-----------------------------------------------------------------------------
(* So does cutting out a node with one child, and putting a node without   *)
(* children in the place of another.                                       *)

(* z, which has no child on the side t, is cut out: x, its other child,    *)
(* takes its place.                                                        *)
Cut(H, z, x, t, r, c, p, r1, c1, p1) ==
    /\ z \in H /\ t \in Sides /\ c[z][t] = Nil /\ x = c[z][Other(t)]
    /\ r1 = IF r = z THEN x ELSE r
    /\ \A n \in H \ {z} : \A q \in Sides : c1[n][q] = IF c[n][q] = z THEN x ELSE c[n][q]
    /\ \A n \in H \ {z} : p1[n] = IF n = x THEN p[z] ELSE p[n]

CutSub(H, z, sub) == [n \in (H \ {z}) \cup {Nil} |-> sub[n] \ {z}]

(* A node with one child, or none, can be cut out.                         *)
LEMMA CutShape ==
    ASSUME TreeFit, NEW H, NEW r, NEW c, NEW p, NEW sub, Shape(H, r, c, p, sub),
           NEW z, NEW x, NEW t, NEW r1, NEW c1, NEW p1,
           Cut(H, z, x, t, r, c, p, r1, c1, p1)
    PROVE  Shape(H \ {z}, r1, c1, p1, CutSub(H, z, sub))
  <1>1. PICK sub1, H1 : sub1 = CutSub(H, z, sub) /\ H1 = H \ {z}
    OBVIOUS
  <1>2. /\ Nil \notin H /\ H \subseteq Nodes /\ r \in H \cup {Nil} /\ (r = Nil => H = {})
        /\ sub[Nil] = {} /\ sub[r] = H /\ (r # Nil => p[r] = Nil)
        /\ \A n \in H \cup {Nil} : sub[n] \subseteq H /\ Nil \notin sub[n]
    BY ShapeFacts
  <1>3. /\ \A n \in H : n \in sub[n] /\ p[n] \in H \cup {Nil}
        /\ \A n \in H : n # r => p[n] \in H /\ \E q \in Sides : c[p[n]][q] = n
        /\ \A n \in H : \A u \in sub[n] : sub[u] \subseteq sub[n] /\ (u # n => p[u] \in sub[n])
        /\ \A n \in H, q \in Sides : /\ c[n][q] \in H \cup {Nil}
                                     /\ c[n][q] # Nil => p[c[n][q]] = n
                                     /\ n \notin sub[c[n][q]]
    BY ShapeFacts
  <1>4. /\ z \in H /\ z # Nil /\ x \in H \cup {Nil} /\ x # z /\ sub[z] = {z} \cup sub[x]
        /\ z \notin sub[x] /\ (x # Nil => p[x] = z)
        /\ \A q \in Sides : c[z][q] = x \/ c[z][q] = Nil
        /\ \E q \in Sides : c[z][q] = x
        /\ r1 = IF r = z THEN x ELSE r
    <2>1. z \in H /\ t \in Sides /\ c[z][t] = Nil /\ x = c[z][Other(t)]
          /\ r1 = IF r = z THEN x ELSE r
      BY DEF Cut
    <2>2. Other(t) \in Sides /\ \A q \in Sides : q = t \/ q = Other(t)
      BY <2>1, TwoSides
    <2>3. sub[z] = {z} \cup sub[c[z][t]] \cup sub[c[z][Other(t)]]
      BY <2>1 DEF Shape, Family
    <2>4. x # z
      BY <1>2, <1>3, <2>1, <2>2
    <2> QED
      BY <1>2, <1>3, <2>1, <2>2, <2>3, <2>4
  <1>5. \A n \in H1 : \A q \in Sides : c1[n][q] = IF c[n][q] = z THEN x ELSE c[n][q]
    BY <1>1 DEF Cut
  <1>6. \A n \in H1 : n \in H /\ n # z /\ p1[n] = IF n = x THEN p[z] ELSE p[n]
    BY <1>1 DEF Cut
  <1>7. \A n \in H1 \cup {Nil} : sub1[n] = sub[n] \ {z}
    BY <1>1 DEF CutSub
  <1>8. sub1 \in [H1 \cup {Nil} -> SUBSET H1]
    <2>1. ASSUME NEW n \in H1 \cup {Nil} PROVE sub1[n] \subseteq H1
      BY <1>1, <1>2, <1>6, <1>7
    <2>2. sub1 = [n \in H1 \cup {Nil} |-> sub1[n]]
      BY <1>1 DEF CutSub
    <2> QED
      BY <2>1, <2>2
  <1>9. sub1[Nil] = {} /\ sub1[r1] = H1 /\ r1 \in H1 \cup {Nil} /\ (r1 # Nil => p1[r1] = Nil)
    <2>1. CASE r = z
      BY <2>1, <1>1, <1>2, <1>4, <1>6, <1>7
    <2>2. CASE r # z
      <3>1. r1 = r /\ r \in H1 /\ r # x
        BY <2>2, <1>1, <1>2, <1>4
      <3> QED
        BY <3>1, <1>1, <1>2, <1>6, <1>7
    <2> QED
      BY <2>1, <2>2
  <1>10. ASSUME NEW n \in H1, NEW q \in Sides
         PROVE  /\ c1[n][q] \in H1 \cup {Nil}
                /\ c1[n][q] # Nil => p1[c1[n][q]] = n
                /\ sub1[c1[n][q]] = sub[c[n][q]] \ {z}
    <2>1. PICK m : m = c[n][q]
      OBVIOUS
    <2>2. m \in H \cup {Nil} /\ (m # Nil => p[m] = n) /\ n \in H /\ n # z
      BY <2>1, <1>3, <1>6
    <2>3. CASE m = z
      <3>1. c1[n][q] = x /\ x \in H1 \cup {Nil} /\ (x # Nil => p1[x] = n)
        BY <2>1, <2>2, <2>3, <1>1, <1>4, <1>5, <1>6
      <3> QED
        BY <3>1, <2>1, <2>3, <1>4, <1>7
    <2>4. CASE m # z
      <3>1. c1[n][q] = m /\ m \in H1 \cup {Nil} /\ (m # Nil => m # x)
        BY <2>1, <2>2, <2>4, <1>1, <1>4, <1>5
      <3> QED
        BY <3>1, <2>1, <2>2, <1>6, <1>7
    <2> QED
      BY <2>3, <2>4
  <1>11. ASSUME NEW n \in H1 PROVE Family(H1, c1, p1, sub1, n)
    <2>1. n \in H /\ n # z /\ sub1[n] = sub[n] \ {z}
      BY <1>6, <1>7
    <2>2. ASSUME NEW q \in Sides
          PROVE  /\ n \notin sub[c[n][q]]
                 /\ \A u \in sub[c[n][q]] : OnSide(q, u, n)
                 /\ sub[n] = {n} \cup sub[c[n][q]] \cup sub[c[n][Other(q)]]
                 /\ sub[c[n][q]] \cap sub[c[n][Other(q)]] = {}
                 /\ Other(q) \in Sides
      BY <2>1, TwoSides DEF Shape, Family
    <2>3. ASSUME NEW q \in Sides
          PROVE  /\ n \notin sub1[c1[n][q]]
                 /\ \A u \in sub1[c1[n][q]] : OnSide(q, u, n)
                 /\ sub1[n] = {n} \cup sub1[c1[n][q]] \cup sub1[c1[n][Other(q)]]
                 /\ sub1[c1[n][q]] \cap sub1[c1[n][Other(q)]] = {}
      <3>1. PICK A, B : A = sub[c[n][q]] /\ B = sub[c[n][Other(q)]]
        OBVIOUS
      <3>2. sub1[c1[n][q]] = A \ {z} /\ sub1[c1[n][Other(q)]] = B \ {z}
        BY <3>1, <2>2, <1>10
      <3>3. /\ n \notin A /\ (\A u \in A : OnSide(q, u, n)) /\ sub[n] = {n} \cup A \cup B
            /\ A \cap B = {}
        BY <3>1, <2>2
      <3> QED
        BY <3>2, <3>3, <2>1
    <2> QED
      BY <2>3, <1>10 DEF Family
  <1>12. ASSUME NEW n \in H1
         PROVE  p1[n] \in H1 \cup {Nil} /\ (n # r1 => p1[n] \in H1 /\ \E q \in Sides : c1[p1[n]][q] = n)
    <2>1. CASE n = x
      <3>1. p1[n] = p[z] /\ p[z] \in H \cup {Nil}
        BY <2>1, <1>3, <1>4, <1>6
      <3>2. CASE r = z
        BY <2>1, <3>1, <3>2, <1>1, <1>2, <1>4
      <3>3. CASE r # z
        <4>1. PICK q \in Sides : c[p[z]][q] = z /\ p[z] \in H
          BY <3>3, <1>3, <1>4
        <4>2. p[z] # z
          BY <4>1, <1>3, <1>4
        <4> QED
          BY <2>1, <3>1, <4>1, <4>2, <1>1, <1>5
      <3> QED
        BY <3>2, <3>3
    <2>2. CASE n # x
      <3>1. n \in H /\ n # z /\ p1[n] = p[n] /\ p[n] \in H \cup {Nil}
        BY <2>2, <1>3, <1>6
      <3>2. n # r => p[n] \in H /\ \E q \in Sides : c[p[n]][q] = n
        BY <3>1, <1>3
      <3>3. n # r => p[n] # z
        BY <3>1, <3>2, <2>2, <1>2, <1>4
      <3>4. n # r => \E q \in Sides : c1[p[n]][q] = n
        BY <3>1, <3>2, <3>3, <1>1, <1>5
      <3>5. n = r => p[n] = Nil /\ n = r1
        BY <3>1, <1>2, <1>4
      <3> QED
        BY <3>1, <3>2, <3>3, <3>4, <3>5, <1>1
    <2> QED
      BY <2>1, <2>2
  <1>13. ASSUME NEW n \in H1, NEW u \in sub1[n]
         PROVE  sub1[u] \subseteq sub1[n] /\ (u # n => p1[u] \in sub1[n])
    <2>1. n \in H /\ u \in sub[n] /\ u # z /\ u \in H1 /\ n # z /\ sub1[n] = sub[n] \ {z}
          /\ sub1[u] = sub[u] \ {z}
      BY <1>6, <1>7, <1>8
    <2>2. sub[u] \subseteq sub[n] /\ (u # n => p[u] \in sub[n])
      BY <2>1, <1>3
    <2>3. ASSUME u # n PROVE p1[u] \in sub1[n]
      <3>1. CASE u = x
        <4>1. p[x] = z /\ z \in sub[n]
          BY <3>1, <2>1, <2>2, <2>3, <1>2, <1>4
        <4>2. p[z] \in sub[n] /\ p[z] \in H \cup {Nil}
          BY <4>1, <2>1, <1>3, <1>4
        <4>3. p[z] # z
          <5>1. z # r => p[z] \in H /\ \E q \in Sides : c[p[z]][q] = z
            BY <1>3, <1>4
          <5> QED
            BY <5>1, <1>2, <1>3, <1>4
        <4> QED
          BY <3>1, <4>2, <4>3, <2>1, <1>6
      <3>2. CASE u # x
        <4>1. p1[u] = p[u] /\ u \in H /\ p[u] \in sub[n]
          BY <3>2, <2>1, <2>2, <2>3, <1>6
        <4>2. p[u] # z
          <5>1. u # r => p[u] \in H /\ \E q \in Sides : c[p[u]][q] = u
            BY <4>1, <1>3
          <5> QED
            BY <5>1, <4>1, <3>2, <1>2, <1>4
        <4> QED
          BY <4>1, <4>2, <2>1
      <3> QED
        BY <3>1, <3>2
    <2> QED
      BY <2>1, <2>2, <2>3
  <1>14. Shape(H1, r1, c1, p1, sub1)
    <2>1. H1 \subseteq Nodes
      BY <1>1, <1>2
    <2> QED
      BY <2>1, <1>8, <1>9, <1>11, <1>12, <1>13 DEF Shape
  <1> QED
    BY <1>1, <1>14

-----------------------------------------------------------------------------
(* y, which is not in the tree, takes the place of z.                      *)
TakesPlace(H, z, y, r, c, p, r1, c1, p1) ==
    /\ z \in H /\ y \in Nodes \ H
    /\ r1 = IF r = z THEN y ELSE r
    /\ \A q \in Sides : c1[y][q] = c[z][q]
    /\ \A n \in H \ {z} : \A q \in Sides : c1[n][q] = IF c[n][q] = z THEN y ELSE c[n][q]
    /\ p1[y] = p[z] /\ \A n \in H \ {z} : p1[n] = IF p[n] = z THEN y ELSE p[n]

(* ... and its key fits there.                                             *)
Fits(H, z, y, c, sub) ==
    \A q \in Sides : /\ \A u \in sub[c[z][q]] : OnSide(q, u, y)
                     /\ \A n \in H : z \in sub[c[n][q]] => OnSide(q, y, n)

Exchanged(S, z, y) == IF z \in S THEN (S \ {z}) \cup {y} ELSE S

ReplacedSub(H, z, y, sub) ==
    [n \in ((H \ {z}) \cup {y}) \cup {Nil} |-> Exchanged(sub[IF n = y THEN z ELSE n], z, y)]

(* A node that fits can stand where another stood.                         *)
LEMMA ReplaceShape ==
    ASSUME TreeFit, NEW H, NEW r, NEW c, NEW p, NEW sub, Shape(H, r, c, p, sub),
           NEW z, NEW y, NEW r1, NEW c1, NEW p1,
           TakesPlace(H, z, y, r, c, p, r1, c1, p1), Fits(H, z, y, c, sub)
    PROVE  Shape((H \ {z}) \cup {y}, r1, c1, p1, ReplacedSub(H, z, y, sub))
  <1>1. PICK sub1, H1 : sub1 = ReplacedSub(H, z, y, sub) /\ H1 = (H \ {z}) \cup {y}
    OBVIOUS
  <1>2. /\ Nil \notin H /\ H \subseteq Nodes /\ r \in H \cup {Nil} /\ (r = Nil => H = {})
        /\ sub[Nil] = {} /\ sub[r] = H /\ (r # Nil => p[r] = Nil)
        /\ \A n \in H \cup {Nil} : sub[n] \subseteq H /\ Nil \notin sub[n]
    BY ShapeFacts
  <1>3. /\ \A n \in H : n \in sub[n] /\ p[n] \in H \cup {Nil}
        /\ \A n \in H : n # r => p[n] \in H /\ \E q \in Sides : c[p[n]][q] = n
        /\ \A n \in H : \A u \in sub[n] : sub[u] \subseteq sub[n] /\ (u # n => p[u] \in sub[n])
        /\ \A n \in H, q \in Sides : /\ c[n][q] \in H \cup {Nil}
                                     /\ c[n][q] # Nil => p[c[n][q]] = n
                                     /\ n \notin sub[c[n][q]]
    BY ShapeFacts
  <1>4. /\ z \in H /\ y \in Nodes /\ y \notin H /\ z # Nil /\ y # Nil /\ y # z
        /\ r1 = IF r = z THEN y ELSE r
    BY <1>2, NodesApart DEF TakesPlace
  <1>5. /\ \A q \in Sides : c1[y][q] = c[z][q]
        /\ \A n \in H : n # z =>
              \A q \in Sides : c1[n][q] = IF c[n][q] = z THEN y ELSE c[n][q]
        /\ p1[y] = p[z] /\ \A n \in H : n # z => p1[n] = IF p[n] = z THEN y ELSE p[n]
    BY DEF TakesPlace
  <1>6. ASSUME NEW n \in H PROVE p[n] # n
    <2>1. n # r => p[n] \in H /\ \E q \in Sides : c[p[n]][q] = n
      BY <1>3
    <2> QED
      BY <2>1, <1>2, <1>3
  <1>7. /\ sub1[y] = (sub[z] \ {z}) \cup {y} /\ sub1[Nil] = {}
        /\ \A n \in H : n # z => sub1[n] = Exchanged(sub[n], z, y)
        /\ \A n \in H1 : n = y \/ (n \in H /\ n # z)
    BY <1>1, <1>2, <1>3, <1>4 DEF ReplacedSub, Exchanged
  <1>8. sub1 \in [H1 \cup {Nil} -> SUBSET H1]
    <2>1. \A S \in SUBSET H : Exchanged(S, z, y) \subseteq H1
      BY <1>1, <1>4 DEF Exchanged
    <2>2. ASSUME NEW n \in H1 \cup {Nil} PROVE sub1[n] \subseteq H1
      <3>1. CASE n = y
        <4>1. sub[z] \subseteq H
          BY <1>2, <1>4
        <4> QED
          BY <3>1, <4>1, <1>1, <1>7
      <3>2. CASE n = Nil
        BY <3>2, <1>7
      <3>3. CASE n \in H /\ n # z
        BY <3>3, <2>1, <1>2, <1>7
      <3> QED
        BY <3>1, <3>2, <3>3, <1>1
    <2>3. sub1 = [n \in H1 \cup {Nil} |-> sub1[n]]
      BY <1>1 DEF ReplacedSub
    <2> QED
      BY <2>2, <2>3
  <1>9. sub1[r1] = H1 /\ r1 \in H1 \cup {Nil} /\ (r1 # Nil => p1[r1] = Nil)
    <2>1. CASE r = z
      BY <2>1, <1>1, <1>2, <1>4, <1>5, <1>7
    <2>2. CASE r # z
      <3>1. r1 = r /\ r \in H /\ z \in sub[r]
        BY <2>2, <1>2, <1>4
      <3>2. sub1[r] = H1
        BY <3>1, <2>2, <1>1, <1>2, <1>7 DEF Exchanged
      <3> QED
        BY <3>1, <3>2, <2>2, <1>1, <1>2, <1>4, <1>5
    <2> QED
      BY <2>1, <2>2
  <1>10. ASSUME NEW n \in H1, NEW q \in Sides, NEW m \in H, m = IF n = y THEN z ELSE n
         PROVE  /\ c1[n][q] \in H1 \cup {Nil}
                /\ c1[n][q] # Nil => p1[c1[n][q]] = n
                /\ sub1[c1[n][q]] = Exchanged(sub[c[m][q]], z, y)
                /\ c1[n][q] = IF c[m][q] = z THEN y ELSE c[m][q]
    <2>1. PICK k : k = c[m][q]
      OBVIOUS
    <2>2. k \in H \cup {Nil} /\ (k # Nil => p[k] = m)
      BY <2>1, <1>3, <1>10
    <2>3. c1[n][q] = IF k = z THEN y ELSE k
      BY <2>1, <2>2, <1>4, <1>5, <1>6, <1>7, <1>10
    <2>4. CASE k = z
      BY <2>1, <2>2, <2>3, <2>4, <1>1, <1>3, <1>4, <1>5, <1>6, <1>7, <1>10 DEF Exchanged
    <2>5. CASE k = Nil
      BY <2>1, <2>3, <2>5, <1>1, <1>2, <1>4, <1>7 DEF Exchanged
    <2>6. CASE k \in H /\ k # z
      <3>1. c1[n][q] = k /\ k \in H1 /\ sub1[k] = Exchanged(sub[k], z, y)
        BY <2>3, <2>6, <1>1, <1>7
      <3>2. p1[k] = n
        BY <2>2, <2>6, <1>2, <1>4, <1>5, <1>7, <1>10
      <3> QED
        BY <2>1, <2>6, <3>1, <3>2
    <2> QED
      BY <2>2, <2>4, <2>5, <2>6
  <1>11. ASSUME NEW n \in H1 PROVE Family(H1, c1, p1, sub1, n)
    <2>1. PICK m \in H : m = IF n = y THEN z ELSE n
      BY <1>4, <1>7
    <2>2. ASSUME NEW q \in Sides
          PROVE  /\ m \notin sub[c[m][q]]
                 /\ \A u \in sub[c[m][q]] : OnSide(q, u, m)
                 /\ sub[m] = {m} \cup sub[c[m][q]] \cup sub[c[m][Other(q)]]
                 /\ sub[c[m][q]] \cap sub[c[m][Other(q)]] = {}
                 /\ Other(q) \in Sides /\ y \notin sub[c[m][q]]
      <3>1. y \notin sub[c[m][q]]
        BY <1>2, <1>3, <1>4
      <3> QED
        BY <3>1, TwoSides DEF Shape, Family
    <2>3. ASSUME NEW q \in Sides, NEW u \in sub1[c1[n][q]] PROVE OnSide(q, u, n)
      <3>1. u \in Exchanged(sub[c[m][q]], z, y)
        BY <2>1, <2>3, <1>10
      <3>2. CASE n = y
        <4>1. m = z /\ u \in sub[c[z][q]]
          BY <3>1, <3>2, <2>1, <2>2 DEF Exchanged
        <4> QED
          BY <3>2, <4>1 DEF Fits
      <3>3. CASE n # y /\ u = y
        <4>1. m = n /\ z \in sub[c[m][q]]
          BY <3>1, <3>3, <2>1, <2>2 DEF Exchanged
        <4> QED
          BY <3>3, <4>1, <2>1 DEF Fits
      <3>4. CASE n # y /\ u # y
        <4>1. m = n /\ u \in sub[c[m][q]]
          BY <3>1, <3>4, <2>1 DEF Exchanged
        <4> QED
          BY <4>1, <2>2
      <3> QED
        BY <3>2, <3>3, <3>4
    <2>4. ASSUME NEW q \in Sides
          PROVE  /\ n \notin sub1[c1[n][q]]
                 /\ sub1[n] = {n} \cup sub1[c1[n][q]] \cup sub1[c1[n][Other(q)]]
                 /\ sub1[c1[n][q]] \cap sub1[c1[n][Other(q)]] = {}
      <3>1. PICK A, B : A = sub[c[m][q]] /\ B = sub[c[m][Other(q)]]
        OBVIOUS
      <3>2. sub1[c1[n][q]] = Exchanged(A, z, y) /\ sub1[c1[n][Other(q)]] = Exchanged(B, z, y)
        BY <3>1, <2>1, <2>2, <1>10
      <3>3. /\ m \notin A /\ m \notin B /\ y \notin A /\ y \notin B
            /\ sub[m] = {m} \cup A \cup B /\ A \cap B = {}
        BY <3>1, <2>2
      <3>4. CASE n = y
        <4>1. m = z /\ Exchanged(A, z, y) = A /\ Exchanged(B, z, y) = B
              /\ sub1[n] = (sub[z] \ {z}) \cup {y}
          BY <3>3, <3>4, <2>1, <1>7 DEF Exchanged
        <4> QED
          BY <3>2, <3>3, <3>4, <4>1
      <3>5. CASE n # y
        <4>1. m = n /\ n # z /\ sub1[n] = Exchanged(sub[n], z, y)
          BY <3>5, <2>1, <1>7
        <4>2. n \notin Exchanged(A, z, y) /\ Exchanged(A, z, y) \cap Exchanged(B, z, y) = {}
          BY <3>3, <3>5, <4>1 DEF Exchanged
        <4>3. Exchanged(sub[n], z, y) = {n} \cup Exchanged(A, z, y) \cup Exchanged(B, z, y)
          BY <3>3, <3>5, <4>1 DEF Exchanged
        <4> QED
          BY <3>2, <4>1, <4>2, <4>3
      <3> QED
        BY <3>4, <3>5
    <2>5. ASSUME NEW q \in Sides
          PROVE  c1[n][q] \in H1 \cup {Nil} /\ (c1[n][q] # Nil => p1[c1[n][q]] = n)
      BY <2>1, <1>10
    <2> QED
      BY <2>3, <2>4, <2>5 DEF Family
  <1>12. ASSUME NEW n \in H1
         PROVE  p1[n] \in H1 \cup {Nil} /\ (n # r1 => p1[n] \in H1 /\ \E q \in Sides : c1[p1[n]][q] = n)
    <2>1. PICK m \in H : m = IF n = y THEN z ELSE n
      BY <1>4, <1>7
    <2>2. p1[n] = IF p[m] = z THEN y ELSE p[m]
      BY <2>1, <1>3, <1>4, <1>5, <1>6, <1>7
    <2>3. p[m] \in H \cup {Nil}
      BY <1>3
    <2>4. ASSUME n # r1 PROVE p1[n] \in H1 /\ \E q \in Sides : c1[p1[n]][q] = n
      <3>1. m # r
        BY <2>1, <2>4, <1>4, <1>7
      <3>2. PICK q \in Sides : c[p[m]][q] = m /\ p[m] \in H
        BY <3>1, <1>3
      <3>3. p1[n] \in H1 /\ p[m] = IF p1[n] = y THEN z ELSE p1[n]
        BY <2>2, <3>2, <1>1, <1>4
      <3>4. c1[p1[n]][q] = IF m = z THEN y ELSE m
        BY <3>2, <3>3, <1>10
      <3> QED
        BY <3>3, <3>4, <2>1, <1>7, <1>4
    <2> QED
      BY <2>2, <2>3, <2>4, <1>1
  <1>13. ASSUME NEW n \in H1, NEW u \in sub1[n]
         PROVE  sub1[u] \subseteq sub1[n] /\ (u # n => p1[u] \in sub1[n])
    <2>1. PICK m \in H : m = IF n = y THEN z ELSE n
      BY <1>4, <1>7
    <2>2. u \in H1
      BY <1>8
    <2>3. PICK k \in H : k = IF u = y THEN z ELSE u
      BY <2>2, <1>4, <1>7
    <2>4. sub1[n] = Exchanged(sub[m], z, y) /\ sub1[u] = Exchanged(sub[k], z, y)
      <3>1. sub1[y] = Exchanged(sub[z], z, y)
        BY <1>3, <1>4, <1>7 DEF Exchanged
      <3> QED
        BY <3>1, <2>1, <2>2, <2>3, <1>7
    <2>5. y \notin sub[m] /\ y \notin sub[k]
      BY <1>2, <1>4
    <2>6. k \in sub[m]
      BY <2>3, <2>4, <2>5 DEF Exchanged
    <2>7. sub[k] \subseteq sub[m] /\ (k # m => p[k] \in sub[m])
      BY <2>6, <1>3
    <2>8. sub1[u] \subseteq sub1[n]
      BY <2>4, <2>5, <2>7 DEF Exchanged
    <2>9. u # n => p1[u] \in sub1[n]
      <3>1. p1[u] = IF p[k] = z THEN y ELSE p[k]
        BY <2>3, <2>2, <1>3, <1>4, <1>5, <1>6, <1>7
      <3>2. u # n => k # m
        BY <2>1, <2>2, <2>3, <1>4, <1>7
      <3> QED
        BY <3>1, <3>2, <2>4, <2>7 DEF Exchanged
    <2> QED
      BY <2>8, <2>9
  <1>14. Shape(H1, r1, c1, p1, sub1)
    <2>1. H1 \subseteq Nodes
      BY <1>1, <1>2, <1>4
    <2> QED
      BY <2>1, <1>7, <1>8, <1>9, <1>11, <1>12, <1>13 DEF Shape
  <1> QED
    BY <1>1, <1>14

-----------------------------------------------------------------------------
(* The colours: d says which nodes are red, h gives the black nodes on the *)
(* way down from each. A call that is under way leaves one black node too  *)
(* few below one link (at, sd), or a red node under a red one (lo, hi).    *)

Unit(b) == IF b THEN 1 ELSE 0

(* h counts the black nodes on every way down from a node, one more where  *)
(* the child of at on the side sd lacks one.  Red nodes touch only where   *)
(* the lower one is in lo, or the upper one in hi.                         *)
Even(c, d, h, at, sd, n) ==
    \A q \in Sides : h[n] = h[c[n][q]] + Unit(n = at /\ q = sd) + Unit(~ d[n])

(* A red node has no red child, unless the child is in lo or the node in   *)
(* hi.                                                                     *)
Parted(c, d, lo, hi, n) ==
    \A q \in Sides : d[n] /\ d[c[n][q]] => c[n][q] \in lo \/ n \in hi

(* The colours are right but for that.                                     *)
Coloured(H, r, c, d, h, at, sd, lo, hi) ==
    /\ ~ d[Nil] /\ h[Nil] = 1
    /\ \A n \in H : h[n] \in Nat \ {0}
    /\ \A n \in H : Even(c, d, h, at, sd, n) /\ Parted(c, d, lo, hi, n)
    /\ d[r] => r \in lo

(* Colours and heights are the same for all but the nodes K.               *)
Elsewhere(H, K, d, h, d1, h1) ==
    \A n \in H \cup {Nil} : n \notin K \ {Nil} => d1[n] = d[n] /\ h1[n] = h[n]

(* A turn that recolours at most x, y and e changes nothing elsewhere, when*)
(* the subtree is as high as before.                                       *)
LEMMA TurnOthers ==
    ASSUME TreeFit, NEW H, NEW r, NEW c, NEW p, NEW sub, Shape(H, r, c, p, sub),
           NEW x, NEW y, NEW b, NEW s, NEW r1, NEW c1, NEW p1,
           Turned(H, x, y, b, s, r, c, p, r1, c1, p1),
           NEW d, NEW h, NEW at, NEW sd, NEW lo, NEW hi,
           Coloured(H, r, c, d, h, at, sd, lo, hi),
           NEW d1, NEW h1, NEW K, {x, y} \subseteq K, K \subseteq {x, y, c[y][Other(s)]},
           Elsewhere(H, K, d, h, d1, h1), h1[y] = h[x]
    PROVE  \A n \in H \ K :
               /\ Even(c1, d1, h1, at, sd, n)
               /\ \A q \in Sides : c[n][q] # x => c1[n][q] = c[n][q]
               /\ (\A q \in Sides : c[n][q] = x => ~ d1[n] \/ ~ d1[y]) => Parted(c1, d1, lo, hi, n)
  <1>1. /\ x \in H /\ s \in Sides /\ y = c[x][Other(s)] /\ y # Nil /\ Other(s) \in Sides
        /\ Nil \notin H
    BY NodesApart, TwoSides DEF Turned, Shape
  <1>2. y \in H /\ p[y] = x /\ x # y
    BY <1>1, OneParent
  <1>3. \A e \in K \ {Nil, x, y} : p[e] = y /\ e \in H
    BY <1>1, <1>2 DEF Shape, Family
  <1> SUFFICES ASSUME NEW n \in H, n \notin K
               PROVE  /\ Even(c1, d1, h1, at, sd, n)
                      /\ \A q \in Sides :
                            c[n][q] # x => c1[n][q] = c[n][q]
                      /\ (\A q \in Sides : c[n][q] = x => ~ d1[n] \/ ~ d1[y]) => Parted(c1, d1, lo, hi, n)
    OBVIOUS
  <1>4. ASSUME NEW q \in Sides
        PROVE  /\ c[n][q] # x => c1[n][q] = c[n][q] /\ (c1[n][q] \notin K \/ c1[n][q] = Nil)
               /\ c[n][q] = x => c1[n][q] = y
               /\ c[n][q] \in H \cup {Nil}
    <2>1. PICK m : m = c[n][q]
      OBVIOUS
    <2>2. m \in H \cup {Nil} /\ (m # Nil => p[m] = n)
      BY <2>1 DEF Shape, Family
    <2>3. c1[n][q] = IF m = x THEN y ELSE m
      BY <2>1, <1>1 DEF Turned
    <2> QED
      BY <2>1, <2>2, <2>3, <1>2, <1>3
  <1>5. /\ d1[n] = d[n] /\ h1[n] = h[n] /\ d1[Nil] = d[Nil] /\ h1[Nil] = h[Nil]
        /\ \A k \in H \cup {Nil} : k \notin K => d1[k] = d[k] /\ h1[k] = h[k]
    BY DEF Elsewhere
  <1>6. ASSUME NEW q \in Sides PROVE h1[c1[n][q]] = h[c[n][q]]
    BY <1>1, <1>4, <1>5
  <1>7. Even(c1, d1, h1, at, sd, n)
    <2>1. Even(c, d, h, at, sd, n)
      BY DEF Coloured
    <2> QED
      BY <2>1, <1>5, <1>6 DEF Even
  <1>8. ASSUME \A q \in Sides : c[n][q] = x => ~ d1[n] \/ ~ d1[y] PROVE Parted(c1, d1, lo, hi, n)
    <2>1. Parted(c, d, lo, hi, n)
      BY DEF Coloured
    <2>2. ASSUME NEW q \in Sides, d1[n], d1[c1[n][q]] PROVE c1[n][q] \in lo \/ n \in hi
      <3>1. c1[n][q] = c[n][q] /\ d[c[n][q]]
        BY <1>1, <1>4, <1>5, <1>8, <2>2
      <3> QED
        BY <3>1, <2>1, <2>2, <1>5 DEF Parted
    <2> QED
      BY <2>2 DEF Parted
  <1> QED
    BY <1>4, <1>7, <1>8

(* The nodes a turn is about, before and after it.                         *)
LEMMA TurnFacts ==
    ASSUME TreeFit, NEW H, NEW r, NEW c, NEW p, NEW sub, Shape(H, r, c, p, sub),
           NEW x, NEW y, NEW b, NEW s, NEW r1, NEW c1, NEW p1,
           Turned(H, x, y, b, s, r, c, p, r1, c1, p1)
    PROVE  \E f \in Sides, a, e \in H \cup {Nil} :
               /\ s \in Sides /\ f = Other(s) /\ f # s /\ \A q \in Sides : q = s \/ q = f
               /\ Nil \notin H /\ x \in H /\ y \in H /\ x # y /\ b \in H \cup {Nil}
               /\ c[x][s] = a /\ c[x][f] = y /\ c[y][s] = b /\ c[y][f] = e
               /\ c1[x][s] = a /\ c1[x][f] = b /\ c1[y][s] = x /\ c1[y][f] = e
               /\ a \notin {x, y} /\ b \notin {x, y} /\ e \notin {x, y}
               /\ (a = b \/ a = e \/ b = e) => a = Nil \/ b = Nil \/ e = Nil
               /\ p[y] = x /\ y # r /\ p[x] \notin {y, e} \ {Nil} /\ r1 = IF r = x THEN y ELSE r
               /\ \A n \in H, q \in Sides : /\ c[n][q] = y => n = x /\ q = f
                                            /\ c[n][q] = e /\ e # Nil => n = y /\ q = f
  <1>1. PICK f, a, e : f = Other(s) /\ a = c[x][s] /\ e = c[y][f]
    OBVIOUS
  <1>2. /\ s \in Sides /\ f \in Sides /\ s # f /\ Other(f) = s
        /\ \A q \in Sides : q = s \/ q = f
    BY <1>1, TwoSides DEF Turned
  <1>3. /\ x \in H /\ y = c[x][f] /\ y # Nil /\ b = c[y][s] /\ Nil \notin H
    BY <1>1, NodesApart DEF Turned, Shape
  <1>4. /\ y \in H /\ p[y] = x /\ x # y /\ y # r /\ a # y
        /\ \A n \in H, q \in Sides : c[n][q] = y => n = x /\ q = f
    BY <1>1, <1>2, <1>3, OneParent
  <1>5. \A n \in H, q \in Sides : /\ c[n][q] \in H \cup {Nil} /\ c[n][q] # n
                                  /\ c[n][q] # Nil => p[c[n][q]] = n
    BY <1>3, OneParent, ShapeFacts
  <1>6. /\ a \in H \cup {Nil} /\ b \in H \cup {Nil} /\ e \in H \cup {Nil}
        /\ a # x /\ b # y /\ e # y /\ (a # Nil => p[a] = x) /\ (b # Nil => p[b] = y)
        /\ (e # Nil => p[e] = y)
    <2>1. x \in H /\ y \in H /\ s \in Sides /\ f \in Sides
      BY <1>2, <1>3, <1>4
    <2>2. c[x][s] \in H \cup {Nil} /\ c[x][s] # x /\ (c[x][s] # Nil => p[c[x][s]] = x)
      BY <2>1, <1>5
    <2>3. c[y][s] \in H \cup {Nil} /\ c[y][s] # y /\ (c[y][s] # Nil => p[c[y][s]] = y)
      BY <2>1, <1>5
    <2>4. c[y][f] \in H \cup {Nil} /\ c[y][f] # y /\ (c[y][f] # Nil => p[c[y][f]] = y)
      BY <2>1, <1>5
    <2> QED
      BY <2>2, <2>3, <2>4, <1>1, <1>3
  <1>7. p[x] # y
    <2>1. ASSUME p[x] = y PROVE FALSE
      <3>1. \E q \in Sides : c[y][q] = x
        BY <2>1, <1>3, <1>4, ParentKnows
      <3>2. /\ x \in sub[x] /\ y \in sub[y] /\ x \notin sub[y]
        BY <1>2, <1>3, <1>4 DEF Shape, Family
      <3> QED
        BY <3>1, <3>2, <1>4 DEF Shape, Family
    <2> QED
      BY <2>1
  <1>8. b # x /\ e # x
    BY <1>3, <1>6, <1>7
  <1>15. p[x] = e => e = Nil
    <2>1. ASSUME p[x] = e, e # Nil PROVE FALSE
      <3>1. e \in H /\ x \in sub[e]
        <4>1. \E q \in Sides : c[e][q] = x
          BY <2>1, <1>3, ParentKnows
        <4>2. e \in H /\ x \in sub[x]
          BY <2>1, <1>3, <1>6 DEF Shape, Family
        <4> QED
          BY <4>1, <4>2 DEF Shape, Family
      <3>2. e \in sub[y]
        BY <3>1, <1>1, <1>2, <1>4 DEF Shape, Family
      <3>3. sub[e] \subseteq sub[y] /\ x \notin sub[y]
        BY <3>2, <1>2, <1>3, <1>4 DEF Shape, Family
      <3> QED
        BY <3>1, <3>3
    <2> QED
      BY <2>1
  <1>9. \A n \in H, q \in Sides : c[n][q] = e /\ e # Nil => n = y /\ q = f
    BY <1>1, <1>2, <1>4, OneParent
  <1>10. b = e => b = Nil
    BY <1>2, <1>3, <1>4, <1>9
  <1>11. c1[x][s] = a /\ c1[x][f] = b /\ c1[y][s] = x /\ c1[y][f] = e
    BY <1>1, <1>2, <1>3, <1>4, <1>6, <1>8 DEF Turned
  <1>12. r1 = IF r = x THEN y ELSE r
    BY DEF Turned
  <1>13. (a = b \/ a = e \/ b = e) => a = Nil \/ b = Nil \/ e = Nil
    BY <1>4, <1>6, <1>10
  <1>14. c[x][s] = a /\ c[x][f] = y /\ c[y][s] = b /\ c[y][f] = e
    BY <1>1, <1>3
  <1> QED
    BY <1>1, <1>2, <1>3, <1>4, <1>6, <1>7, <1>8, <1>9, <1>11, <1>12, <1>13, <1>14, <1>15

-----------------------------------------------------------------------------
(* A red node is neither the root nor the sentinel, unless lo says so; the *)
(* same of its parent.                                                     *)
LEMMA RedParent ==
    ASSUME TreeFit, NEW H, NEW r, NEW c, NEW p, NEW sub, Shape(H, r, c, p, sub),
           NEW d, NEW h, NEW sd, NEW z \in H, Coloured(H, r, c, d, h, Nil, sd, {z}, {}), d[p[z]]
    PROVE  /\ p[z] \in H /\ p[z] # z /\ p[p[z]] \in H /\ p[p[z]] \notin {p[z], z} /\ ~ d[p[p[z]]]
           /\ p[z] # r
  <1>1. ~ d[Nil] /\ (d[r] => r = z)
    BY DEF Coloured
  <1>2. p[z] # Nil
    BY <1>1
  <1>3. p[z] \in H /\ p[z] # z
    BY <1>2, ParentKnows
  <1>4. p[z] # r
    BY <1>1, <1>3
  <1>5. p[p[z]] \in H
    BY <1>3, <1>4 DEF Shape
  <1>6. p[p[z]] # p[z] /\ \E q \in Sides : c[p[p[z]]][q] = p[z]
    <2>1. p[p[z]] # Nil
      BY <1>5, ShapeFacts
    <2> QED
      BY <1>3, <2>1, ParentKnows
  <1>7. ~ d[p[p[z]]]
    <2>1. Parted(c, d, {z}, {}, p[p[z]])
      BY <1>5 DEF Coloured
    <2> QED
      BY <2>1, <1>3, <1>6 DEF Parted
  <1>8. p[p[z]] # z
    <2>1. z \in sub[z] /\ p[z] \in sub[p[z]]
      BY <1>3, ShapeFacts
    <2>2. PICK q \in Sides : c[p[p[z]]][q] = p[z]
      BY <1>6
    <2>3. PICK t \in Sides : c[p[z]][t] = z
      BY <1>2, ParentKnows
    <2>4. p[p[z]] \notin sub[p[z]] /\ z \in sub[p[z]]
      BY <1>3, <1>5, <2>1, <2>2, <2>3, TwoSides DEF Shape, Family
    <2> QED
      BY <2>4
  <1> QED
    BY <1>3, <1>4, <1>5, <1>6, <1>7, <1>8

(* One node is painted, and before it two are painted black.               *)
Painted(H, d, w, b, d1) == \A n \in H \cup {Nil} : d1[n] = IF n = w THEN b ELSE d[n]

(* Three nodes get new colours.                                            *)
Repainted(H, d, a, e, w, b, d1) ==
    \A n \in H \cup {Nil} : d1[n] = IF n = a \/ n = e THEN FALSE ELSE IF n = w THEN b ELSE d[n]

(* Case 1: the red pair moves up to the grandparent.                       *)
LEMMA InsertColours1 ==
    ASSUME TreeFit, NEW H, NEW r, NEW c, NEW p, NEW sub, Shape(H, r, c, p, sub),
           NEW d, NEW h, NEW sd, NEW z \in H, Coloured(H, r, c, d, h, Nil, sd, {z}, {}),
           NEW v, v = p[z], NEW g, g = p[v], NEW s \in Sides, c[g][s] = v,
           NEW u, u = c[g][Other(s)], d[v], d[u],
           NEW d1, Repainted(H, d, v, u, g, TRUE, d1)
    PROVE  \E h1 : Coloured(H, r, c, d1, h1, Nil, sd, {g}, {})
  <1> USE DEF Repainted
  <1>1. /\ v \in H /\ v # z /\ g \in H /\ g \notin {v, z} /\ ~ d[g] /\ Nil \notin H /\ v # r
    <2>1. d[p[z]]
      OBVIOUS
    <2>2. /\ p[z] \in H /\ p[z] # z /\ p[p[z]] \in H /\ p[p[z]] \notin {p[z], z} /\ ~ d[p[p[z]]]
          /\ p[z] # r
      BY <2>1, RedParent
    <2>3. Nil \notin H
      BY ShapeFacts
    <2> QED
      BY <2>2, <2>3
  <1>2. u # Nil /\ Other(s) \in Sides /\ ~ d[Nil] /\ h[Nil] = 1
    BY TwoSides DEF Coloured
  <1>3. /\ u \in H /\ u # g /\ u # v /\ u # r
        /\ \A n \in H, q \in Sides : /\ c[n][q] = v => n = g /\ q = s
                                     /\ c[n][q] = u => n = g /\ q = Other(s)
    BY <1>1, <1>2, OneParent
  <1>4. PICK h1 : h1 = [n \in H \cup {Nil} |-> IF n \in {v, u} THEN h[n] + 1 ELSE h[n]]
    OBVIOUS
  <1>5. /\ h1[v] = h[v] + 1 /\ h1[u] = h[u] + 1
        /\ \A n \in H \cup {Nil} : n \notin {v, u} => h1[n] = h[n]
        /\ d1[g] /\ ~ d1[v] /\ ~ d1[u]
        /\ \A n \in H \cup {Nil} : n \notin {v, u, g} => d1[n] = d[n]
    BY <1>1, <1>3, <1>4
  <1>6. \A n \in H \cup {Nil} : h[n] \in Nat \ {0}
    BY DEF Coloured
  <1>7. ASSUME NEW n \in H PROVE Even(c, d1, h1, Nil, sd, n) /\ Parted(c, d1, {g}, {}, n)
    <2>1. Even(c, d, h, Nil, sd, n) /\ Parted(c, d, {z}, {}, n)
      BY DEF Coloured
    <2>2. ASSUME NEW q \in Sides
          PROVE  c[n][q] \in H \cup {Nil} /\ c[n][q] # n
                 /\ h[n] = h[c[n][q]] + Unit(~ d[n])
      <3>1. h[n] = h[c[n][q]] + Unit(n = Nil /\ q = sd) + Unit(~ d[n])
        BY <2>1 DEF Even
      <3>2. c[n][q] \in H \cup {Nil}
        BY ShapeFacts
      <3>3. Unit(n = Nil /\ q = sd) = 0
        BY <1>1 DEF Unit
      <3>4. c[n][q] # n
        BY <1>1, <3>2, OneParent
      <3> QED
        BY <3>1, <3>2, <3>3, <3>4, <1>6 DEF Unit
    <2>3. CASE n = g
      <3>1. \A q \in Sides : c[g][q] \in {v, u}
        BY <1>3, TwoSides
      <3>2. ASSUME NEW q \in Sides PROVE h1[g] = h1[c[g][q]] + Unit(g = Nil /\ q = sd) + Unit(~ d1[g])
        <4>1. h[g] = h[c[g][q]] + 1
          BY <2>2, <2>3, <1>1 DEF Unit
        <4>2. h1[g] = h[g] /\ h1[c[g][q]] = h[c[g][q]] + 1
          BY <3>1, <1>1, <1>3, <1>5
        <4>3. h[c[g][q]] \in Nat
          BY <3>1, <1>1, <1>3, <1>6
        <4> QED
          BY <4>1, <4>2, <4>3, <1>1, <1>5 DEF Unit
      <3> QED
        BY <2>3, <3>1, <3>2, <1>5 DEF Even, Parted
    <2>4. CASE n \in {v, u}
      <3>1. d[n] /\ ~ d1[n] /\ h1[n] = h[n] + 1
        BY <2>4, <1>5
      <3>2. ASSUME NEW q \in Sides PROVE h1[c[n][q]] = h[c[n][q]]
        <4>1. c[n][q] \notin {v, u}
          BY <2>4, <1>1, <1>3
        <4> QED
          BY <4>1, <2>2, <1>5
      <3>3. ASSUME NEW q \in Sides
            PROVE  h1[n] = h1[c[n][q]] + Unit(n = Nil /\ q = sd) + Unit(~ d1[n])
        <4>1. h[n] = h[c[n][q]] /\ h[n] \in Nat
          BY <3>1, <2>2, <1>6 DEF Unit
        <4> QED
          BY <4>1, <3>1, <3>2, <1>1 DEF Unit
      <3> QED
        BY <3>1, <3>3 DEF Even, Parted
    <2>5. CASE n \notin {v, u, g}
      <3>1. d1[n] = d[n] /\ h1[n] = h[n]
        BY <2>5, <1>5
      <3>2. ASSUME NEW q \in Sides PROVE c[n][q] \notin {v, u}
        BY <2>5, <1>3
      <3>3. ASSUME NEW q \in Sides
            PROVE  h1[n] = h1[c[n][q]] + Unit(n = Nil /\ q = sd) + Unit(~ d1[n])
        BY <3>1, <3>2, <2>2, <1>1, <1>5, <1>6 DEF Unit
      <3>4. ASSUME NEW q \in Sides, d1[n], d1[c[n][q]] PROVE c[n][q] \in {g}
        <4>1. CASE c[n][q] = g
          BY <4>1
        <4>2. CASE c[n][q] # g
          <5>1. d[c[n][q]] /\ d[n]
            BY <4>2, <3>1, <3>2, <3>4, <2>2, <1>5
          <5>2. c[n][q] = z
            BY <5>1, <2>1 DEF Parted
          <5>3. n = v
            BY <5>2, <1>1 DEF Shape, Family
          <5> QED
            BY <5>3, <2>5
        <4> QED
          BY <4>1, <4>2
      <3> QED
        BY <3>3, <3>4 DEF Even, Parted
    <2> QED
      BY <2>3, <2>4, <2>5
  <1>8. /\ ~ d1[Nil] /\ h1[Nil] = 1
        /\ \A n \in H : h1[n] \in Nat \ {0}
    BY <1>1, <1>2, <1>3, <1>5, <1>6
  <1>9. d1[r] => r \in {g}
    <2>1. d[r] => r = z
      BY DEF Coloured
    <2>2. r \in H \cup {Nil} /\ p[z] = v /\ (r # Nil => p[r] = Nil)
      BY ShapeFacts
    <2> QED
      BY <2>1, <2>2, <1>1, <1>3, <1>5
  <1> QED
    BY <1>7, <1>8, <1>9 DEF Coloured

-----------------------------------------------------------------------------
(* What the cases of insertFixup do to the colours.                        *)

(* Case 2: a rotation at the parent turns an inner node into an outer one. *)
LEMMA InsertColours2 ==
    ASSUME TreeFit, NEW H, NEW r, NEW c, NEW p, NEW sub, Shape(H, r, c, p, sub),
           NEW d, NEW h, NEW sd, NEW z \in H, Coloured(H, r, c, d, h, Nil, sd, {z}, {}),
           NEW v, v = p[z], d[z], d[v],
           NEW b, NEW s, NEW r1, NEW c1, NEW p1, Turned(H, v, z, b, s, r, c, p, r1, c1, p1)
    PROVE  Coloured(H, r1, c1, d, h, Nil, sd, {v}, {})
  <1>1. /\ v \in H /\ v # z /\ p[v] \in H /\ ~ d[p[v]] /\ v # r
    <2>1. d[p[z]]
      OBVIOUS
    <2>2. p[z] \in H /\ p[z] # z /\ p[p[z]] \in H /\ ~ d[p[p[z]]] /\ p[z] # r
      BY <2>1, RedParent
    <2> QED
      BY <2>2
  <1>2. PICK f \in Sides : \E a, e \in H \cup {Nil} :
               /\ s \in Sides /\ f = Other(s) /\ f # s /\ \A q \in Sides : q = s \/ q = f
               /\ Nil \notin H /\ v \in H /\ z \in H /\ v # z /\ b \in H \cup {Nil}
               /\ c[v][s] = a /\ c[v][f] = z /\ c[z][s] = b /\ c[z][f] = e
               /\ c1[v][s] = a /\ c1[v][f] = b /\ c1[z][s] = v /\ c1[z][f] = e
               /\ a \notin {v, z} /\ b \notin {v, z} /\ e \notin {v, z}
               /\ p[z] = v /\ z # r /\ r1 = IF r = v THEN z ELSE r
    BY TurnFacts
  <1>3. PICK a, e \in H \cup {Nil} :
               /\ s \in Sides /\ f = Other(s) /\ f # s /\ \A q \in Sides : q = s \/ q = f
               /\ Nil \notin H /\ b \in H \cup {Nil}
               /\ c[v][s] = a /\ c[v][f] = z /\ c[z][s] = b /\ c[z][f] = e
               /\ c1[v][s] = a /\ c1[v][f] = b /\ c1[z][s] = v /\ c1[z][f] = e
               /\ a \notin {v, z} /\ b \notin {v, z} /\ e \notin {v, z}
               /\ z # r /\ r1 = IF r = v THEN z ELSE r
    BY <1>2
  <1>4. /\ ~ d[Nil] /\ h[Nil] = 1 /\ \A n \in H \cup {Nil} : h[n] \in Nat \ {0}
        /\ d[r] => r = z
    BY DEF Coloured
  <1>5. \A n \in H : Even(c, d, h, Nil, sd, n) /\ Parted(c, d, {z}, {}, n)
    BY DEF Coloured
  <1>6. \A q \in Sides : Unit(v = Nil /\ q = sd) = 0 /\ Unit(z = Nil /\ q = sd) = 0
    BY <1>1, <1>3 DEF Unit
  <1>7. h[v] = h[a] /\ h[v] = h[z] /\ h[z] = h[b] /\ h[z] = h[e]
    <2>1. Unit(~ d[v]) = 0 /\ Unit(~ d[z]) = 0
      BY DEF Unit
    <2>2. h[v] = h[a] + 0 + 0 /\ h[v] = h[z] + 0 + 0
      BY <2>1, <1>1, <1>3, <1>5, <1>6 DEF Even
    <2>3. h[z] = h[b] + 0 + 0 /\ h[z] = h[e] + 0 + 0
      BY <2>1, <1>3, <1>5, <1>6 DEF Even
    <2> QED
      BY <2>2, <2>3, <1>1, <1>3, <1>4
  <1>8. ~ d[a] /\ ~ d[b] /\ ~ d[e]
    BY <1>1, <1>3, <1>5 DEF Parted
  <1>9. c1[v][s] = a /\ c1[v][f] = b /\ c1[z][s] = v /\ c1[z][f] = e
    BY <1>3
  <1>10. Even(c1, d, h, Nil, sd, v) /\ Parted(c1, d, {v}, {}, v)
    <2>1. \A q \in Sides : h[c1[v][q]] = h[v] /\ ~ d[c1[v][q]]
      BY <1>3, <1>7, <1>8, <1>9
    <2> QED
      BY <2>1, <1>1, <1>4, <1>6 DEF Even, Parted, Unit
  <1>11. Even(c1, d, h, Nil, sd, z) /\ Parted(c1, d, {v}, {}, z)
    <2>1. \A q \in Sides : h[c1[z][q]] = h[z] /\ (d[c1[z][q]] => c1[z][q] = v)
      BY <1>3, <1>7, <1>8, <1>9
    <2> QED
      BY <2>1, <1>1, <1>4, <1>6 DEF Even, Parted, Unit
  <1>12. ASSUME NEW n \in H, n \notin {v, z}
         PROVE  Even(c1, d, h, Nil, sd, n) /\ Parted(c1, d, {v}, {}, n)
    <2>1. /\ Even(c1, d, h, Nil, sd, n)
          /\ \A q \in Sides : c[n][q] # v => c1[n][q] = c[n][q]
      <3>0. PICK K : K = {v, z}
        OBVIOUS
      <3>1. /\ {v, z} \subseteq K /\ K \subseteq {v, z, c[z][Other(s)]}
            /\ Elsewhere(H, K, d, h, d, h) /\ h[z] = h[v]
        BY <3>0, <1>7 DEF Elsewhere
      <3>2. \A k \in H \ K :
               /\ Even(c1, d, h, Nil, sd, k)
               /\ \A q \in Sides : c[k][q] # v => c1[k][q] = c[k][q]
               /\ (\A q \in Sides : c[k][q] = v => ~ d[k] \/ ~ d[z]) => Parted(c1, d, {z}, {}, k)
        BY <3>1, TurnOthers
      <3> QED
        BY <3>0, <3>2, <1>12
    <2>2. ASSUME NEW q \in Sides, d[n], d[c1[n][q]] PROVE FALSE
      <3>1. c[n][q] # v
        BY <2>2, <1>1, <1>3, <1>12 DEF Shape, Family
      <3>2. c1[n][q] = c[n][q] /\ c[n][q] # z
        <4>1. c[n][q] # z
          BY <1>3, <1>12, <2>2 DEF Shape, Family
        <4> QED
          BY <4>1, <3>1, <2>1
      <3> QED
        BY <3>2, <2>2, <1>5, <1>12 DEF Parted
    <2> QED
      BY <2>1, <2>2 DEF Parted
  <1>13. d[r1] => r1 \in {v}
    <2>1. r1 = r /\ (d[r] => r = z)
      BY <1>1 DEF Turned, Coloured
    <2>2. r # Nil => p[r] = Nil
      BY ShapeFacts
    <2> QED
      BY <2>1, <2>2, <1>1, <1>4
  <1> QED
    BY <1>4, <1>10, <1>11, <1>12, <1>13 DEF Coloured

(* Case 3: a rotation at the grandparent ends the red pair.                *)
LEMMA InsertColours3 ==
    ASSUME TreeFit, NEW H, NEW r, NEW c, NEW p, NEW sub, Shape(H, r, c, p, sub),
           NEW d, NEW h, NEW sd, NEW z \in H, Coloured(H, r, c, d, h, Nil, sd, {z}, {}),
           NEW v, v = p[z], d[v], NEW g, g = p[v],
           NEW b, NEW s, NEW r1, NEW c1, NEW p1, Turned(H, g, v, b, s, r, c, p, r1, c1, p1),
           ~ d[c[g][s]], z # b,
           NEW d1, Repainted(H, d, v, v, g, TRUE, d1)
    PROVE  \E h1 : Coloured(H, r1, c1, d1, h1, Nil, sd, {z}, {})
  <1> USE DEF Repainted
  <1>1. /\ v \in H /\ v # z /\ g \in H /\ g \notin {v, z} /\ ~ d[g] /\ v # r
    <2>1. d[p[z]]
      OBVIOUS
    <2>2. /\ p[z] \in H /\ p[z] # z /\ p[p[z]] \in H /\ p[p[z]] \notin {p[z], z} /\ ~ d[p[p[z]]]
          /\ p[z] # r
      BY <2>1, RedParent
    <2> QED
      BY <2>2
  <1>2. PICK f \in Sides : \E u, e \in H \cup {Nil} :
               /\ s \in Sides /\ f = Other(s) /\ f # s /\ \A q \in Sides : q = s \/ q = f
               /\ Nil \notin H /\ b \in H \cup {Nil}
               /\ c[g][s] = u /\ c[g][f] = v /\ c[v][s] = b /\ c[v][f] = e
               /\ c1[g][s] = u /\ c1[g][f] = b /\ c1[v][s] = g /\ c1[v][f] = e
               /\ u \notin {g, v} /\ b \notin {g, v} /\ e \notin {g, v}
               /\ r1 = IF r = g THEN v ELSE r
    BY TurnFacts
  <1>3. PICK u, e \in H \cup {Nil} :
               /\ s \in Sides /\ f = Other(s) /\ f # s /\ \A q \in Sides : q = s \/ q = f
               /\ Nil \notin H /\ b \in H \cup {Nil}
               /\ c[g][s] = u /\ c[g][f] = v /\ c[v][s] = b /\ c[v][f] = e
               /\ c1[g][s] = u /\ c1[g][f] = b /\ c1[v][s] = g /\ c1[v][f] = e
               /\ u \notin {g, v} /\ b \notin {g, v} /\ e \notin {g, v}
               /\ r1 = IF r = g THEN v ELSE r
    BY <1>2
  <1>4. /\ ~ d[Nil] /\ h[Nil] = 1 /\ \A n \in H \cup {Nil} : h[n] \in Nat \ {0}
        /\ d[r] => r = z
    BY DEF Coloured
  <1>5. \A n \in H : Even(c, d, h, Nil, sd, n) /\ Parted(c, d, {z}, {}, n)
    BY DEF Coloured
  <1>6. \A q \in Sides : Unit(v = Nil /\ q = sd) = 0 /\ Unit(g = Nil /\ q = sd) = 0
    BY <1>1, <1>3 DEF Unit
  <1>7. h[g] = h[v] + 1 /\ h[u] = h[v] /\ h[b] = h[v] /\ h[e] = h[v]
    <2>1. Unit(~ d[v]) = 0 /\ Unit(~ d[g]) = 1
      BY <1>1 DEF Unit
    <2>2. h[g] = h[v] + 0 + 1 /\ h[g] = h[u] + 0 + 1
      BY <2>1, <1>1, <1>3, <1>5, <1>6 DEF Even
    <2>3. h[v] = h[b] + 0 + 0 /\ h[v] = h[e] + 0 + 0
      BY <2>1, <1>1, <1>3, <1>5, <1>6 DEF Even
    <2> QED
      BY <2>2, <2>3, <1>1, <1>3, <1>4
  <1>8. ~ d[u] /\ ~ d[b]
    BY <1>1, <1>3, <1>5 DEF Parted
  <1>10. PICK h1 : h1 = [n \in H \cup {Nil} |-> IF n = v THEN h[g] ELSE IF n = g THEN h[v] ELSE h[n]]
    OBVIOUS
  <1>11. /\ h1[v] = h[g] /\ h1[g] = h[v] /\ ~ d1[v] /\ d1[g]
         /\ \A n \in H \cup {Nil} : n \notin {v, g} => h1[n] = h[n] /\ d1[n] = d[n]
    BY <1>1, <1>10
  <1>12. /\ ~ d1[Nil] /\ h1[Nil] = 1 /\ \A n \in H : h1[n] \in Nat \ {0}
    BY <1>1, <1>3, <1>4, <1>11
  <1>13. Even(c1, d1, h1, Nil, sd, g) /\ Parted(c1, d1, {z}, {}, g)
    <2>1. h1[u] = h[u] /\ h1[b] = h[b] /\ ~ d1[u] /\ ~ d1[b]
      BY <1>3, <1>8, <1>11
    <2>2. \A q \in Sides : h1[c1[g][q]] = h1[g] /\ ~ d1[c1[g][q]]
      BY <2>1, <1>3, <1>7, <1>11
    <2> QED
      BY <2>2, <1>1, <1>6, <1>11, <1>12 DEF Even, Parted, Unit
  <1>14. Even(c1, d1, h1, Nil, sd, v) /\ Parted(c1, d1, {z}, {}, v)
    <2>1. h1[e] = h[v] /\ h1[g] = h[v] /\ h1[v] = h[v] + 1 /\ h[v] \in Nat
      BY <1>1, <1>3, <1>4, <1>7, <1>11
    <2>2. \A q \in Sides : h1[c1[v][q]] = h[v]
      BY <2>1, <1>3
    <2> QED
      BY <2>1, <2>2, <1>1, <1>6, <1>11 DEF Even, Parted, Unit
  <1>15. ASSUME NEW n \in H, n \notin {v, g}
         PROVE  Even(c1, d1, h1, Nil, sd, n) /\ Parted(c1, d1, {z}, {}, n)
    <2>0. PICK K : K = {g, v}
      OBVIOUS
    <2>1. /\ {g, v} \subseteq K /\ K \subseteq {g, v, c[v][Other(s)]}
          /\ Elsewhere(H, K, d, h, d1, h1)
      BY <2>0, <1>1, <1>3, <1>11 DEF Elsewhere
    <2>2. h1[v] = h[g] /\ ~ d1[v]
      BY <1>11
    <2>3. \A k \in H \ K :
             /\ Even(c1, d1, h1, Nil, sd, k)
             /\ \A q \in Sides : c[k][q] # g => c1[k][q] = c[k][q]
             /\ (\A q \in Sides : c[k][q] = g => ~ d1[k] \/ ~ d1[v]) => Parted(c1, d1, {z}, {}, k)
      BY <2>1, <2>2, TurnOthers
    <2> QED
      BY <2>0, <2>2, <2>3, <1>15
  <1>16. d1[r1] => r1 \in {z}
    <2>1. r1 = (IF r = g THEN v ELSE r) /\ (d[r] => r = z)
      BY DEF Turned, Coloured
    <2>2. r \in H \cup {Nil}
      BY ShapeFacts
    <2> QED
      BY <2>1, <2>2, <1>1, <1>11
  <1> QED
    BY <1>12, <1>13, <1>14, <1>15, <1>16 DEF Coloured

(* The root is painted black when insertFixup ends.                        *)
LEMMA InsertColoursEnd ==
    ASSUME TreeFit, NEW H, NEW r, NEW c, NEW p, NEW sub, Shape(H, r, c, p, sub),
           NEW d, NEW h, NEW sd, NEW z \in H, Coloured(H, r, c, d, h, Nil, sd, {z}, {}), ~ d[p[z]],
           NEW d1, Painted(H, d, r, FALSE, d1)
    PROVE  \E h1 : Coloured(H, r, c, d1, h1, Nil, sd, {}, {})
  <1> USE DEF Painted
  <1>1. /\ Nil \notin H /\ r \in H /\ p[r] = Nil
    BY ShapeFacts
  <1>2. \A n \in H, q \in Sides : c[n][q] \in H \cup {Nil} /\ c[n][q] # r
    BY <1>1, OneParent, ShapeFacts
  <1>3. /\ ~ d[Nil] /\ h[Nil] = 1 /\ \A n \in H \cup {Nil} : h[n] \in Nat \ {0}
        /\ \A n \in H : Even(c, d, h, Nil, sd, n) /\ Parted(c, d, {z}, {}, n)
    BY DEF Coloured
  <1>4. PICK h1 : h1 = [n \in H \cup {Nil} |-> IF n = r THEN h[n] + Unit(d[n]) ELSE h[n]]
    OBVIOUS
  <1>5. /\ h1[r] = h[r] + Unit(d[r]) /\ ~ d1[r]
        /\ \A n \in H \cup {Nil} : n # r => h1[n] = h[n] /\ d1[n] = d[n]
    BY <1>1, <1>4
  <1>6. /\ ~ d1[Nil] /\ h1[Nil] = 1 /\ \A n \in H : h1[n] \in Nat \ {0}
    BY <1>1, <1>3, <1>5 DEF Unit
  <1>7. ASSUME NEW n \in H PROVE Even(c, d1, h1, Nil, sd, n) /\ Parted(c, d1, {}, {}, n)
    <2>1. ASSUME NEW q \in Sides
          PROVE h1[n] = h1[c[n][q]] + Unit(n = Nil /\ q = sd) + Unit(~ d1[n])
      <3>1. h[n] = h[c[n][q]] + Unit(n = Nil /\ q = sd) + Unit(~ d[n])
        BY <1>3 DEF Even
      <3>2. h1[c[n][q]] = h[c[n][q]] /\ h[c[n][q]] \in Nat /\ h[n] \in Nat
        BY <1>2, <1>3, <1>5
      <3> QED
        BY <3>1, <3>2, <1>1, <1>5 DEF Unit
    <2>2. ASSUME NEW q \in Sides, d1[n], d1[c[n][q]] PROVE FALSE
      <3>1. d[n] /\ d[c[n][q]]
        BY <2>2, <1>2, <1>5
      <3>2. c[n][q] = z
        BY <3>1, <1>3 DEF Parted
      <3> QED
        BY <3>1, <3>2, <1>1 DEF Shape, Family
    <2> QED
      BY <2>1, <2>2 DEF Even, Parted
  <1> QED
    BY <1>5, <1>6, <1>7 DEF Coloured

(* A new node is red, and takes the place of a sentinel.                   *)
LEMMA HangColours ==
    ASSUME TreeFit, NEW H, NEW r, NEW c, NEW p, NEW sub, Shape(H, r, c, p, sub),
           NEW z, NEW y, NEW e, NEW r1, NEW c1, NEW p1, Hung(H, z, y, e, r, c, p, r1, c1, p1),
           NEW d, NEW h, NEW sd, Coloured(H, r, c, d, h, Nil, sd, {}, {}),
           NEW d1, d1[z], \A n \in H \cup {Nil} : d1[n] = d[n]
    PROVE  \E h1 : Coloured(H \cup {z}, r1, c1, d1, h1, Nil, sd, {z}, {})
  <1>1. /\ Nil \notin H /\ z \notin H /\ z # Nil /\ y \in H \cup {Nil} /\ r \in H \cup {Nil}
        /\ r1 = IF y = Nil THEN z ELSE r
    BY ShapeFacts, NodesApart DEF Hung
  <1>2. /\ ~ d[Nil] /\ h[Nil] = 1 /\ \A n \in H \cup {Nil} : h[n] \in Nat \ {0}
        /\ \A n \in H : Even(c, d, h, Nil, sd, n) /\ Parted(c, d, {}, {}, n)
        /\ ~ d[r]
    BY DEF Coloured
  <1>3. PICK h1 : h1 = [n \in (H \cup {z}) \cup {Nil} |-> IF n = z THEN 1 ELSE h[n]]
    OBVIOUS
  <1>4. h1[z] = 1 /\ \A n \in H \cup {Nil} : h1[n] = h[n]
    BY <1>1, <1>3
  <1>5. Even(c1, d1, h1, Nil, sd, z) /\ Parted(c1, d1, {z}, {}, z)
    <2>1. \A q \in Sides : c1[z][q] = Nil
      BY DEF Hung
    <2> QED
      BY <2>1, <1>1, <1>2, <1>4 DEF Even, Parted, Unit
  <1>6. ASSUME NEW n \in H PROVE Even(c1, d1, h1, Nil, sd, n) /\ Parted(c1, d1, {z}, {}, n)
    <2>1. ASSUME NEW q \in Sides
          PROVE  \/ c1[n][q] = z /\ c[n][q] = Nil
                 \/ c1[n][q] = c[n][q] /\ c[n][q] \in H \cup {Nil}
      BY <1>1, ShapeFacts DEF Hung
    <2>2. ASSUME NEW q \in Sides PROVE h1[c1[n][q]] = h[c[n][q]]
      BY <2>1, <1>2, <1>4
    <2>3. Even(c1, d1, h1, Nil, sd, n)
      BY <2>2, <1>2, <1>4 DEF Even
    <2>4. Parted(c1, d1, {z}, {}, n)
      BY <2>1, <1>2 DEF Parted
    <2> QED
      BY <2>3, <2>4
  <1>7. \A n \in H \cup {z} : h1[n] \in Nat \ {0}
    BY <1>2, <1>4
  <1>8. ~ d1[Nil] /\ h1[Nil] = 1 /\ (d1[r1] => r1 \in {z})
    BY <1>1, <1>2, <1>4
  <1> QED
    BY <1>5, <1>6, <1>7, <1>8 DEF Coloured

-----------------------------------------------------------------------------
(* What the cases of deleteFixup do to the colours.                        *)

(* The place of x in the tree, where a black node is missing.              *)
PlaceOf(H, r, c, x, at, sd) ==
    /\ x \in H \cup {Nil} /\ sd \in Sides
    /\ IF x = r THEN at = Nil ELSE at \in H /\ c[at][sd] = x

(* The sibling of a node that lacks a black one is a node, and nothing red *)
(* is near the place.                                                      *)
LEMMA DeletePlace ==
    ASSUME TreeFit, NEW H, NEW r, NEW c, NEW p, NEW sub, Shape(H, r, c, p, sub),
           NEW d, NEW h, NEW at, NEW sd, NEW x, Coloured(H, r, c, d, h, at, sd, {x}, {x}),
           PlaceOf(H, r, c, x, at, sd), x # r, ~ d[x]
    PROVE  \E w \in H : /\ w = c[at][Other(sd)] /\ w # x /\ w # at /\ w # r /\ p[w] = at
                        /\ h[w] = h[x] + 1 /\ h[at] = h[w] + Unit(~ d[at])
                        /\ \A n \in H, t \in Sides : d[n] => ~ d[c[n][t]]
                        /\ ~ d[r]
  <1>1. x \in H \cup {Nil} /\ sd \in Sides /\ at \in H /\ c[at][sd] = x /\ Nil \notin H
    BY ShapeFacts DEF PlaceOf
  <1>2. Other(sd) \in Sides /\ Other(sd) # sd
    BY <1>1, TwoSides
  <1>3. PICK w : w = c[at][Other(sd)]
    OBVIOUS
  <1>4. w \in H \cup {Nil}
    BY <1>1, <1>2, <1>3, ShapeFacts
  <1>5. /\ h[Nil] = 1 /\ \A n \in H \cup {Nil} : h[n] \in Nat \ {0}
        /\ Even(c, d, h, at, sd, at)
    BY <1>1 DEF Coloured
  <1>6. h[at] = h[x] + 1 + Unit(~ d[at]) /\ h[at] = h[w] + 0 + Unit(~ d[at])
    BY <1>1, <1>2, <1>3, <1>5 DEF Even, Unit
  <1>7. h[w] = h[x] + 1 /\ h[at] = h[w] + Unit(~ d[at])
    <2>1. Unit(~ d[at]) \in {0, 1} /\ h[w] \in Nat /\ h[x] \in Nat
      BY <1>1, <1>4, <1>5 DEF Unit
    <2> QED
      BY <2>1, <1>6
  <1>8. w # Nil /\ w # x
    BY <1>1, <1>5, <1>7
  <1>9. w \in H /\ p[w] = at /\ w # at /\ w # r
    BY <1>1, <1>2, <1>3, <1>4, <1>8, OneParent
  <1>10. ASSUME NEW n \in H, NEW t \in Sides, d[n], d[c[n][t]] PROVE FALSE
    <2>1. Parted(c, d, {x}, {x}, n)
      BY DEF Coloured
    <2> QED
      BY <1>10, <2>1 DEF Parted
  <1>11. ~ d[r]
    BY DEF Coloured
  <1> QED
    BY <1>3, <1>7, <1>8, <1>9, <1>10, <1>11

(* Case 1: a red sibling is rotated above the place.                       *)
LEMMA DeleteColours1 ==
    ASSUME TreeFit, NEW H, NEW r, NEW c, NEW p, NEW sub, Shape(H, r, c, p, sub),
           NEW d, NEW h, NEW at, NEW sd, NEW x, Coloured(H, r, c, d, h, at, sd, {x}, {x}),
           PlaceOf(H, r, c, x, at, sd), x # r, ~ d[x],
           NEW w, NEW b, NEW r1, NEW c1, NEW p1, Turned(H, at, w, b, sd, r, c, p, r1, c1, p1), d[w],
           NEW d1, Repainted(H, d, w, w, at, TRUE, d1)
    PROVE  /\ \E h1 : Coloured(H, r1, c1, d1, h1, at, sd, {x}, {x})
           /\ PlaceOf(H, r1, c1, x, at, sd)
  <1> USE DEF Repainted
  <1>1. x \in H \cup {Nil} /\ at \in H /\ c[at][sd] = x /\ w = c[at][Other(sd)]
    BY DEF PlaceOf, Turned
  <1>2. /\ h[w] = h[x] + 1 /\ h[at] = h[w] + Unit(~ d[at])
        /\ \A n \in H, t \in Sides : d[n] => ~ d[c[n][t]]
        /\ ~ d[r]
    BY <1>1, DeletePlace
  <1>3. PICK f \in Sides : \E a, e \in H \cup {Nil} :
               /\ sd \in Sides /\ f = Other(sd) /\ f # sd /\ \A q \in Sides : q = sd \/ q = f
               /\ Nil \notin H /\ at \in H /\ w \in H /\ at # w /\ b \in H \cup {Nil}
               /\ c[at][sd] = a /\ c[at][f] = w /\ c[w][sd] = b /\ c[w][f] = e
               /\ c1[at][sd] = a /\ c1[at][f] = b /\ c1[w][sd] = at /\ c1[w][f] = e
               /\ a \notin {at, w} /\ b \notin {at, w} /\ e \notin {at, w}
               /\ w # r /\ r1 = IF r = at THEN w ELSE r
    BY TurnFacts
  <1>4. PICK e \in H \cup {Nil} :
               /\ sd \in Sides /\ f = Other(sd) /\ f # sd /\ \A q \in Sides : q = sd \/ q = f
               /\ Nil \notin H /\ w \in H /\ at # w /\ b \in H \cup {Nil}
               /\ c[at][f] = w /\ c[w][sd] = b /\ c[w][f] = e
               /\ c1[at][sd] = x /\ c1[at][f] = b /\ c1[w][sd] = at /\ c1[w][f] = e
               /\ x \notin {at, w} /\ b \notin {at, w} /\ e \notin {at, w}
               /\ w # r /\ r1 = IF r = at THEN w ELSE r
    BY <1>1, <1>3
  <1>5. /\ ~ d[Nil] /\ h[Nil] = 1 /\ \A n \in H \cup {Nil} : h[n] \in Nat \ {0}
        /\ \A n \in H : Even(c, d, h, at, sd, n)
    BY DEF Coloured
  <1>6. ~ d[at] /\ ~ d[b] /\ ~ d[e]
    BY <1>1, <1>2, <1>4
  <1>7. h[at] = h[w] + 1 /\ h[w] = h[b] /\ h[w] = h[e]
    <2>1. Unit(~ d[at]) = 1 /\ Unit(~ d[w]) = 0 /\ \A q \in Sides : Unit(w = at /\ q = sd) = 0
      BY <1>4, <1>6 DEF Unit
    <2>2. h[w] = h[b] + 0 + 0 /\ h[w] = h[e] + 0 + 0
      BY <2>1, <1>4, <1>5 DEF Even
    <2> QED
      BY <2>1, <2>2, <1>2, <1>4, <1>5
  <1>8. PICK h1 : h1 = [n \in H \cup {Nil} |-> IF n = w THEN h[at] ELSE IF n = at THEN h[w] ELSE h[n]]
    OBVIOUS
  <1>9. /\ h1[w] = h[at] /\ h1[at] = h[w] /\ ~ d1[w] /\ d1[at]
        /\ \A n \in H \cup {Nil} : n \notin {w, at} => h1[n] = h[n] /\ d1[n] = d[n]
    BY <1>1, <1>4, <1>8
  <1>10. /\ ~ d1[Nil] /\ h1[Nil] = 1 /\ \A n \in H : h1[n] \in Nat \ {0}
    BY <1>1, <1>4, <1>5, <1>9
  <1>11. Even(c1, d1, h1, at, sd, at) /\ Parted(c1, d1, {x}, {x}, at)
    <2>1. h1[x] = h[x] /\ h1[b] = h[b] /\ ~ d1[x] /\ ~ d1[b] /\ h[x] \in Nat
      BY <1>1, <1>4, <1>5, <1>6, <1>9
    <2>2. \A q \in Sides : ~ d1[c1[at][q]]
      BY <2>1, <1>4
    <2>3. h1[at] = h1[c1[at][sd]] + 1 + 0 /\ h1[at] = h1[c1[at][f]] + 0 + 0
      BY <2>1, <1>1, <1>2, <1>4, <1>5, <1>7, <1>9
    <2> QED
      BY <2>2, <2>3, <1>4, <1>9 DEF Even, Parted, Unit
  <1>12. Even(c1, d1, h1, at, sd, w) /\ Parted(c1, d1, {x}, {x}, w)
    <2>1. h1[e] = h[w] /\ h1[at] = h[w] /\ h1[w] = h[w] + 1 /\ h[w] \in Nat
      BY <1>4, <1>5, <1>7, <1>9
    <2>2. \A q \in Sides : h1[c1[w][q]] = h[w]
      BY <2>1, <1>4
    <2> QED
      BY <2>1, <2>2, <1>4, <1>9 DEF Even, Parted, Unit
  <1>13. ASSUME NEW n \in H, n \notin {w, at}
         PROVE  Even(c1, d1, h1, at, sd, n) /\ Parted(c1, d1, {x}, {x}, n)
    <2>0. PICK K : K = {at, w}
      OBVIOUS
    <2>1. /\ {at, w} \subseteq K /\ K \subseteq {at, w, c[w][Other(sd)]}
          /\ Elsewhere(H, K, d, h, d1, h1) /\ h1[w] = h[at]
      BY <2>0, <1>1, <1>4, <1>9 DEF Elsewhere
    <2>2. \A k \in H \ K :
             /\ Even(c1, d1, h1, at, sd, k)
             /\ \A q \in Sides : c[k][q] # at => c1[k][q] = c[k][q]
             /\ (\A q \in Sides : c[k][q] = at => ~ d1[k] \/ ~ d1[w]) => Parted(c1, d1, {x}, {x}, k)
      BY <2>1, TurnOthers
    <2> QED
      BY <2>0, <2>2, <1>9, <1>13
  <1>14. d1[r1] => r1 \in {x}
    <2>1. r \in H \cup {Nil}
      BY ShapeFacts
    <2> QED
      BY <2>1, <1>2, <1>4, <1>9
  <1>15. PlaceOf(H, r1, c1, x, at, sd)
    BY <1>1, <1>4 DEF PlaceOf
  <1> QED
    BY <1>10, <1>11, <1>12, <1>13, <1>14, <1>15 DEF Coloured

(* Case 3: a red inner nephew becomes an outer one.                        *)
LEMMA DeleteColours3 ==
    ASSUME TreeFit, NEW H, NEW r, NEW c, NEW p, NEW sub, Shape(H, r, c, p, sub),
           NEW d, NEW h, NEW at, NEW sd, NEW x, Coloured(H, r, c, d, h, at, sd, {x}, {x}),
           PlaceOf(H, r, c, x, at, sd), x # r, ~ d[x],
           NEW w, w = c[at][Other(sd)], NEW v, NEW b, NEW s, s = Other(sd),
           NEW r1, NEW c1, NEW p1, Turned(H, w, v, b, s, r, c, p, r1, c1, p1),
           ~ d[w], d[v], ~ d[c[w][s]],
           NEW d1, Repainted(H, d, v, v, w, TRUE, d1)
    PROVE  /\ \E h1 : Coloured(H, r1, c1, d1, h1, at, sd, {x}, {x})
           /\ PlaceOf(H, r1, c1, x, at, sd)
  <1> USE DEF Repainted
  <1>1. x \in H \cup {Nil} /\ at \in H /\ c[at][sd] = x /\ sd \in Sides
    BY DEF PlaceOf
  <1>2. /\ w # x /\ w # at /\ w # r /\ p[w] = at
        /\ \A n \in H, t \in Sides : d[n] => ~ d[c[n][t]]
        /\ ~ d[r]
    BY DeletePlace
  <1>3. PICK f \in Sides : \E a, e \in H \cup {Nil} :
               /\ s \in Sides /\ f = Other(s) /\ f # s /\ \A q \in Sides : q = s \/ q = f
               /\ Nil \notin H /\ w \in H /\ v \in H /\ w # v /\ b \in H \cup {Nil}
               /\ c[w][s] = a /\ c[w][f] = v /\ c[v][s] = b /\ c[v][f] = e
               /\ c1[w][s] = a /\ c1[w][f] = b /\ c1[v][s] = w /\ c1[v][f] = e
               /\ a \notin {w, v} /\ b \notin {w, v} /\ e \notin {w, v}
               /\ v # r /\ p[w] \notin {v, e} \ {Nil} /\ r1 = IF r = w THEN v ELSE r
    BY TurnFacts
  <1>4. PICK a, e \in H \cup {Nil} :
               /\ s \in Sides /\ f # s /\ \A q \in Sides : q = s \/ q = f
               /\ Nil \notin H /\ w \in H /\ v \in H /\ w # v /\ b \in H \cup {Nil}
               /\ c[w][s] = a /\ c[w][f] = v /\ c[v][s] = b /\ c[v][f] = e
               /\ c1[w][s] = a /\ c1[w][f] = b /\ c1[v][s] = w /\ c1[v][f] = e
               /\ a \notin {w, v} /\ b \notin {w, v} /\ e \notin {w, v}
               /\ v # r /\ p[w] # v /\ r1 = IF r = w THEN v ELSE r
    BY <1>3
  <1>5. /\ ~ d[Nil] /\ h[Nil] = 1 /\ \A n \in H \cup {Nil} : h[n] \in Nat \ {0}
        /\ \A n \in H : Even(c, d, h, at, sd, n)
    BY DEF Coloured
  <1>6. ~ d[a] /\ ~ d[b] /\ ~ d[e] /\ v # at /\ r1 = r
    BY <1>1, <1>2, <1>4
  <1>7. h[w] = h[v] + 1 /\ h[a] = h[v] /\ h[b] = h[v] /\ h[e] = h[v]
    <2>1. /\ Unit(~ d[v]) = 0 /\ Unit(~ d[w]) = 1
          /\ \A q \in Sides : Unit(w = at /\ q = sd) = 0 /\ Unit(v = at /\ q = sd) = 0
      BY <1>2, <1>6 DEF Unit
    <2>2. h[w] = h[v] + 0 + 1 /\ h[w] = h[a] + 0 + 1
      BY <2>1, <1>4, <1>5 DEF Even
    <2>3. h[v] = h[b] + 0 + 0 /\ h[v] = h[e] + 0 + 0
      BY <2>1, <1>4, <1>5 DEF Even
    <2> QED
      BY <2>2, <2>3, <1>4, <1>5
  <1>8. PICK h1 : h1 = [n \in H \cup {Nil} |-> IF n = v THEN h[w] ELSE IF n = w THEN h[v] ELSE h[n]]
    OBVIOUS
  <1>9. /\ h1[v] = h[w] /\ h1[w] = h[v] /\ ~ d1[v] /\ d1[w]
        /\ \A n \in H \cup {Nil} : n \notin {v, w} => h1[n] = h[n] /\ d1[n] = d[n]
    BY <1>4, <1>8
  <1>10. /\ ~ d1[Nil] /\ h1[Nil] = 1 /\ \A n \in H : h1[n] \in Nat \ {0}
    BY <1>4, <1>5, <1>9
  <1>11. Even(c1, d1, h1, at, sd, w) /\ Parted(c1, d1, {x}, {x}, w)
    <2>1. h1[a] = h[a] /\ h1[b] = h[b] /\ ~ d1[a] /\ ~ d1[b]
      BY <1>4, <1>6, <1>9
    <2>2. \A q \in Sides : h1[c1[w][q]] = h1[w] /\ ~ d1[c1[w][q]]
      BY <2>1, <1>4, <1>7, <1>9
    <2> QED
      BY <2>2, <1>2, <1>4, <1>9, <1>10 DEF Even, Parted, Unit
  <1>12. Even(c1, d1, h1, at, sd, v) /\ Parted(c1, d1, {x}, {x}, v)
    <2>1. h1[e] = h[v] /\ h1[w] = h[v] /\ h1[v] = h[v] + 1 /\ h[v] \in Nat
      BY <1>4, <1>5, <1>7, <1>9
    <2>2. \A q \in Sides : h1[c1[v][q]] = h[v]
      BY <2>1, <1>4
    <2> QED
      BY <2>1, <2>2, <1>6, <1>9 DEF Even, Parted, Unit
  <1>13. PICK K : K = {w, v}
    OBVIOUS
  <1>14. \A k \in H \ K :
             /\ Even(c1, d1, h1, at, sd, k)
             /\ \A q \in Sides : c[k][q] # w => c1[k][q] = c[k][q]
             /\ (\A q \in Sides : c[k][q] = w => ~ d1[k] \/ ~ d1[v]) => Parted(c1, d1, {x}, {x}, k)
    <2>1. /\ {w, v} \subseteq K /\ K \subseteq {w, v, c[v][Other(s)]}
          /\ Elsewhere(H, K, d, h, d1, h1) /\ h1[v] = h[w]
      BY <1>4, <1>9, <1>13 DEF Elsewhere
    <2> QED
      BY <2>1, TurnOthers
  <1>15. ASSUME NEW n \in H, n \notin {v, w}
         PROVE  Even(c1, d1, h1, at, sd, n) /\ Parted(c1, d1, {x}, {x}, n)
    BY <1>9, <1>13, <1>14, <1>15
  <1>16. d1[r1] => r1 \in {x}
    <2>1. r \in H \cup {Nil}
      BY ShapeFacts
    <2> QED
      BY <2>1, <1>2, <1>4, <1>6, <1>9
  <1>17. PlaceOf(H, r1, c1, x, at, sd)
    <2>1. at \in H \ K
      BY <1>1, <1>2, <1>6, <1>13
    <2>2. c1[at][sd] = c[at][sd]
      BY <2>1, <1>1, <1>2, <1>14
    <2> QED
      BY <2>2, <1>1, <1>6 DEF PlaceOf
  <1> QED
    BY <1>10, <1>11, <1>12, <1>15, <1>16, <1>17 DEF Coloured

-----------------------------------------------------------------------------
(* Cases 4 and 2, and the end of the loop.                                 *)

(* Case 4: the rotation at the parent brings the missing black node.       *)
LEMMA DeleteColours4 ==
    ASSUME TreeFit, NEW H, NEW r, NEW c, NEW p, NEW sub, Shape(H, r, c, p, sub),
           NEW d, NEW h, NEW at, NEW sd, NEW x, Coloured(H, r, c, d, h, at, sd, {x}, {x}),
           PlaceOf(H, r, c, x, at, sd), x # r, ~ d[x],
           NEW w, NEW b, NEW r1, NEW c1, NEW p1, Turned(H, at, w, b, sd, r, c, p, r1, c1, p1),
           NEW e, e = c[w][Other(sd)], ~ d[w], d[e],
           NEW d1, Repainted(H, d, at, e, w, d[at], d1)
    PROVE  \E h1 : Coloured(H, r1, c1, d1, h1, Nil, sd, {r1}, {r1})
  <1> USE DEF Repainted
  <1>1. x \in H \cup {Nil} /\ at \in H /\ c[at][sd] = x /\ w = c[at][Other(sd)]
    BY DEF PlaceOf, Turned
  <1>2. /\ h[w] = h[x] + 1 /\ h[at] = h[w] + Unit(~ d[at])
        /\ \A n \in H, t \in Sides : d[n] => ~ d[c[n][t]]
        /\ ~ d[r]
    BY <1>1, DeletePlace
  <1>3. PICK f \in Sides : \E a, m \in H \cup {Nil} :
               /\ sd \in Sides /\ f = Other(sd) /\ f # sd /\ \A q \in Sides : q = sd \/ q = f
               /\ Nil \notin H /\ at \in H /\ w \in H /\ at # w /\ b \in H \cup {Nil}
               /\ c[at][sd] = a /\ c[at][f] = w /\ c[w][sd] = b /\ c[w][f] = m
               /\ c1[at][sd] = a /\ c1[at][f] = b /\ c1[w][sd] = at /\ c1[w][f] = m
               /\ a \notin {at, w} /\ b \notin {at, w} /\ m \notin {at, w}
               /\ (a = b \/ a = m \/ b = m) => a = Nil \/ b = Nil \/ m = Nil
               /\ p[w] = at /\ w # r /\ p[at] \notin {w, m} \ {Nil} /\ r1 = IF r = at THEN w ELSE r
               /\ \A n \in H, q \in Sides : /\ c[n][q] = w => n = at /\ q = f
                                            /\ c[n][q] = m /\ m # Nil => n = w /\ q = f
    BY TurnFacts
  <1>4. /\ sd \in Sides /\ f # sd /\ \A q \in Sides : q = sd \/ q = f
        /\ Nil \notin H /\ w \in H /\ at # w /\ b \in H \cup {Nil} /\ e \in H \cup {Nil}
        /\ c[at][f] = w /\ c[w][sd] = b /\ c[w][f] = e
        /\ c1[at][sd] = x /\ c1[at][f] = b /\ c1[w][sd] = at /\ c1[w][f] = e
        /\ x \notin {at, w} /\ b \notin {at, w} /\ e \notin {at, w}
        /\ w # r /\ p[w] = at /\ p[at] \notin {w, e} \ {Nil} /\ r1 = IF r = at THEN w ELSE r
    BY <1>1, <1>3
  <1>5. /\ ~ d[Nil] /\ h[Nil] = 1 /\ \A n \in H \cup {Nil} : h[n] \in Nat \ {0}
        /\ \A n \in H : Even(c, d, h, at, sd, n)
    BY DEF Coloured
  <1>6. e \in H /\ e # x /\ e # b
    <2>1. e # Nil
      BY <1>5
    <2>2. e \in H /\ \A n \in H, q \in Sides : c[n][q] = e => n = w /\ q = f
      BY <2>1, <1>3, <1>4
    <2> QED
      BY <2>1, <2>2, <1>1, <1>4
  <1>7. h[w] = h[b] + 1 /\ h[w] = h[e] + 1
    <2>1. Unit(~ d[w]) = 1 /\ \A q \in Sides : Unit(w = at /\ q = sd) = 0
      BY <1>4 DEF Unit
    <2>2. h[w] = h[b] + 0 + 1 /\ h[w] = h[e] + 0 + 1
      BY <2>1, <1>4, <1>5 DEF Even
    <2> QED
      BY <2>2, <1>4, <1>5
  <1>8. PICK h1 : h1 = [n \in H \cup {Nil} |-> IF n = w THEN h[at] ELSE IF n = at THEN h[w]
                                               ELSE IF n = e THEN h[e] + 1 ELSE h[n]]
    OBVIOUS
  <1>9. /\ h1[w] = h[at] /\ h1[at] = h[w] /\ h1[e] = h[e] + 1 /\ ~ d1[at] /\ ~ d1[e]
        /\ (d1[w] <=> d[at])
        /\ \A n \in H \cup {Nil} : n \notin {w, at, e} => h1[n] = h[n] /\ d1[n] = d[n]
    BY <1>1, <1>4, <1>6, <1>8
  <1>10. /\ ~ d1[Nil] /\ h1[Nil] = 1 /\ \A n \in H : h1[n] \in Nat \ {0}
    BY <1>1, <1>4, <1>5, <1>6, <1>9
  <1>11. \A n \in H, q \in Sides : Unit(n = Nil /\ q = sd) = 0
    BY <1>4 DEF Unit
  <1>12. Even(c1, d1, h1, Nil, sd, at) /\ Parted(c1, d1, {r1}, {r1}, at)
    <2>1. h1[x] = h[x] /\ h1[b] = h[b] /\ h[x] \in Nat /\ h[b] \in Nat
      BY <1>1, <1>4, <1>5, <1>6, <1>9
    <2>2. h1[at] = h1[c1[at][sd]] + 0 + 1 /\ h1[at] = h1[c1[at][f]] + 0 + 1
      BY <2>1, <1>1, <1>2, <1>4, <1>7, <1>9
    <2>3. Unit(~ d1[at]) = 1
      BY <1>9 DEF Unit
    <2> QED
      BY <2>2, <2>3, <1>1, <1>4, <1>9, <1>11 DEF Even, Parted
  <1>13. Even(c1, d1, h1, Nil, sd, w) /\ Parted(c1, d1, {r1}, {r1}, w)
    <2>1. Unit(~ d1[w]) = Unit(~ d[at])
      BY <1>9 DEF Unit
    <2>2. \A q \in Sides : h1[c1[w][q]] = h[w] /\ ~ d1[c1[w][q]]
      BY <1>4, <1>7, <1>9
    <2>3. h1[w] = h[w] + Unit(~ d1[w]) /\ h[w] \in Nat
      BY <2>1, <1>2, <1>4, <1>5, <1>9
    <2> QED
      BY <2>2, <2>3, <1>4, <1>11 DEF Even, Parted
  <1>14. Even(c1, d1, h1, Nil, sd, e) /\ Parted(c1, d1, {r1}, {r1}, e)
    <2>1. ASSUME NEW q \in Sides
          PROVE c[e][q] \in H \cup {Nil} /\ c[e][q] \notin {w, at, e} /\ c1[e][q] = c[e][q]
      <3>1. c[e][q] \in H \cup {Nil} /\ (c[e][q] # Nil => p[c[e][q]] = e /\ c[e][q] # e)
        BY <1>6, ShapeFacts, OneParent
      <3>2. c[e][q] \notin {w, at, e}
        BY <3>1, <1>1, <1>4, <1>6
      <3>3. c1[e][q] = IF c[e][q] = at THEN w ELSE c[e][q]
        BY <1>4, <1>6 DEF Turned
      <3> QED
        BY <3>1, <3>2, <3>3
    <2>2. ASSUME NEW q \in Sides PROVE h[e] = h[c[e][q]]
      <3>1. h[e] = h[c[e][q]] + Unit(e = at /\ q = sd) + Unit(~ d[e])
        BY <1>5, <1>6 DEF Even
      <3> QED
        BY <3>1, <2>1, <1>4, <1>5, <1>6 DEF Unit
    <2>3. ASSUME NEW q \in Sides PROVE h1[e] = h1[c1[e][q]] + 0 + 1
      BY <2>1, <2>2, <1>5, <1>6, <1>9
    <2>4. Unit(~ d1[e]) = 1
      BY <1>9 DEF Unit
    <2> QED
      BY <2>3, <2>4, <1>6, <1>9, <1>11 DEF Even, Parted
  <1>15. ASSUME NEW n \in H, n \notin {w, at, e}
         PROVE  Even(c1, d1, h1, Nil, sd, n) /\ Parted(c1, d1, {r1}, {r1}, n)
    <2>0. PICK K : K = {at, w, e}
      OBVIOUS
    <2>1. /\ {at, w} \subseteq K /\ K \subseteq {at, w, c[w][Other(sd)]}
          /\ Elsewhere(H, K, d, h, d1, h1) /\ h1[w] = h[at]
      BY <2>0, <1>1, <1>4, <1>6, <1>9 DEF Elsewhere
    <2>2. \A k \in H \ K :
             /\ Even(c1, d1, h1, at, sd, k)
             /\ \A q \in Sides : c[k][q] # at => c1[k][q] = c[k][q]
             /\ (\A q \in Sides : c[k][q] = at => ~ d1[k] \/ ~ d1[w]) => Parted(c1, d1, {x}, {x}, k)
      BY <2>1, TurnOthers
    <2>3. \A q \in Sides : c[n][q] = at => ~ d1[n] \/ ~ d1[w]
      BY <1>2, <1>9, <1>15
    <2>4. Even(c1, d1, h1, at, sd, n) /\ Parted(c1, d1, {x}, {x}, n)
      BY <2>0, <2>2, <2>3, <1>15
    <2>5. ~ d1[x]
      BY <1>1, <1>4, <1>6, <1>9
    <2>6. Even(c1, d1, h1, Nil, sd, n)
      BY <2>4, <1>4, <1>15 DEF Even
    <2>7. Parted(c1, d1, {r1}, {r1}, n)
      BY <2>4, <2>5 DEF Parted
    <2> QED
      BY <2>6, <2>7
  <1> QED
    BY <1>10, <1>12, <1>13, <1>14, <1>15 DEF Coloured

(* Case 2: the missing node moves up to the parent.                        *)
LEMMA DeleteColours2 ==
    ASSUME TreeFit, NEW H, NEW r, NEW c, NEW p, NEW sub, Shape(H, r, c, p, sub),
           NEW d, NEW h, NEW at, NEW sd, NEW x, Coloured(H, r, c, d, h, at, sd, {x}, {x}),
           PlaceOf(H, r, c, x, at, sd), x # r, ~ d[x],
           NEW w, w = c[at][Other(sd)], ~ d[w], \A q \in Sides : ~ d[c[w][q]],
           NEW d1, Painted(H, d, w, TRUE, d1)
    PROVE  \E h1, up, s : Coloured(H, r, c, d1, h1, up, s, {at}, {at}) /\ PlaceOf(H, r, c, at, up, s)
  <1> USE DEF Painted
  <1>1. x \in H \cup {Nil} /\ at \in H /\ c[at][sd] = x /\ sd \in Sides /\ Nil \notin H
    BY ShapeFacts DEF PlaceOf
  <1>2. /\ w \in H /\ w # x /\ w # at /\ w # r /\ p[w] = at
        /\ h[w] = h[x] + 1 /\ h[at] = h[w] + Unit(~ d[at])
        /\ \A n \in H, t \in Sides : d[n] => ~ d[c[n][t]]
        /\ ~ d[r]
    BY DeletePlace
  <1>3. /\ ~ d[Nil] /\ h[Nil] = 1 /\ \A n \in H \cup {Nil} : h[n] \in Nat \ {0}
        /\ \A n \in H : Even(c, d, h, at, sd, n)
    BY DEF Coloured
  <1>4. PICK up, s : /\ s \in Sides
                     /\ IF at = r THEN up = Nil ELSE up = p[at] /\ up \in H /\ c[up][s] = at
    <2>1. CASE at = r
      BY <2>1, <1>1
    <2>2. CASE at # r
      BY <2>2, <1>1 DEF Shape
    <2> QED
      BY <2>1, <2>2
  <1>5. PlaceOf(H, r, c, at, up, s)
    BY <1>1, <1>4 DEF PlaceOf
  <1>6. \A n \in H, q \in Sides : /\ c[n][q] \in H \cup {Nil}
                                  /\ c[n][q] = at => n = up /\ q = s
                                  /\ c[n][q] = w => n = at /\ q = Other(sd)
    <2>1. \A n \in H, q \in Sides : c[n][q] = at => at # r /\ n = p[at]
      BY <1>1, OneParent
    <2>2. \A n \in H, q \in Sides : c[n][q] = at => n = up /\ q = s
      <3> SUFFICES ASSUME NEW n \in H, NEW q \in Sides, c[n][q] = at PROVE n = up /\ q = s
        OBVIOUS
      <3>1. at # r /\ n = up
        BY <2>1, <1>4
      <3>2. c[up][s] = at
        BY <3>1, <1>4
      <3> QED
        BY <3>1, <3>2, <1>1, <1>4, OneParent
    <2>3. \A n \in H, q \in Sides : c[n][q] = w => n = at /\ q = Other(sd)
      <3>1. Other(sd) \in Sides /\ w # Nil
        BY <1>1, <1>2, TwoSides
      <3> QED
        BY <3>1, <1>1, OneParent
    <2> QED
      BY <2>2, <2>3, ShapeFacts
  <1>7. /\ Other(sd) \in Sides /\ Other(sd) # sd /\ up # at /\ up # w
        /\ \A q \in Sides : c[w][q] \notin {w, at}
    <2>1. Other(sd) \in Sides /\ Other(sd) # sd /\ Other(Other(sd)) = sd
      BY <1>1, TwoSides
    <2>2. \A q \in Sides : c[w][q] # w /\ c[at][q] # at
      BY <1>1, <1>2, OneParent
    <2>3. \A q \in Sides : c[w][q] # at
      <3>1. at \in sub[at] /\ at \notin sub[w]
        BY <2>1, <1>1, ShapeFacts DEF Shape, Family
      <3>2. ASSUME NEW q \in Sides PROVE sub[c[w][q]] \subseteq sub[w]
        BY <1>2, <3>2 DEF Shape, Family
      <3> QED
        BY <3>1, <3>2
    <2>4. up # at /\ up # w
      BY <2>2, <2>3, <1>1, <1>2, <1>4
    <2> QED
      BY <2>1, <2>2, <2>3, <2>4
  <1>8. \A q \in Sides : h[w] = h[c[w][q]] + 1
    <2>1. ASSUME NEW q \in Sides PROVE h[w] = h[c[w][q]] + 1
      <3>1. h[w] = h[c[w][q]] + Unit(w = at /\ q = sd) + Unit(~ d[w])
        BY <1>2, <1>3 DEF Even
      <3> QED
        BY <3>1, <1>2, <1>3, <1>6 DEF Unit
    <2> QED
      BY <2>1
  <1>9. PICK h1 : h1 = [n \in H \cup {Nil} |-> IF n = w THEN h[w] - 1
                                               ELSE IF n = at THEN h[at] - 1 ELSE h[n]]
    OBVIOUS
  <1>10. /\ h1[w] = h[w] - 1 /\ h1[at] = h[at] - 1 /\ d1[w]
         /\ \A n \in H \cup {Nil} : n # w => d1[n] = d[n]
         /\ \A n \in H \cup {Nil} : n \notin {w, at} => h1[n] = h[n]
    BY <1>1, <1>2, <1>9
  <1>11. h1[w] = h[x] /\ h1[at] = h[x] + Unit(~ d[at])
    <2>1. h[x] \in Nat /\ Unit(~ d[at]) \in Nat
      BY <1>1, <1>3 DEF Unit
    <2> QED
      BY <2>1, <1>2, <1>10
  <1>12. /\ ~ d1[Nil] /\ h1[Nil] = 1 /\ \A n \in H : h1[n] \in Nat \ {0}
    <2>1. h1[w] \in Nat \ {0} /\ h1[at] \in Nat \ {0}
      BY <1>1, <1>3, <1>11 DEF Unit
    <2> QED
      BY <2>1, <1>1, <1>2, <1>3, <1>10
  <1>13. Even(c, d1, h1, up, s, w)
    <2>1. Unit(~ d1[w]) = 0 /\ \A q \in Sides : Unit(w = up /\ q = s) = 0
      BY <1>7, <1>10 DEF Unit
    <2>2. ASSUME NEW q \in Sides PROVE h1[w] = h1[c[w][q]] + 0 + 0
      <3>1. h1[c[w][q]] = h[c[w][q]] /\ h[c[w][q]] \in Nat
        BY <1>2, <1>3, <1>6, <1>7, <1>10
      <3> QED
        BY <3>1, <1>8, <1>10
    <2> QED
      BY <2>1, <2>2 DEF Even
  <1>14. Even(c, d1, h1, up, s, at)
    <2>1. Unit(~ d1[at]) = Unit(~ d[at]) /\ \A q \in Sides : Unit(at = up /\ q = s) = 0
      BY <1>1, <1>2, <1>7, <1>10 DEF Unit
    <2>2. h1[x] = h[x]
      BY <1>1, <1>2, <1>7, <1>10, OneParent
    <2>3. \A q \in Sides : h1[c[at][q]] = h[x]
      BY <2>2, <1>1, <1>11, TwoSides
    <2>4. h[x] \in Nat /\ Unit(~ d[at]) \in Nat
      BY <1>1, <1>3 DEF Unit
    <2> QED
      BY <2>1, <2>3, <2>4, <1>11 DEF Even
  <1>15. ASSUME NEW n \in H, n \notin {w, at} PROVE Even(c, d1, h1, up, s, n)
    <2>1. h1[n] = h[n] /\ d1[n] = d[n] /\ \A q \in Sides : Unit(n = at /\ q = sd) = 0
      BY <1>10, <1>15 DEF Unit
    <2>2. ASSUME NEW q \in Sides
          PROVE  h1[n] = h1[c[n][q]] + Unit(n = up /\ q = s) + Unit(~ d1[n])
      <3>1. h[n] = h[c[n][q]] + 0 + Unit(~ d[n])
        BY <2>1, <1>3 DEF Even
      <3>2. h[c[n][q]] \in Nat \ {0} /\ Unit(~ d[n]) \in Nat /\ Unit(~ d1[n]) = Unit(~ d[n])
        BY <2>1, <1>3, <1>6 DEF Unit
      <3>3. CASE c[n][q] = at
        <4>1. n = up /\ q = s
          BY <3>3, <1>6
        <4>2. Unit(n = up /\ q = s) = 1 /\ h1[c[n][q]] = h[c[n][q]] - 1
          BY <4>1, <3>3, <1>10 DEF Unit
        <4> QED
          BY <4>2, <3>1, <3>2, <2>1
      <3>4. CASE c[n][q] # at
        <4>1. ~ (n = up /\ q = s)
          BY <3>4, <1>4, <1>1, <1>15
        <4>2. Unit(n = up /\ q = s) = 0 /\ h1[c[n][q]] = h[c[n][q]]
          BY <4>1, <3>4, <1>6, <1>10, <1>15 DEF Unit
        <4> QED
          BY <4>2, <3>1, <3>2, <2>1
      <3> QED
        BY <3>3, <3>4
    <2> QED
      BY <2>2 DEF Even
  <1>16. ASSUME NEW n \in H PROVE Parted(c, d1, {at}, {at}, n)
    <2>1. ASSUME NEW q \in Sides, d1[n], d1[c[n][q]], n # at PROVE FALSE
      <3>1. c[n][q] # w /\ c[n][q] \in H \cup {Nil}
        BY <2>1, <1>6
      <3>2. d[c[n][q]]
        BY <3>1, <2>1, <1>10
      <3>3. n # w
        BY <3>2
      <3> QED
        BY <3>2, <3>3, <2>1, <1>2, <1>10
    <2> QED
      BY <2>1 DEF Parted
  <1>17. ~ d1[r]
    BY <1>2, <1>10, ShapeFacts
  <1> QED
    BY <1>5, <1>12, <1>13, <1>14, <1>15, <1>16, <1>17 DEF Coloured

(* The last node is painted black, which makes up for the missing one.     *)
LEMMA DeleteColoursEnd ==
    ASSUME TreeFit, NEW H, NEW r, NEW c, NEW p, NEW sub, Shape(H, r, c, p, sub),
           NEW d, NEW h, NEW at, NEW sd, NEW x, Coloured(H, r, c, d, h, at, sd, {x}, {x}),
           PlaceOf(H, r, c, x, at, sd), x = r \/ d[x],
           NEW d1, Painted(H, d, x, FALSE, d1)
    PROVE  \E h1 : Coloured(H, r, c, d1, h1, Nil, sd, {}, {})
  <1> USE DEF Painted
  <1>1. x \in H \cup {Nil} /\ Nil \notin H /\ sd \in Sides
    BY ShapeFacts DEF PlaceOf
  <1>2. /\ ~ d[Nil] /\ h[Nil] = 1 /\ \A n \in H \cup {Nil} : h[n] \in Nat \ {0}
        /\ \A n \in H : Even(c, d, h, at, sd, n) /\ Parted(c, d, {x}, {x}, n)
        /\ d[r] => r = x
    BY DEF Coloured
  <1>3. PICK h1 : h1 = [n \in H \cup {Nil} |-> IF n = x THEN h[n] + Unit(d[n]) ELSE h[n]]
    OBVIOUS
  <1>4. /\ h1[x] = h[x] + Unit(d[x]) /\ ~ d1[x]
        /\ \A n \in H \cup {Nil} : n # x => h1[n] = h[n] /\ d1[n] = d[n]
    BY <1>1, <1>3
  <1>5. ~ d1[Nil] /\ h1[Nil] = 1 /\ \A n \in H : h1[n] \in Nat \ {0}
    <2>1. x = Nil => Unit(d[x]) = 0
      BY <1>2 DEF Unit
    <2>2. h1[Nil] = 1 /\ ~ d1[Nil]
      BY <2>1, <1>1, <1>2, <1>4
    <2>3. x \in H => h1[x] \in Nat \ {0}
      BY <1>2, <1>4 DEF Unit
    <2> QED
      BY <2>2, <2>3, <1>2, <1>4
  <1>6. ASSUME NEW n \in H, NEW q \in Sides
        PROVE  /\ c[n][q] \in H \cup {Nil}
               /\ n = at /\ q = sd => c[n][q] = x /\ d[x] /\ n # x
               /\ c[n][q] = x /\ d[x] => n = at /\ q = sd
    <2>1. c[n][q] \in H \cup {Nil}
      BY ShapeFacts
    <2>2. n = at => x # r
      BY <1>1 DEF PlaceOf
    <2>3. n = at /\ q = sd => c[n][q] = x /\ d[x] /\ n # x
      <3>1. ASSUME n = at, q = sd PROVE c[n][q] = x /\ d[x]
        BY <3>1, <2>2 DEF PlaceOf
      <3>2. ASSUME n = at, q = sd PROVE n # x
        BY <3>1, <3>2, <1>1, <1>2, OneParent
      <3> QED
        BY <3>1, <3>2
    <2>4. ASSUME c[n][q] = x, d[x] PROVE n = at /\ q = sd
      <3>1. x # Nil
        BY <2>4, <1>2
      <3>2. x # r
        BY <3>1, <2>4, OneParent
      <3>3. at \in H /\ c[at][sd] = x
        BY <3>2 DEF PlaceOf
      <3> QED
        BY <3>1, <3>3, <2>4, <1>1, OneParent
    <2> QED
      BY <2>1, <2>3, <2>4
  <1>7. ASSUME NEW n \in H PROVE Even(c, d1, h1, Nil, sd, n) /\ Parted(c, d1, {}, {}, n)
    <2>1. ASSUME NEW q \in Sides
          PROVE h1[n] = h1[c[n][q]] + Unit(n = Nil /\ q = sd) + Unit(~ d1[n])
      <3>0. n # Nil /\ Unit(n = Nil /\ q = sd) = 0
        BY <1>1 DEF Unit
      <3>1. h[n] = h[c[n][q]] + Unit(n = at /\ q = sd) + Unit(~ d[n])
        BY <1>2 DEF Even
      <3>2. c[n][q] \in H \cup {Nil} /\ h[c[n][q]] \in Nat /\ h[n] \in Nat
        BY <1>2, <1>6
      <3>3. CASE n = x
        <4>1. ~ (n = at /\ q = sd) /\ (d[x] => c[n][q] # x)
          BY <3>3, <1>6
        <4>2. c[n][q] # x
          BY <3>3, <1>1, OneParent, ShapeFacts
        <4>3. h1[c[n][q]] = h[c[n][q]]
          BY <4>2, <3>2, <1>4
        <4> QED
          BY <4>1, <4>3, <3>0, <3>1, <3>2, <3>3, <1>4 DEF Unit
      <3>4. CASE n # x
        <4>1. h1[n] = h[n] /\ d1[n] = d[n]
          BY <3>4, <1>4
        <4>2. h1[c[n][q]] = h[c[n][q]] + Unit(n = at /\ q = sd)
          <5>1. CASE n = at /\ q = sd
            <6>1. c[n][q] = x /\ d[x]
              BY <5>1, <1>6
            <6> QED
              BY <6>1, <5>1, <1>4 DEF Unit
          <5>2. CASE ~ (n = at /\ q = sd)
            <6>1. ~ (c[n][q] = x /\ d[x])
              BY <5>2, <1>6
            <6>2. h1[c[n][q]] = h[c[n][q]]
              BY <6>1, <3>2, <1>4 DEF Unit
            <6> QED
              BY <6>2, <5>2, <3>2 DEF Unit
          <5> QED
            BY <5>1, <5>2
        <4>3. Unit(n = at /\ q = sd) \in Nat /\ Unit(~ d[n]) \in Nat
          BY DEF Unit
        <4> QED
          BY <4>1, <4>2, <4>3, <3>0, <3>1, <3>2
      <3> QED
        BY <3>3, <3>4
    <2>2. ASSUME NEW q \in Sides, d1[n], d1[c[n][q]] PROVE FALSE
      <3>1. d[n] /\ d[c[n][q]] /\ n # x /\ c[n][q] # x
        BY <2>2, <1>4, <1>6
      <3> QED
        BY <3>1, <1>2 DEF Parted
    <2> QED
      BY <2>1, <2>2 DEF Even, Parted
  <1>8. ~ d1[r]
    BY <1>2, <1>4, ShapeFacts
  <1> QED
    BY <1>5, <1>7, <1>8 DEF Coloured

-----------------------------------------------------------------------------
(* What the two forms of a removal do to the colours, before the fix-up.   *)

(* The nodes of H keep their colours.                                      *)
Kept(H, d, d1) == \A n \in H \cup {Nil} : d1[n] = d[n]

(* Cutting out a red node changes no height; a black one is missed at the  *)
(* place of its child.                                                     *)
LEMMA CutColours ==
    ASSUME TreeFit, NEW H, NEW r, NEW c, NEW p, NEW sub, Shape(H, r, c, p, sub),
           NEW z, NEW x, NEW t, NEW r1, NEW c1, NEW p1, Cut(H, z, x, t, r, c, p, r1, c1, p1),
           NEW d, NEW h, NEW sd, Coloured(H, r, c, d, h, Nil, sd, {}, {}),
           NEW d1, Kept(H \ {z}, d, d1)
    PROVE  /\ d[z] => Coloured(H \ {z}, r1, c1, d1, h, Nil, sd, {}, {})
           /\ ~ d[z] => \E s : /\ Coloured(H \ {z}, r1, c1, d1, h, p[z], s, {x}, {x})
                               /\ PlaceOf(H \ {z}, r1, c1, x, p[z], s)
  <1> USE DEF Kept
  <1>1. PICK H1 : H1 = H \ {z}
    OBVIOUS
  <1>2. /\ z \in H /\ t \in Sides /\ x = c[z][Other(t)] /\ Other(t) \in Sides
        /\ r1 = IF r = z THEN x ELSE r
        /\ \A n \in H1 : \A q \in Sides : c1[n][q] = IF c[n][q] = z THEN x ELSE c[n][q]
    BY <1>1, TwoSides DEF Cut
  <1>3. /\ Nil \notin H /\ r \in H \cup {Nil} /\ (r = Nil => H = {})
        /\ \A n \in H, q \in Sides : c[n][q] \in H \cup {Nil}
    BY ShapeFacts
  <1>4. x \in H1 \cup {Nil} /\ (x # Nil => x # r) /\ z # Nil
    BY <1>1, <1>2, <1>3, OneParent
  <1>5. /\ ~ d[Nil] /\ h[Nil] = 1 /\ \A n \in H \cup {Nil} : h[n] \in Nat \ {0}
        /\ \A n \in H, q \in Sides : h[n] = h[c[n][q]] + Unit(~ d[n])
        /\ \A n \in H, q \in Sides : d[n] => ~ d[c[n][q]]
        /\ ~ d[r]
    <2>1. ASSUME NEW n \in H, NEW q \in Sides PROVE h[n] = h[c[n][q]] + Unit(~ d[n])
      <3>1. h[n] = h[c[n][q]] + Unit(n = Nil /\ q = sd) + Unit(~ d[n])
        BY DEF Coloured, Even
      <3>2. h[c[n][q]] \in Nat
        BY <1>3 DEF Coloured
      <3> QED
        BY <3>1, <3>2, <1>3 DEF Unit
    <2>2. \A n \in H, q \in Sides : d[n] => ~ d[c[n][q]]
      BY DEF Coloured, Parted
    <2>3. ~ d[Nil] /\ h[Nil] = 1 /\ (\A n \in H \cup {Nil} : h[n] \in Nat \ {0}) /\ ~ d[r]
      BY DEF Coloured
    <2> QED
      BY <2>1, <2>2, <2>3
  <1>6. h[z] = h[x] + Unit(~ d[z]) /\ (d[z] => ~ d[x])
    BY <1>2, <1>5
  <1>7. /\ ~ d1[Nil] /\ \A n \in H1 \cup {Nil} : d1[n] = d[n]
    BY <1>1, <1>5
  <1>8. \A n \in H1 : n \in H /\ h[n] \in Nat \ {0}
    BY <1>1, <1>5
  <1>9. ASSUME NEW n \in H1, NEW q \in Sides
        PROVE  /\ c1[n][q] \in H1 \cup {Nil}
               /\ c[n][q] # z => c1[n][q] = c[n][q]
               /\ c[n][q] = z => c1[n][q] = x
    BY <1>1, <1>2, <1>3, <1>4, <1>8
  <1>10. CASE d[z]
    <2>1. ASSUME NEW n \in H1 PROVE Even(c1, d1, h, Nil, sd, n) /\ Parted(c1, d1, {}, {}, n)
      <3>1. ASSUME NEW q \in Sides PROVE h[c1[n][q]] = h[c[n][q]] /\ (d[n] => ~ d[c1[n][q]])
        <4>1. h[x] = h[z]
          BY <1>4, <1>5, <1>6, <1>8, <1>10 DEF Unit
        <4>2. CASE c[n][q] = z
          BY <4>1, <4>2, <1>6, <1>9, <1>10
        <4>3. CASE c[n][q] # z
          BY <4>3, <1>5, <1>8, <1>9
        <4> QED
          BY <4>2, <4>3
      <3>2. \A q \in Sides : h[c[n][q]] \in Nat /\ Unit(n = Nil /\ q = sd) = 0
        BY <1>3, <1>5, <1>8 DEF Unit
      <3>3. ASSUME NEW q \in Sides
            PROVE h[n] = h[c1[n][q]] + Unit(n = Nil /\ q = sd) + Unit(~ d1[n])
        <4>1. h[n] = h[c[n][q]] + Unit(~ d[n]) /\ d1[n] = d[n]
          BY <1>5, <1>7, <1>8
        <4> QED
          BY <4>1, <3>1, <3>2
      <3>4. \A q \in Sides : d1[n] => ~ d1[c1[n][q]]
        BY <3>1, <1>7, <1>9
      <3> QED
        BY <3>3, <3>4 DEF Even, Parted
    <2>2. ~ d1[r1]
      BY <1>1, <1>2, <1>3, <1>4, <1>5, <1>7, <1>10
    <2>3. Coloured(H1, r1, c1, d1, h, Nil, sd, {}, {})
      BY <2>1, <2>2, <1>5, <1>7, <1>8 DEF Coloured
    <2> QED
      BY <2>3, <1>1, <1>10
  <1>11. CASE ~ d[z]
    <2>1. PICK at, s : /\ s \in Sides
                       /\ IF z = r THEN at = Nil ELSE at = p[z] /\ at \in H /\ c[at][s] = z
      <3>1. CASE z = r
        BY <3>1, <1>2
      <3>2. CASE z # r
        BY <3>2, <1>2 DEF Shape
      <3> QED
        BY <3>1, <3>2
    <2>0. at = p[z]
      BY <2>1, <1>2, <1>3 DEF Shape
    <2>2. \A n \in H, q \in Sides : c[n][q] = z => z # r /\ n = at /\ q = s
      <3> SUFFICES ASSUME NEW n \in H, NEW q \in Sides, c[n][q] = z
                   PROVE z # r /\ n = at /\ q = s
        OBVIOUS
      <3>1. z # r /\ p[z] = n
        BY <1>4, OneParent
      <3>2. at = n /\ c[at][s] = z
        BY <3>1, <2>1
      <3> QED
        BY <3>1, <3>2, <1>4, <2>1, OneParent
    <2>3. z # r => at \in H1
      <3>1. z # r => at # z
        BY <1>2, <1>4, <2>1, OneParent
      <3> QED
        BY <3>1, <2>1, <1>1
    <2>4. PlaceOf(H1, r1, c1, x, at, s)
      <3>1. CASE z = r
        BY <3>1, <2>1, <1>2, <1>4 DEF PlaceOf
      <3>2. CASE z # r
        <4>1. x # r1
          BY <3>2, <1>2, <1>3, <1>4
        <4>2. at \in H1 /\ c1[at][s] = x
          BY <3>2, <2>1, <2>3, <1>9
        <4> QED
          BY <4>1, <4>2, <2>1, <1>4 DEF PlaceOf
      <3> QED
        BY <3>1, <3>2
    <2>5. h[z] = h[x] + 1 /\ h[x] \in Nat
      BY <1>1, <1>4, <1>5, <1>6, <1>11 DEF Unit
    <2>6. ASSUME NEW n \in H1, NEW q \in Sides
          PROVE  /\ h[n] = h[c1[n][q]] + Unit(n = at /\ q = s) + Unit(~ d1[n])
                 /\ d1[n] /\ d1[c1[n][q]] => c1[n][q] = x
      <3>1. h[n] = h[c[n][q]] + Unit(~ d[n]) /\ (d[n] => ~ d[c[n][q]]) /\ d1[n] = d[n]
        BY <1>5, <1>7, <1>8
      <3>2. CASE c[n][q] = z
        <4>1. n = at /\ q = s /\ c1[n][q] = x
          BY <3>2, <2>2, <1>8, <1>9
        <4>2. Unit(n = at /\ q = s) = 1
          BY <4>1 DEF Unit
        <4> QED
          BY <4>1, <4>2, <3>1, <3>2, <2>5
      <3>3. CASE c[n][q] # z
        <4>1. c1[n][q] = c[n][q] /\ ~ (n = at /\ q = s)
          BY <3>3, <2>1, <1>3, <1>8, <1>9
        <4>2. Unit(n = at /\ q = s) = 0 /\ h[c[n][q]] \in Nat
          BY <4>1, <1>3, <1>5, <1>8 DEF Unit
        <4> QED
          BY <4>1, <4>2, <3>1, <1>7, <1>9
      <3> QED
        BY <3>2, <3>3
    <2>7. d1[r1] => r1 \in {x}
      BY <1>1, <1>2, <1>3, <1>5, <1>7
    <2>8. Coloured(H1, r1, c1, d1, h, at, s, {x}, {x})
      BY <2>6, <2>7, <1>5, <1>7, <1>8 DEF Coloured, Even, Parted
    <2> QED
      BY <2>0, <2>4, <2>8, <1>1, <1>11
  <1> QED
    BY <1>10, <1>11

(* A node takes over place and colour of another.                          *)
LEMMA ReplaceColours ==
    ASSUME TreeFit, NEW H, NEW r, NEW c, NEW p, NEW sub, Shape(H, r, c, p, sub),
           NEW z, NEW y, NEW r1, NEW c1, NEW p1, TakesPlace(H, z, y, r, c, p, r1, c1, p1),
           NEW d, NEW h, NEW at, NEW sd, NEW lo, NEW hi, Coloured(H, r, c, d, h, at, sd, lo, hi),
           z \notin lo \cup hi, y # at,
           NEW d1, Kept(H \ {z}, d, d1), d1[y] = d[z]
    PROVE  /\ \E h1 : Coloured((H \ {z}) \cup {y}, r1, c1, d1, h1,
                               IF at = z THEN y ELSE at, sd, lo, hi)
           /\ \A x \in (H \ {z}) \cup {Nil} : PlaceOf(H, r, c, x, at, sd) =>
                  PlaceOf((H \ {z}) \cup {y}, r1, c1, x, IF at = z THEN y ELSE at, sd)
  <1> USE DEF Kept
  <1>1. PICK H1, at1 : H1 = (H \ {z}) \cup {y} /\ at1 = IF at = z THEN y ELSE at
    OBVIOUS
  <1>2. /\ Nil \notin H /\ r \in H \cup {Nil} /\ y # Nil /\ y \notin H /\ z \in H /\ y # z
        /\ \A n \in H, q \in Sides : c[n][q] \in H \cup {Nil}
    BY ShapeFacts, NodesApart DEF TakesPlace
  <1>3. /\ r1 = IF r = z THEN y ELSE r
        /\ \A q \in Sides : c1[y][q] = c[z][q]
        /\ \A n \in H \ {z} : \A q \in Sides : c1[n][q] = IF c[n][q] = z THEN y ELSE c[n][q]
    BY DEF TakesPlace
  <1>4. /\ ~ d[Nil] /\ h[Nil] = 1 /\ \A n \in H \cup {Nil} : h[n] \in Nat \ {0}
        /\ \A n \in H : Even(c, d, h, at, sd, n) /\ Parted(c, d, lo, hi, n)
        /\ d[r] => r \in lo
    BY DEF Coloured
  <1>5. PICK h1 : h1 = [n \in H1 \cup {Nil} |-> IF n = y THEN h[z] ELSE h[n]]
    OBVIOUS
  <1>6. /\ h1[y] = h[z] /\ d1[y] = d[z]
        /\ \A n \in (H \ {z}) \cup {Nil} : h1[n] = h[n] /\ d1[n] = d[n]
    BY <1>1, <1>2, <1>5
  <1>7. ASSUME NEW n \in H1, NEW m \in H, m = IF n = y THEN z ELSE n, NEW q \in Sides
        PROVE  /\ h1[n] = h[m] /\ d1[n] = d[m] /\ (n = at1 <=> m = at) /\ (m \in hi => n \in hi)
               /\ \/ c[m][q] = z /\ c1[n][q] = y
                  \/ c[m][q] # z /\ c1[n][q] = c[m][q]
    <2>1. n \in H \ {z} \/ n = y
      BY <1>1
    <2>2. h1[n] = h[m] /\ d1[n] = d[m]
      BY <2>1, <1>6, <1>7
    <2>3. n = at1 <=> m = at
      BY <2>1, <1>1, <1>2, <1>7
    <2>4. m \in hi => n \in hi
      BY <2>1, <1>2, <1>7
    <2>5. CASE n = y
      <3>1. c1[n][q] = c[z][q] /\ c[z][q] # z /\ m = z
        BY <2>5, <1>2, <1>3, <1>7, OneParent
      <3> QED
        BY <3>1, <2>2, <2>3, <2>4
    <2>6. CASE n # y
      BY <2>1, <2>2, <2>3, <2>4, <2>6, <1>3, <1>7
    <2> QED
      BY <2>5, <2>6
  <1>8. ASSUME NEW n \in H1 PROVE Even(c1, d1, h1, at1, sd, n) /\ Parted(c1, d1, lo, hi, n)
    <2>1. PICK m \in H : m = IF n = y THEN z ELSE n
      BY <1>1, <1>2
    <2>2. Even(c, d, h, at, sd, m) /\ Parted(c, d, lo, hi, m)
      BY <1>4
    <2>3. ASSUME NEW q \in Sides
          PROVE  /\ h1[n] = h1[c1[n][q]] + Unit(n = at1 /\ q = sd) + Unit(~ d1[n])
                 /\ d1[n] /\ d1[c1[n][q]] => c1[n][q] \in lo \/ n \in hi
      <3>1. /\ h1[n] = h[m] /\ d1[n] = d[m] /\ (n = at1 <=> m = at) /\ (m \in hi => n \in hi)
            /\ \/ c[m][q] = z /\ c1[n][q] = y
               \/ c[m][q] # z /\ c1[n][q] = c[m][q]
        BY <2>1, <1>7
      <3>2. h1[c1[n][q]] = h[c[m][q]] /\ d1[c1[n][q]] = d[c[m][q]]
        BY <3>1, <1>2, <1>6
      <3>3. /\ h[m] = h[c[m][q]] + Unit(m = at /\ q = sd) + Unit(~ d[m])
            /\ d[m] /\ d[c[m][q]] => c[m][q] \in lo \/ m \in hi
        BY <2>2 DEF Even, Parted
      <3>4. Unit(m = at /\ q = sd) = Unit(n = at1 /\ q = sd)
        BY <3>1 DEF Unit
      <3>5. c[m][q] \in lo => c1[n][q] \in lo
        BY <3>1
      <3>6. h1[n] = h1[c1[n][q]] + Unit(n = at1 /\ q = sd) + Unit(~ d1[n])
        BY <3>1, <3>2, <3>3, <3>4
      <3>7. d1[n] /\ d1[c1[n][q]] => c1[n][q] \in lo \/ n \in hi
        BY <3>1, <3>2, <3>3, <3>5
      <3> QED
        BY <3>6, <3>7
    <2> QED
      BY <2>3 DEF Even, Parted
  <1>9. /\ ~ d1[Nil] /\ h1[Nil] = 1 /\ \A n \in H1 : h1[n] \in Nat \ {0}
    <2>1. \A n \in H1 : n = y \/ n \in H \ {z}
      BY <1>1
    <2> QED
      BY <2>1, <1>2, <1>4, <1>6
  <1>10. d1[r1] => r1 \in lo
    BY <1>2, <1>3, <1>4, <1>6
  <1>11. ASSUME NEW x \in (H \ {z}) \cup {Nil}, PlaceOf(H, r, c, x, at, sd)
         PROVE  PlaceOf(H1, r1, c1, x, at1, sd)
    <2>1. x \in H1 \cup {Nil} /\ sd \in Sides /\ x # y /\ x # z
      BY <1>1, <1>2, <1>11 DEF PlaceOf
    <2>2. CASE x = r
      BY <2>1, <2>2, <1>1, <1>2, <1>3, <1>11 DEF PlaceOf
    <2>3. CASE x # r
      <3>1. x # r1 /\ at \in H /\ c[at][sd] = x
        BY <2>1, <2>3, <1>3, <1>11 DEF PlaceOf
      <3>2. at1 \in H1 /\ c1[at1][sd] = x
        BY <3>1, <2>1, <1>1, <1>3
      <3> QED
        BY <3>1, <3>2, <2>1 DEF PlaceOf
    <2> QED
      BY <2>2, <2>3
  <1> QED
    BY <1>1, <1>8, <1>9, <1>10, <1>11 DEF Coloured

-----------------------------------------------------------------------------
(* What the steps write, one link after the other: that the writes of the  *)
(* code are the changes of shape above.                                    *)

(* Two links for every node and the sentinel.                              *)
LinksOf(f) == f \in [Cells -> [Sides -> Cells]]

(* The types of the state.                                                 *)
TreeTyped ==
    /\ IsFiniteSet(made)
    /\ LinksOf(child)
    /\ parent \in [Cells -> Cells]
    /\ red \in [Cells -> BOOLEAN]

(* Writing one link of one node.                                           *)
Rewritten(f, a, b, v, g) == g = [f EXCEPT ![a][b] = v]

(* What it leaves.                                                         *)
LEMMA LinkWritten ==
    ASSUME NEW f, LinksOf(f), NEW a \in Cells, NEW b \in Sides, NEW v \in Cells,
           NEW g, Rewritten(f, a, b, v, g)
    PROVE  /\ LinksOf(g)
           /\ \A i \in Cells, j \in Sides : g[i][j] = IF i = a /\ j = b THEN v ELSE f[i][j]
  <1>1. f[a] \in [Sides -> Cells] /\ f \in [Cells -> [Sides -> Cells]]
    BY DEF LinksOf
  <1>2. PICK k : k = [f[a] EXCEPT ![b] = v]
    OBVIOUS
  <1>3. k \in [Sides -> Cells] /\ \A j \in Sides : k[j] = IF j = b THEN v ELSE f[a][j]
    BY <1>1, <1>2
  <1>4. g = [f EXCEPT ![a] = k]
    BY <1>2 DEF Rewritten
  <1>5. g \in [Cells -> [Sides -> Cells]] /\ \A i \in Cells : g[i] = IF i = a THEN k ELSE f[i]
    BY <1>1, <1>3, <1>4
  <1> QED
    BY <1>3, <1>5 DEF LinksOf

(* What a rotation writes ...                                              *)
Rotated(x, s, r1, c1, p1) ==
    LET y == child[x][Other(s)]
        moved == child[y][s]
        up == parent[x]
    IN  /\ c1 = [child EXCEPT ![x][Other(s)] = moved,
                              ![up][SideOf(x)] = IF up = Nil THEN @ ELSE y,
                              ![y][s] = x]
        /\ p1 = [parent EXCEPT ![moved] = IF moved = Nil THEN @ ELSE x, ![y] = up, ![x] = y]
        /\ r1 = IF up = Nil THEN y ELSE root

(* ... is a turn.                                                          *)
LEMMA RotateTurns ==
    ASSUME TreeFit, TreeTyped, NEW sub, Shape(made, root, child, parent, sub),
           NEW x \in made, NEW s \in Sides, NEW y, y = child[x][Other(s)], y # Nil,
           NEW r1, NEW c1, NEW p1, Rotated(x, s, r1, c1, p1)
    PROVE  /\ Turned(made, x, y, child[y][s], s, root, child, parent, r1, c1, p1)
           /\ LinksOf(c1) /\ p1 \in [Cells -> Cells]
           /\ p1[Nil] = parent[Nil]
  <1>1. PICK f, b, up, so : f = Other(s) /\ b = child[y][s] /\ up = parent[x] /\ so = SideOf(x)
    OBVIOUS
  <1>2. /\ Nil \notin made /\ made \subseteq Cells /\ Nil \in Cells
        /\ f \in Sides /\ f # s /\ so \in Sides
        /\ \A q \in Sides : q = s \/ q = f
    BY <1>1, TwoSides, ShapeFacts DEF Cells, SideOf, Sides
  <1>3. y \in made /\ y # x /\ b \in made \cup {Nil} /\ b # y /\ (b # Nil => parent[b] = y)
    <2>1. y \in made /\ y # x
      BY <1>1, <1>2, OneParent
    <2> QED
      BY <2>1, <1>1, <1>2, OneParent, ShapeFacts
  <1>4. parent[y] = x /\ (up = Nil <=> x = root) /\ up \in made \cup {Nil}
    BY <1>1, <1>2, ShapeFacts
  <1>5. up # y /\ b # x /\ up # x
    <2>1. up # Nil => child[up][so] = x /\ x # up
      BY <1>1, <1>2, ParentKnows DEF SideOf
    <2>2. x \in sub[x] /\ x \notin sub[y] /\ y \in sub[y]
      BY <1>1, <1>2, <1>3, ShapeFacts DEF Family
    <2>3. \A q \in Sides : child[y][q] # x
      BY <2>2, <1>3 DEF Shape, Family
    <2>4. b # x
      BY <2>3, <1>1
    <2> QED
      BY <2>1, <2>3, <2>4, <1>2, <1>3
  <1>6. \A n \in made, q \in Sides : child[n][q] = x => up # Nil /\ n = up /\ q = so
    <2> SUFFICES ASSUME NEW n \in made, NEW q \in Sides, child[n][q] = x
                 PROVE  up # Nil /\ n = up /\ q = so
      OBVIOUS
    <2>1. parent[x] = n
      BY <1>2, ShapeFacts
    <2>2. up = n /\ up # Nil
      BY <2>1, <1>1, <1>2
    <2>3. child[up][so] = x
      BY <2>2, <1>1, ParentKnows DEF SideOf
    <2> QED
      BY <2>2, <2>3, <1>2, OneParent
  <1>7. up # Nil => child[up][so] = x
    BY <1>1, ParentKnows DEF SideOf
  <1>8. c1 = [child EXCEPT ![x][f] = b, ![up][so] = IF up = Nil THEN @ ELSE y, ![y][s] = x]
    BY <1>1 DEF Rotated
  <1>9. PICK k1 : k1 = [child EXCEPT ![x][f] = b]
    OBVIOUS
  <1>24. PICK v : v = IF up = Nil THEN child[up][so] ELSE y
    OBVIOUS
  <1>23. c1 = [child EXCEPT ![x][f] = b, ![up][so] = v, ![y][s] = x]
    BY <1>8, <1>24
  <1>25. c1 = [k1 EXCEPT ![up][so] = v, ![y][s] = x]
    BY <1>9, <1>23
  <1>26. PICK k2 : k2 = [k1 EXCEPT ![up][so] = v]
    OBVIOUS
  <1>27. c1 = [k2 EXCEPT ![y][s] = x]
    BY <1>25, <1>26
  <1>10. Rewritten(child, x, f, b, k1)
    BY <1>9 DEF Rewritten
  <1>28. Rewritten(k1, up, so, v, k2)
    BY <1>26 DEF Rewritten
  <1>29. Rewritten(k2, y, s, x, c1)
    BY <1>27 DEF Rewritten
  <1>11. /\ LinksOf(child)
         /\ x \in Cells /\ y \in Cells /\ b \in Cells /\ up \in Cells
    BY <1>2, <1>3, <1>4 DEF TreeTyped
  <1>12. /\ LinksOf(k1)
         /\ \A i \in Cells, j \in Sides : k1[i][j] = IF i = x /\ j = f THEN b ELSE child[i][j]
    BY <1>2, <1>10, <1>11, LinkWritten
  <1>13. v \in Cells
    BY <1>2, <1>24, <1>11 DEF LinksOf
  <1>14. /\ LinksOf(k2)
         /\ \A i \in Cells, j \in Sides : k2[i][j] = IF i = up /\ j = so THEN v ELSE k1[i][j]
    BY <1>2, <1>28, <1>11, <1>12, <1>13, LinkWritten
  <1>15. /\ LinksOf(c1)
         /\ \A i \in Cells, j \in Sides : c1[i][j] = IF i = y /\ j = s THEN x ELSE k2[i][j]
    BY <1>2, <1>29, <1>11, <1>14, LinkWritten
  <1>16. \A n \in made : \A q \in Sides :
             c1[n][q] = IF n = y /\ q = s THEN x
                            ELSE IF n = x /\ q = f THEN b
                            ELSE IF child[n][q] = x THEN y ELSE child[n][q]
    <2> SUFFICES ASSUME NEW n \in made, NEW q \in Sides
                 PROVE c1[n][q] = IF n = y /\ q = s THEN x
                            ELSE IF n = x /\ q = f THEN b
                            ELSE IF child[n][q] = x THEN y ELSE child[n][q]
      OBVIOUS
    <2>1. child[n][q] = x <=> up # Nil /\ n = up /\ q = so
      BY <1>6, <1>7
    <2>2. n \in Cells /\ n # Nil
      BY <1>2
    <2>3. /\ c1[n][q] = IF n = y /\ q = s THEN x ELSE k2[n][q]
          /\ k2[n][q] = IF n = up /\ q = so THEN v ELSE k1[n][q]
          /\ k1[n][q] = IF n = x /\ q = f THEN b ELSE child[n][q]
      BY <2>2, <1>12, <1>14, <1>15
    <2> QED
      BY <2>1, <2>2, <2>3, <1>5, <1>24
  <1>17. p1 = [parent EXCEPT ![b] = IF b = Nil THEN @ ELSE x, ![y] = up, ![x] = y]
    BY <1>1 DEF Rotated
  <1>18. /\ p1 \in [Cells -> Cells]
         /\ \A i \in Cells : p1[i] = IF i = x THEN y ELSE IF i = y THEN up
                                          ELSE IF i = b /\ b # Nil THEN x ELSE parent[i]
    BY <1>11, <1>17 DEF TreeTyped
  <1>19. r1 = IF root = x THEN y ELSE root
    BY <1>1, <1>4 DEF Rotated
  <1>20. \A n \in made : p1[n] = IF n = x THEN y ELSE IF n = y THEN parent[x]
                            ELSE IF n = b THEN x ELSE parent[n]
    BY <1>1, <1>2, <1>18
  <1>21. p1[Nil] = parent[Nil]
    BY <1>2, <1>3, <1>18
  <1>22. Turned(made, x, y, b, s, root, child, parent, r1, c1, p1)
    BY <1>1, <1>16, <1>19, <1>20 DEF Turned
  <1> QED
    BY <1>1, <1>15, <1>18, <1>21, <1>22

-----------------------------------------------------------------------------
(* The writes of insert and of a removal with one transplant.              *)

(* Where the links down to a node come from.                               *)
LEMMA KnownPlace ==
    ASSUME TreeFit, NEW sub, Shape(made, root, child, parent, sub), NEW x \in made
    PROVE  /\ SideOf(x) \in Sides /\ parent[x] \in made \cup {Nil}
           /\ parent[x] = Nil <=> x = root
           /\ parent[x] # Nil => child[parent[x]][SideOf(x)] = x
           /\ \A n \in made, q \in Sides :
                 child[n][q] = x => parent[x] # Nil /\ n = parent[x] /\ q = SideOf(x)
  <1>1. /\ Nil \notin made /\ SideOf(x) \in Sides /\ parent[x] \in made \cup {Nil}
        /\ parent[x] = Nil <=> x = root
    BY ShapeFacts DEF SideOf, Sides
  <1>2. parent[x] # Nil => child[parent[x]][SideOf(x)] = x
    BY ParentKnows DEF SideOf
  <1>3. ASSUME NEW n \in made, NEW q \in Sides, child[n][q] = x
        PROVE  parent[x] # Nil /\ n = parent[x] /\ q = SideOf(x)
    <2>1. parent[x] = n
      BY <1>1, <1>3, ShapeFacts
    <2>2. parent[x] # Nil /\ child[parent[x]][SideOf(x)] = x
      BY <2>1, <1>1, <1>2
    <2> QED
      BY <2>1, <2>2, <1>1, <1>3, OneParent
  <1> QED
    BY <1>1, <1>2, <1>3

(* Both links of a node are made blank.                                    *)
Blanks(f, z, g) == g = [f EXCEPT ![z]["left"] = Nil, ![z]["right"] = Nil]

(* What is left of the others.                                             *)
LEMMA Blanked ==
    ASSUME NEW f, LinksOf(f), NEW z \in Cells, NEW g, Blanks(f, z, g)
    PROVE  /\ LinksOf(g)
           /\ \A i \in Cells, j \in Sides : g[i][j] = IF i = z THEN Nil ELSE f[i][j]
  <1>1. PICK k : k = [f EXCEPT ![z]["left"] = Nil]
    OBVIOUS
  <1>2. g = [k EXCEPT ![z]["right"] = Nil]
    BY <1>1 DEF Blanks
  <1>3. Rewritten(f, z, "left", Nil, k)
    BY <1>1 DEF Rewritten
  <1>4. Rewritten(k, z, "right", Nil, g)
    BY <1>2 DEF Rewritten
  <1>5. Nil \in Cells /\ "left" \in Sides /\ "right" \in Sides
    BY DEF Cells, Sides
  <1>6. LinksOf(k) /\ \A i \in Cells, j \in Sides : k[i][j] = IF i = z /\ j = "left" THEN Nil ELSE f[i][j]
    BY <1>3, <1>5, LinkWritten
  <1>8. LinksOf(k)
    BY <1>6
  <1>7. LinksOf(g) /\ \A i \in Cells, j \in Sides : g[i][j] = IF i = z /\ j = "right" THEN Nil ELSE k[i][j]
    BY <1>4, <1>5, <1>8, LinkWritten
  <1>9. \A j \in Sides : j = "left" \/ j = "right"
    BY DEF Sides
  <1> QED
    BY <1>6, <1>7, <1>9

(* What insert writes ...                                                  *)
Attaching(z, y, s, r1, c1, p1) ==
    /\ r1 = IF y = Nil THEN z ELSE root
    /\ c1 = [child EXCEPT ![y][s] = IF y = Nil THEN @ ELSE z,
                          ![z]["left"] = Nil, ![z]["right"] = Nil]
    /\ p1 = [parent EXCEPT ![z] = y]

(* ... hangs the node.                                                     *)
LEMMA AttachHangs ==
    ASSUME TreeFit, TreeTyped, NEW sub, Shape(made, root, child, parent, sub),
           NEW z \in Nodes, z \notin made, NEW y \in made \cup {Nil}, NEW s \in Sides,
           IF y = Nil THEN root = Nil ELSE child[y][s] = Nil,
           NEW r1, NEW c1, NEW p1, Attaching(z, y, s, r1, c1, p1)
    PROVE  /\ Hung(made, z, y, s, root, child, parent, r1, c1, p1)
           /\ LinksOf(c1) /\ p1 \in [Cells -> Cells]
  <1>1. /\ Nil \notin made /\ made \subseteq Cells /\ Nil \in Cells /\ z \in Cells /\ y \in Cells
        /\ LinksOf(child) /\ parent \in [Cells -> Cells]
    BY ShapeFacts DEF Cells, TreeTyped
  <1>2. PICK v : v = IF y = Nil THEN child[y][s] ELSE z
    OBVIOUS
  <1>3. PICK k1 : k1 = [child EXCEPT ![y][s] = v]
    OBVIOUS
  <1>4. c1 = [child EXCEPT ![y][s] = v, ![z]["left"] = Nil, ![z]["right"] = Nil]
    BY <1>2 DEF Attaching
  <1>5. Blanks(k1, z, c1)
    BY <1>3, <1>4 DEF Blanks
  <1>6. v \in Cells
    BY <1>1, <1>2 DEF LinksOf
  <1>7. Rewritten(child, y, s, v, k1)
    BY <1>3 DEF Rewritten
  <1>8. LinksOf(k1) /\ \A i \in Cells, j \in Sides : k1[i][j] = IF i = y /\ j = s THEN v ELSE child[i][j]
    BY <1>1, <1>6, <1>7, LinkWritten
  <1>12. LinksOf(k1)
    BY <1>8
  <1>9. LinksOf(c1) /\ \A i \in Cells, j \in Sides : c1[i][j] = IF i = z THEN Nil ELSE k1[i][j]
    BY <1>1, <1>5, <1>12, Blanked
  <1>10. /\ \A q \in Sides : c1[z][q] = Nil
         /\ \A n \in made : \A q \in Sides :
               c1[n][q] = IF n = y /\ q = s THEN z ELSE child[n][q]
    BY <1>1, <1>2, <1>8, <1>9
  <1>11. p1 \in [Cells -> Cells] /\ p1[z] = y /\ \A n \in made : p1[n] = parent[n]
    BY <1>1 DEF Attaching
  <1>13. r1 = IF y = Nil THEN z ELSE root
    BY DEF Attaching
  <1> QED
    BY <1>9, <1>10, <1>11, <1>13 DEF Hung

(* What a removal with one transplant writes ...                           *)
Detaching(z, x, up, r1, c1, p1) ==
    /\ r1 = IF up = Nil THEN x ELSE root
    /\ c1 = [child EXCEPT ![up][SideOf(z)] = IF up = Nil THEN @ ELSE x,
                          ![z]["left"] = Nil, ![z]["right"] = Nil]
    /\ p1 = [parent EXCEPT ![x] = up, ![z] = Nil]

(* ... cuts the node out.                                                  *)
LEMMA DetachCuts ==
    ASSUME TreeFit, TreeTyped, NEW sub, Shape(made, root, child, parent, sub),
           NEW z \in made, NEW t \in Sides, child[z][t] = Nil,
           NEW x, x = child[z][Other(t)], NEW up, up = parent[z],
           NEW r1, NEW c1, NEW p1, Detaching(z, x, up, r1, c1, p1)
    PROVE  /\ Cut(made, z, x, t, root, child, parent, r1, c1, p1)
           /\ LinksOf(c1) /\ p1 \in [Cells -> Cells] /\ p1[x] = up
  <1>1. /\ Nil \notin made /\ made \subseteq Cells /\ Nil \in Cells
        /\ LinksOf(child) /\ parent \in [Cells -> Cells]
    BY ShapeFacts DEF Cells, TreeTyped
  <1>2. PICK so : so = SideOf(z)
    OBVIOUS
  <1>3. /\ so \in Sides /\ up \in made \cup {Nil} /\ (up = Nil <=> z = root)
        /\ up # Nil => child[up][so] = z
        /\ \A n \in made, q \in Sides : child[n][q] = z => up # Nil /\ n = up /\ q = so
    BY <1>2, KnownPlace
  <1>4. x \in made \cup {Nil} /\ x # z
    <2>1. Other(t) \in Sides
      BY TwoSides
    <2> QED
      BY <2>1, <1>1, OneParent, ShapeFacts
  <1>5. PICK v : v = IF up = Nil THEN child[up][so] ELSE x
    OBVIOUS
  <1>6. PICK k1 : k1 = [child EXCEPT ![up][so] = v]
    OBVIOUS
  <1>7. c1 = [child EXCEPT ![up][so] = v, ![z]["left"] = Nil, ![z]["right"] = Nil]
    BY <1>2, <1>5 DEF Detaching
  <1>8. Blanks(k1, z, c1)
    BY <1>6, <1>7 DEF Blanks
  <1>9. v \in Cells /\ up \in Cells /\ x \in Cells /\ z \in Cells
    BY <1>1, <1>3, <1>4, <1>5 DEF LinksOf
  <1>10. Rewritten(child, up, so, v, k1)
    BY <1>6 DEF Rewritten
  <1>11. LinksOf(k1) /\ \A i \in Cells, j \in Sides : k1[i][j] = IF i = up /\ j = so THEN v ELSE child[i][j]
    BY <1>1, <1>3, <1>9, <1>10, LinkWritten
  <1>16. LinksOf(k1)
    BY <1>11
  <1>12. LinksOf(c1) /\ \A i \in Cells, j \in Sides : c1[i][j] = IF i = z THEN Nil ELSE k1[i][j]
    BY <1>8, <1>9, <1>16, Blanked
  <1>13. \A n \in made \ {z} : \A q \in Sides :
             c1[n][q] = IF child[n][q] = z THEN x ELSE child[n][q]
    <2> SUFFICES ASSUME NEW n \in made \ {z}, NEW q \in Sides
                 PROVE c1[n][q] = IF child[n][q] = z THEN x ELSE child[n][q]
      OBVIOUS
    <2>1. child[n][q] = z <=> up # Nil /\ n = up /\ q = so
      BY <1>3
    <2>2. c1[n][q] = IF n = up /\ q = so THEN v ELSE child[n][q]
      BY <1>1, <1>11, <1>12
    <2> QED
      BY <2>1, <2>2, <1>1, <1>5
  <1>14. /\ p1 \in [Cells -> Cells] /\ p1[x] = up
         /\ \A n \in made \ {z} : p1[n] = IF n = x THEN parent[z] ELSE parent[n]
    BY <1>1, <1>4, <1>9 DEF Detaching
  <1>15. r1 = IF root = z THEN x ELSE root
    BY <1>3 DEF Detaching
  <1> QED
    BY <1>12, <1>13, <1>14, <1>15 DEF Cut

-----------------------------------------------------------------------------
(* The writes of a removal that moves the successor.                       *)

(* What the move of y to the place of z writes ...                         *)
MovesUp(z, y, x, p, up, so, st, rt, lt, r1, c1, p1) ==
    /\ r1 = IF up = Nil THEN y ELSE root
    /\ c1 = [child EXCEPT ![p][so] = x, ![y]["right"] = rt,
                          ![up][st] = IF up = Nil THEN @ ELSE y,
                          ![y]["left"] = lt, ![z]["left"] = Nil, ![z]["right"] = Nil]
    /\ p1 = [parent EXCEPT ![x] = IF p = z THEN y ELSE p, ![child[z]["right"]] = y,
                           ![lt] = y, ![y] = up, ![z] = Nil]

(* ... and which nodes these are.                                          *)
Moving(z, y, x, p, up, so, st, rt, lt, r1, c1, p1) ==
    /\ y # z /\ p # y /\ up # y /\ up # z
    /\ z \in made /\ y \in made /\ p \in made /\ lt \in made
    /\ x \in made \cup {Nil} /\ up \in made \cup {Nil} /\ rt \in made \cup {Nil}
    /\ so \in Sides /\ st \in Sides
    /\ MovesUp(z, y, x, p, up, so, st, rt, lt, r1, c1, p1)

(* The links to y, the smallest node under the right child of z, and what  *)
(* is below it.                                                            *)
LEMMA SuccessorFacts ==
    ASSUME TreeFit, NEW sub, Shape(made, root, child, parent, sub),
           NEW z \in made, NEW y \in made, y \in sub[child[z]["right"]],
           child[z]["left"] # Nil, child[z]["right"] # Nil, child[y]["left"] = Nil
    PROVE  /\ y # z /\ y # root /\ parent[y] \in made /\ parent[y] # y /\ parent[z] # y
           /\ parent[y] = z <=> child[z]["right"] = y
           /\ child[z]["left"] # y
           /\ child[y]["right"] \in made \cup {Nil} /\ child[y]["right"] # z
           /\ child[y]["right"] \notin {y, child[z]["left"], child[z]["right"]}
           /\ sub[y] = {y} \cup sub[child[y]["right"]]
           /\ child[z]["left"] \in made /\ child[z]["right"] \in made
           /\ child[z]["left"] # child[z]["right"]
           /\ parent[child[z]["left"]] = z /\ parent[child[z]["right"]] = z
           /\ \A n \in made : parent[n] = z => n \in {child[z]["left"], child[z]["right"]}
  <1>1. PICK R, L, x : R = child[z]["right"] /\ L = child[z]["left"] /\ x = child[y]["right"]
    OBVIOUS
  <1>2. "left" \in Sides /\ "right" \in Sides /\ Other("left") = "right" /\ Other("right") = "left"
    BY DEF Sides, Other
  <1>3. /\ Nil \notin made /\ R \in made /\ L \in made /\ R # L /\ parent[R] = z /\ parent[L] = z
        /\ R # z /\ L # z
    BY <1>1, <1>2, OneParent, ShapeFacts
  <1>4. /\ z \notin sub[R] /\ z \notin sub[L] /\ sub[L] \cap sub[R] = {} /\ L \in sub[L] /\ R \in sub[R]
        /\ sub[z] = {z} \cup sub[L] \cup sub[R]
    BY <1>1, <1>2, <1>3 DEF Shape, Family
  <1>5. /\ y # z /\ sub[y] \subseteq sub[R] /\ (y # R => parent[y] \in sub[R])
        /\ sub[y] = {y} \cup sub[x] /\ x \in made \cup {Nil} /\ x # y /\ y \in sub[y]
        /\ (x # Nil => x \in sub[x] /\ parent[x] = y)
    <2>1. y # z /\ sub[y] \subseteq sub[R] /\ (y # R => parent[y] \in sub[R])
      BY <1>1, <1>3, <1>4 DEF Shape
    <2>2. sub[y] = {y} \cup sub[child[y]["left"]] \cup sub[child[y]["right"]] /\ sub[Nil] = {}
      BY <1>2 DEF Shape, Family
    <2>3. x \in made \cup {Nil} /\ x # y /\ y \in sub[y] /\ (x # Nil => x \in sub[x] /\ parent[x] = y)
      <3>1. x \in made \cup {Nil} /\ (x # Nil => parent[x] = y) /\ y \in sub[y] /\ y \notin sub[x]
        BY <1>1, <1>2, ShapeFacts
      <3>2. x # Nil => x \in sub[x]
        BY <3>1, ShapeFacts
      <3> QED
        BY <3>1, <3>2, <1>3
    <2> QED
      BY <2>1, <2>2, <2>3, <1>1
  <1>6. y # L /\ x # z /\ x # L /\ x # R
    BY <1>3, <1>4, <1>5
  <1>7. y # root
    <2>1. y = root => sub[y] = made
      BY DEF Shape
    <2> QED
      BY <2>1, <1>4, <1>5
  <1>8. parent[y] \in made /\ parent[y] # y
    <2>1. parent[y] \in made
      BY <1>7 DEF Shape
    <2> QED
      BY <2>1, <1>3, ParentKnows
  <1>9. parent[y] = z <=> R = y
    BY <1>3, <1>4, <1>5
  <1>10. parent[z] # y
    <2>1. ASSUME parent[z] = y PROVE FALSE
      <3>1. z # root
        <4>1. parent[z] # Nil
          BY <2>1, <1>3
        <4> QED
          BY <4>1 DEF Shape
      <3>2. PICK q \in Sides : child[y][q] = z
        BY <2>1, <3>1 DEF Shape
      <3>3. q = "right" /\ x = z
        BY <3>2, <1>1, <1>3 DEF Sides
      <3> QED
        BY <3>3, <1>6
    <2> QED
      BY <2>1
  <1>11. ASSUME NEW n \in made, parent[n] = z PROVE n \in {L, R}
    <2>1. n # root
      BY <1>3, <1>11 DEF Shape
    <2>2. PICK q \in Sides : child[z][q] = n
      BY <2>1, <1>11 DEF Shape
    <2> QED
      BY <2>2, <1>1 DEF Sides
  <1> QED
    BY <1>1, <1>3, <1>5, <1>6, <1>7, <1>8, <1>9, <1>10, <1>11

(* The links down after the move.                                          *)
LEMMA MovedLinks ==
    ASSUME TreeFit, TreeTyped, NEW sub, Shape(made, root, child, parent, sub),
           NEW z, NEW y, NEW x, NEW p, NEW up, NEW so, NEW st, NEW rt, NEW lt,
           NEW r1, NEW c1, NEW p1, Moving(z, y, x, p, up, so, st, rt, lt, r1, c1, p1)
    PROVE  /\ LinksOf(c1)
           /\ c1[y]["right"] = rt /\ c1[y]["left"] = lt
           /\ \A n \in made \ {y, z}, q \in Sides :
                  c1[n][q] = IF up # Nil /\ n = up /\ q = st THEN y
                                 ELSE IF n = p /\ q = so THEN x ELSE child[n][q]
  <1>1. /\ Nil \notin made /\ made \subseteq Cells /\ Nil \in Cells
        /\ LinksOf(child) /\ "left" \in Sides /\ "right" \in Sides
        /\ z \in Cells /\ y \in Cells /\ x \in Cells /\ p \in Cells /\ up \in Cells /\ rt \in Cells
        /\ lt \in Cells
    <2>1. Nil \notin made /\ made \subseteq Cells /\ Nil \in Cells
      BY ShapeFacts DEF Cells
    <2>2. LinksOf(child)
      BY DEF TreeTyped
    <2>3. /\ z \in made /\ y \in made /\ p \in made /\ lt \in made
          /\ x \in made \cup {Nil} /\ up \in made \cup {Nil} /\ rt \in made \cup {Nil}
      BY DEF Moving
    <2> QED
      BY <2>1, <2>2, <2>3 DEF Sides
  <1>0. /\ y # z /\ p # y /\ up # y /\ up # z
        /\ so \in Sides /\ st \in Sides
    BY DEF Moving
  <1>2. PICK v : v = IF up = Nil THEN child[up][st] ELSE y
    OBVIOUS
  <1>3. v \in Cells
    BY <1>0, <1>1, <1>2 DEF LinksOf
  <1>4. c1 = [child EXCEPT ![p][so] = x, ![y]["right"] = rt, ![up][st] = v,
                              ![y]["left"] = lt, ![z]["left"] = Nil, ![z]["right"] = Nil]
    BY <1>2 DEF Moving, MovesUp
  <1>5. PICK k1 : k1 = [child EXCEPT ![p][so] = x]
    OBVIOUS
  <1>6. c1 = [k1 EXCEPT ![y]["right"] = rt, ![up][st] = v,
                            ![y]["left"] = lt, ![z]["left"] = Nil, ![z]["right"] = Nil]
    BY <1>4, <1>5
  <1>7. PICK k2 : k2 = [k1 EXCEPT ![y]["right"] = rt]
    OBVIOUS
  <1>8. c1 = [k2 EXCEPT ![up][st] = v,
                            ![y]["left"] = lt, ![z]["left"] = Nil, ![z]["right"] = Nil]
    BY <1>6, <1>7
  <1>9. PICK k3 : k3 = [k2 EXCEPT ![up][st] = v]
    OBVIOUS
  <1>10. c1 = [k3 EXCEPT ![y]["left"] = lt, ![z]["left"] = Nil, ![z]["right"] = Nil]
    BY <1>8, <1>9
  <1>11. PICK k4 : k4 = [k3 EXCEPT ![y]["left"] = lt]
    OBVIOUS
  <1>12. c1 = [k4 EXCEPT ![z]["left"] = Nil, ![z]["right"] = Nil]
    BY <1>0, <1>10, <1>11
  <1>13. Rewritten(child, p, so, x, k1)
    BY <1>5 DEF Rewritten
  <1>14. Rewritten(k1, y, "right", rt, k2)
    BY <1>7 DEF Rewritten
  <1>15. Rewritten(k2, up, st, v, k3)
    BY <1>9 DEF Rewritten
  <1>16. Rewritten(k3, y, "left", lt, k4)
    BY <1>0, <1>11 DEF Rewritten
  <1>17. Blanks(k4, z, c1)
    BY <1>0, <1>12 DEF Blanks
  <1>18. LinksOf(k1) /\ \A i \in Cells, j \in Sides : k1[i][j] = IF i = p /\ j = so THEN x ELSE child[i][j]
    BY <1>0, <1>1, <1>13, LinkWritten
  <1>19. LinksOf(k1)
    BY <1>0, <1>18
  <1>20. LinksOf(k2) /\ \A i \in Cells, j \in Sides : k2[i][j] = IF i = y /\ j = "right" THEN rt ELSE k1[i][j]
    BY <1>0, <1>1, <1>14, <1>19, LinkWritten
  <1>21. LinksOf(k2)
    BY <1>20
  <1>22. LinksOf(k3) /\ \A i \in Cells, j \in Sides : k3[i][j] = IF i = up /\ j = st THEN v ELSE k2[i][j]
    BY <1>0, <1>1, <1>3, <1>15, <1>21, LinkWritten
  <1>23. LinksOf(k3)
    BY <1>22
  <1>24. LinksOf(k4) /\ \A i \in Cells, j \in Sides : k4[i][j] = IF i = y /\ j = "left" THEN lt ELSE k3[i][j]
    BY <1>0, <1>1, <1>16, <1>23, LinkWritten
  <1>25. LinksOf(k4)
    BY <1>24
  <1>26. LinksOf(c1) /\ \A i \in Cells, j \in Sides : c1[i][j] = IF i = z THEN Nil ELSE k4[i][j]
    BY <1>0, <1>1, <1>17, <1>25, Blanked
  <1>27. c1[y]["right"] = rt
    <2>1. c1[y]["right"] = k4[y]["right"] /\ k4[y]["right"] = k3[y]["right"]
      BY <1>0, <1>1, <1>24, <1>26
    <2>2. k3[y]["right"] = k2[y]["right"] /\ k2[y]["right"] = rt
      BY <1>0, <1>1, <1>20, <1>22
    <2> QED
      BY <2>1, <2>2
  <1>28. c1[y]["left"] = lt
    BY <1>0, <1>1, <1>24, <1>26
  <1>29. ASSUME NEW n \in made \ {y, z}, NEW q \in Sides
         PROVE  c1[n][q] = IF up # Nil /\ n = up /\ q = st THEN y
                               ELSE IF n = p /\ q = so THEN x ELSE child[n][q]
    <2>1. n \in Cells /\ n # Nil /\ n # y /\ n # z
      BY <1>0, <1>1
    <2>2. c1[n][q] = k3[n][q]
      BY <2>1, <1>24, <1>26
    <2>3. k3[n][q] = IF n = up /\ q = st THEN v ELSE k2[n][q]
      BY <2>1, <1>0, <1>22
    <2>4. k2[n][q] = IF n = p /\ q = so THEN x ELSE child[n][q]
      BY <2>1, <1>0, <1>18, <1>20
    <2> QED
      BY <2>1, <2>2, <2>3, <2>4, <1>0, <1>2
  <1> QED
    BY <1>26, <1>27, <1>28, <1>29

-----------------------------------------------------------------------------
(* The move is a cut of the successor, and its being put in the place of   *)
(* the node.                                                               *)

(* Who is whose parent in the move.                                        *)
Grandchild(z, y, x, lt, R) ==
    /\ R = child[z]["right"] /\ R \in made
    /\ y # lt /\ x \notin {y, z, lt, R} /\ lt # z /\ R # z

(* The links up after it.                                                  *)
LEMMA MovedParents ==
    ASSUME TreeFit, TreeTyped, NEW sub, Shape(made, root, child, parent, sub),
           NEW z, NEW y, NEW x, NEW p, NEW up, NEW so, NEW st, NEW rt, NEW lt,
           NEW r1, NEW c1, NEW p1, Moving(z, y, x, p, up, so, st, rt, lt, r1, c1, p1),
           NEW R, Grandchild(z, y, x, lt, R)
    PROVE  /\ p1 \in [Cells -> Cells]
           /\ p1[x] = IF p = z THEN y ELSE p
           /\ p1[y] = up
           /\ \A n \in made \ {y, z} : p1[n] = IF n = x THEN IF p = z THEN y ELSE p
                                                    ELSE IF n \in {lt, R} THEN y ELSE parent[n]
  <1>1. /\ Nil \notin made /\ made \subseteq Cells /\ Nil \in Cells /\ parent \in [Cells -> Cells]
    BY ShapeFacts DEF Cells, TreeTyped
  <1>5. /\ y # z /\ z \in made /\ y \in made /\ p \in made /\ lt \in made
        /\ x \in made \cup {Nil} /\ up \in made \cup {Nil}
    BY DEF Moving
  <1>6. R = child[z]["right"] /\ R \in made /\ y # lt /\ x \notin {y, z, lt, R} /\ lt # z /\ R # z
    BY DEF Grandchild
  <1>2. PICK v \in Cells : v = IF p = z THEN y ELSE p
    BY <1>1, <1>5
  <1>3. p1 = [parent EXCEPT ![x] = v, ![R] = y, ![lt] = y, ![y] = up, ![z] = Nil]
    BY <1>2, <1>6 DEF Moving, MovesUp
  <1>4. /\ p1 \in [Cells -> Cells]
        /\ \A i \in Cells : p1[i] = IF i = z THEN Nil ELSE IF i = y THEN up
                                         ELSE IF i = lt \/ i = R THEN y
                                         ELSE IF i = x THEN v ELSE parent[i]
    BY <1>1, <1>3, <1>5, <1>6
  <1> QED
    BY <1>1, <1>2, <1>4, <1>5, <1>6

(* The types are kept, and x has its parent.                               *)
Settled(x, up, c1, p1) == LinksOf(c1) /\ p1 \in [Cells -> Cells] /\ p1[x] = up

(* The move is a cut of y and a replacement of z.                          *)
LEMMA SuccessorMoves ==
    ASSUME TreeFit, TreeTyped, NEW sub, Shape(made, root, child, parent, sub),
           NEW z \in made, NEW y \in made, y \in sub[child[z]["right"]],
           child[z]["left"] # Nil, child[z]["right"] # Nil, child[y]["left"] = Nil,
           NEW x, x = child[y]["right"], NEW p, p = parent[y], NEW up, up = parent[z],
           NEW so, so = SideOf(y), NEW st, st = SideOf(z), NEW lt, lt = child[z]["left"],
           NEW rt, rt = IF p = z THEN x ELSE child[z]["right"],
           NEW r1, NEW c1, NEW p1, MovesUp(z, y, x, p, up, so, st, rt, lt, r1, c1, p1)
    PROVE  \E k1, j1 : /\ Cut(made, y, x, "left", root, child, parent, root, k1, j1)
                       /\ TakesPlace(made \ {y}, z, y, root, k1, j1, r1, c1, p1)
                       /\ Settled(x, IF p = z THEN y ELSE p, c1, p1)
  <1>1. PICK R : R = child[z]["right"]
    OBVIOUS
  <1>2. /\ y # z /\ y # root /\ p \in made /\ p # y /\ up # y
        /\ p = z <=> R = y
        /\ lt # y /\ x \in made \cup {Nil} /\ x \notin {y, z, lt, R}
        /\ lt \in made /\ R \in made /\ lt # R /\ parent[lt] = z /\ parent[R] = z
        /\ \A n \in made : parent[n] = z => n \in {lt, R}
    BY <1>1, SuccessorFacts
  <1>3. /\ Nil \notin made /\ made \subseteq Nodes /\ "left" \in Sides /\ "right" \in Sides
        /\ Other("left") = "right" /\ \A q \in Sides : q = "left" \/ q = "right"
    BY ShapeFacts DEF Sides, Other
  <1>4. /\ so \in Sides /\ child[p][so] = y
        /\ \A n \in made, q \in Sides : child[n][q] = y => n = p /\ q = so
    BY <1>2, <1>3, KnownPlace
  <1>5. /\ st \in Sides /\ up \in made \cup {Nil} /\ (up = Nil <=> z = root)
        /\ up # Nil => child[up][st] = z
        /\ \A n \in made, q \in Sides : child[n][q] = z => up # Nil /\ n = up /\ q = st
    BY KnownPlace
  <1>6. up # z /\ lt # z /\ R # z
    <2>1. parent[z] # Nil => z # parent[z]
      BY ParentKnows
    <2>2. \A q \in Sides : child[z][q] # Nil => child[z][q] # z
      BY OneParent
    <2> QED
      BY <2>1, <2>2, <1>1, <1>3
  <1>7. rt \in made \cup {Nil}
    BY <1>1, <1>2
  <1>8. /\ LinksOf(c1)
        /\ c1[y]["right"] = rt /\ c1[y]["left"] = lt
        /\ \A n \in made \ {y, z}, q \in Sides :
               c1[n][q] = IF up # Nil /\ n = up /\ q = st THEN y
                              ELSE IF n = p /\ q = so THEN x ELSE child[n][q]
    <2>1. /\ y # z /\ p # y /\ up # y /\ up # z
          /\ x \in made \cup {Nil} /\ p \in made /\ up \in made \cup {Nil} /\ so \in Sides
          /\ st \in Sides /\ rt \in made \cup {Nil} /\ lt \in made
      BY <1>2, <1>4, <1>5, <1>6, <1>7
    <2>2. Moving(z, y, x, p, up, so, st, rt, lt, r1, c1, p1)
      BY <2>1 DEF Moving
    <2> QED
      BY <2>1, <2>2, MovedLinks
  <1>9. /\ p1 \in [Cells -> Cells]
        /\ p1[x] = IF p = z THEN y ELSE p
        /\ p1[y] = up
        /\ \A n \in made \ {y, z} : p1[n] = IF n = x THEN IF p = z THEN y ELSE p
                                                 ELSE IF n \in {lt, R} THEN y ELSE parent[n]
    <2>1. Moving(z, y, x, p, up, so, st, rt, lt, r1, c1, p1)
      BY <1>2, <1>4, <1>5, <1>6, <1>7 DEF Moving
    <2>2. Grandchild(z, y, x, lt, R)
      BY <1>1, <1>2, <1>6 DEF Grandchild
    <2> QED
      BY <2>1, <2>2, MovedParents
  <1>10. PICK k1 : k1 = [n \in made |-> [q \in Sides |-> IF child[n][q] = y THEN x ELSE child[n][q]]]
    OBVIOUS
  <1>11. PICK j1 : j1 = [n \in made |-> IF n = x THEN p ELSE parent[n]]
    OBVIOUS
  <1>12. /\ \A n \in made, q \in Sides : k1[n][q] = IF child[n][q] = y THEN x ELSE child[n][q]
         /\ \A n \in made : j1[n] = IF n = x THEN p ELSE parent[n]
    BY <1>10, <1>11
  <1>13. Cut(made, y, x, "left", root, child, parent, root, k1, j1)
    <2>1. \A n \in made \ {y} : \A q \in Sides : k1[n][q] = IF child[n][q] = y THEN x ELSE child[n][q]
      BY <1>12
    <2>2. \A n \in made \ {y} : j1[n] = IF n = x THEN parent[y] ELSE parent[n]
      BY <1>12
    <2>3. root = IF root = y THEN x ELSE root
      BY <1>2
    <2> QED
      BY <2>1, <2>2, <2>3, <1>3 DEF Cut
  <1>14. r1 = IF root = z THEN y ELSE root
    BY <1>5 DEF MovesUp
  <1>15. \A q \in Sides : c1[y][q] = k1[z][q]
    <2>1. k1[z]["right"] = rt
      BY <1>1, <1>2, <1>3, <1>12
    <2>2. k1[z]["left"] = lt
      BY <1>2, <1>3, <1>12
    <2> QED
      BY <2>1, <2>2, <1>3, <1>8
  <1>16. ASSUME NEW n \in made \ {y, z}, NEW q \in Sides
         PROVE  c1[n][q] = IF k1[n][q] = z THEN y ELSE k1[n][q]
    <2>1. c1[n][q] = IF up # Nil /\ n = up /\ q = st THEN y
                         ELSE IF n = p /\ q = so THEN x ELSE child[n][q]
      BY <1>8
    <2>2. k1[n][q] = IF child[n][q] = y THEN x ELSE child[n][q]
      BY <1>12
    <2>3. (child[n][q] = z <=> up # Nil /\ n = up /\ q = st) /\ (child[n][q] = y <=> n = p /\ q = so)
      BY <1>4, <1>5
    <2>4. x # z /\ y # z
      BY <1>2
    <2> QED
      BY <2>1, <2>2, <2>3, <2>4
  <1>17. p1[y] = j1[z]
    <2>1. z # x
      BY <1>2
    <2> QED
      BY <2>1, <1>9, <1>12
  <1>18. ASSUME NEW n \in made \ {y, z}
         PROVE  p1[n] = IF j1[n] = z THEN y ELSE j1[n]
    <2>1. p1[n] = IF n = x THEN IF p = z THEN y ELSE p
                       ELSE IF n \in {lt, R} THEN y ELSE parent[n]
      BY <1>9
    <2>2. j1[n] = IF n = x THEN p ELSE parent[n]
      BY <1>12
    <2>3. n \in {lt, R} <=> parent[n] = z
      BY <1>2
    <2> QED
      BY <2>1, <2>2, <2>3
  <1>19. TakesPlace(made \ {y}, z, y, root, k1, j1, r1, c1, p1)
    <2>1. z \in made \ {y} /\ y \in Nodes \ (made \ {y})
      BY <1>2, <1>3
    <2>2. \A n \in (made \ {y}) \ {z} : n \in made \ {y, z}
      OBVIOUS
    <2>3. \A n \in (made \ {y}) \ {z} : \A q \in Sides :
              c1[n][q] = IF k1[n][q] = z THEN y ELSE k1[n][q]
      BY <2>2, <1>16
    <2>4. \A n \in (made \ {y}) \ {z} : p1[n] = IF j1[n] = z THEN y ELSE j1[n]
      BY <2>2, <1>18
    <2> QED
      BY <2>1, <2>3, <2>4, <1>14, <1>15, <1>17 DEF TakesPlace
  <1>20. Settled(x, IF p = z THEN y ELSE p, c1, p1)
    BY <1>8, <1>9 DEF Settled
  <1> QED
    BY <1>13, <1>19, <1>20

-----------------------------------------------------------------------------
(* The inductive invariant: links of some shape, colours that are right    *)
(* but for what the running loop is there to repair, and a walk that can   *)
(* still find what it looks for.                                           *)

(* What is below the nodes that a cut leaves.                              *)
LEMMA CutSubs ==
    ASSUME TreeFit, NEW H, NEW r, NEW c, NEW p, NEW sub, Shape(H, r, c, p, sub),
           NEW z, NEW x, NEW t, NEW r1, NEW c1, NEW p1, Cut(H, z, x, t, r, c, p, r1, c1, p1)
    PROVE  \A n \in H \ {z}, q \in Sides : CutSub(H, z, sub)[c1[n][q]] = sub[c[n][q]] \ {z}
  <1>1. PICK sub1, H1 : sub1 = CutSub(H, z, sub) /\ H1 = H \ {z}
    OBVIOUS
  <1>2. /\ z \in H /\ t \in Sides /\ c[z][t] = Nil /\ x = c[z][Other(t)] /\ Other(t) \in Sides
        /\ Nil \notin H /\ \A n \in H, q \in Sides : c[n][q] \in H \cup {Nil}
        /\ z \notin sub[x] /\ sub[z] = {z} \cup sub[c[z][t]] \cup sub[x] /\ sub[Nil] = {}
    <2>1. z \in H /\ t \in Sides /\ c[z][t] = Nil /\ x = c[z][Other(t)] /\ Other(t) \in Sides
      BY TwoSides DEF Cut
    <2>2. Nil \notin H /\ (\A n \in H, q \in Sides : c[n][q] \in H \cup {Nil}) /\ sub[Nil] = {}
      BY ShapeFacts
    <2>3. z \notin sub[x] /\ sub[z] = {z} \cup sub[c[z][t]] \cup sub[x]
      BY <2>1 DEF Shape, Family
    <2> QED
      BY <2>1, <2>2, <2>3
  <1>3. \A n \in H1 \cup {Nil} : sub1[n] = sub[n] \ {z}
    BY <1>1 DEF CutSub
  <1>4. x \in H1 \cup {Nil}
    <2>1. x # z
      BY <1>2, ShapeFacts
    <2> QED
      BY <2>1, <1>1, <1>2
  <1>5. ASSUME NEW n \in H1, NEW q \in Sides PROVE sub1[c1[n][q]] = sub[c[n][q]] \ {z}
    <2>1. c1[n][q] = IF c[n][q] = z THEN x ELSE c[n][q]
      BY <1>1 DEF Cut
    <2>2. n \in H
      BY <1>1
    <2>3. CASE c[n][q] = z
      <3>1. sub1[x] = sub[x] \ {z} /\ sub[z] \ {z} = sub[x] \ {z}
        BY <1>2, <1>3, <1>4
      <3> QED
        BY <2>1, <2>3, <3>1
    <2>4. CASE c[n][q] # z
      <3>1. c[n][q] \in H1 \cup {Nil}
        BY <2>2, <2>4, <1>1, <1>2
      <3> QED
        BY <3>1, <2>1, <2>4, <1>3
    <2> QED
      BY <2>3, <2>4
  <1> QED
    BY <1>1, <1>5

(* The smallest key on the right of z fits where z is.                     *)
LEMMA MoveFits ==
    ASSUME TreeFit, NEW H, NEW r, NEW c, NEW p, NEW sub, Shape(H, r, c, p, sub),
           NEW z \in H, NEW y \in H, y \in sub[c[z]["right"]],
           \A u \in sub[c[z]["right"]] : KeyOf(y) <= KeyOf(u),
           NEW x, NEW r1, NEW c1, NEW p1, Cut(H, y, x, "left", r, c, p, r1, c1, p1)
    PROVE  Fits(H \ {y}, z, y, c1, CutSub(H, y, sub))
  <1>1. PICK sub1 : sub1 = CutSub(H, y, sub)
    OBVIOUS
  <1>2. \A n \in H \ {y}, q \in Sides : sub1[c1[n][q]] = sub[c[n][q]] \ {y}
    BY <1>1, CutSubs
  <1>3. /\ "left" \in Sides /\ "right" \in Sides /\ \A q \in Sides : q = "left" \/ q = "right"
    BY DEF Sides
  <1>4. /\ z # y /\ Nil \notin H /\ H \subseteq Nodes /\ sub[Nil] = {}
        /\ \A n \in H, q \in Sides : /\ c[n][q] \in H \cup {Nil} /\ sub[c[n][q]] \subseteq H
                                     /\ \A u \in sub[c[n][q]] : OnSide(q, u, n)
    <2>1. z \notin sub[c[z]["right"]]
      BY <1>3, ShapeFacts
    <2>2. ASSUME NEW n \in H, NEW q \in Sides
          PROVE  /\ c[n][q] \in H \cup {Nil} /\ sub[c[n][q]] \subseteq H
                 /\ \A u \in sub[c[n][q]] : OnSide(q, u, n)
      <3>1. c[n][q] \in H \cup {Nil} /\ \A u \in sub[c[n][q]] : OnSide(q, u, n)
        BY DEF Shape, Family
      <3>2. \A m \in H \cup {Nil} : sub[m] \subseteq H
        BY ShapeFacts
      <3> QED
        BY <3>1, <3>2
    <2>3. Nil \notin H /\ H \subseteq Nodes /\ sub[Nil] = {}
      BY ShapeFacts
    <2> QED
      BY <2>1, <2>2, <2>3
  <1>5. \A n \in Nodes : KeyOf(n) \in Int
    BY NodesApart
  <1>6. ASSUME NEW q \in Sides, NEW u \in sub1[c1[z][q]] PROVE OnSide(q, u, y)
    <2>1. u \in sub[c[z][q]] /\ u \in H
      BY <1>2, <1>4
    <2>2. CASE q = "right"
      BY <2>1, <2>2 DEF OnSide
    <2>3. CASE q = "left"
      <3>1. OnSide("left", u, z) /\ OnSide("right", y, z)
        BY <2>1, <2>3, <1>3, <1>4
      <3>2. KeyOf(u) <= KeyOf(z) /\ KeyOf(z) <= KeyOf(y)
        BY <3>1 DEF OnSide
      <3>3. KeyOf(u) \in Int /\ KeyOf(z) \in Int /\ KeyOf(y) \in Int
        BY <2>1, <1>4, <1>5
      <3>4. KeyOf(u) <= KeyOf(y)
        BY <3>2, <3>3
      <3> QED
        BY <2>3, <3>4 DEF OnSide
    <2> QED
      BY <2>2, <2>3, <1>3
  <1>7. ASSUME NEW q \in Sides, NEW n \in H \ {y}, z \in sub1[c1[n][q]] PROVE OnSide(q, y, n)
    <2>1. z \in sub[c[n][q]]
      BY <1>2, <1>7
    <2>2. c[n][q] \in H
      BY <2>1, <1>4
    <2>3. sub[z] \subseteq sub[c[n][q]]
      BY <2>1, <2>2 DEF Shape
    <2>4. y \in sub[z]
      BY <1>3 DEF Shape, Family
    <2> QED
      BY <2>3, <2>4, <1>4
  <1> QED
    BY <1>1, <1>6, <1>7 DEF Fits

-----------------------------------------------------------------------------
(* Where the loops are.  A search for a place goes down where the key sends*)
(* it ...                                                                  *)
WayDown(sub, key, x, y) ==
    /\ key \in TreeKeys /\ x \in made \cup {Nil} /\ y \in made \cup {Nil}
    /\ IF y = Nil THEN x = root ELSE child[y][Down(key, y)] = x
    /\ \A u \in made, s \in Sides : y \in sub[child[u][s]] => s = Down(key, u)

(* ... one for a key keeps every node that has it below ...                *)
Finds(sub, key, x) ==
    /\ key \in TreeKeys /\ x \in made \cup {Nil}
    /\ \A u \in made : KeyOf(u) = key => u \in sub[x]

(* ... and the successor stays at y or below.                              *)
FindsLeast(sub, z, y) ==
    /\ z \in made /\ child[z]["left"] # Nil /\ child[z]["right"] # Nil
    /\ y \in made /\ y \in sub[child[z]["right"]]
    /\ \A u \in sub[child[z]["right"]] :
          u \in sub[y] \/ \A v \in sub[y] : KeyOf(v) <= KeyOf(u)

(* All colours are right.                                                  *)
Quiet(h, sd) == Coloured(made, root, child, red, h, Nil, sd, {}, {})

(* What holds in the loop that is running.                                 *)
TreeStage(sub, h, at, sd) ==
    \/ treeCall = NoCall /\ Quiet(h, sd)
    \/ \E key, x, y : /\ treeCall = [pc |-> "descend", key |-> key, x |-> x, y |-> y]
                      /\ Quiet(h, sd) /\ WayDown(sub, key, x, y)
    \/ \E key, x : /\ treeCall = [pc |-> "find", key |-> key, x |-> x]
                   /\ Quiet(h, sd) /\ Finds(sub, key, x)
    \/ \E z, y : /\ treeCall = [pc |-> "minimum", z |-> z, y |-> y]
                 /\ Quiet(h, sd) /\ FindsLeast(sub, z, y)
    \/ \E z \in made : /\ treeCall = [pc |-> "insertFixup", z |-> z] /\ red[z]
                       /\ Coloured(made, root, child, red, h, Nil, sd, {z}, {})
    \/ \E x : /\ treeCall = [pc |-> "deleteFixup", x |-> x]
              /\ Coloured(made, root, child, red, h, at, sd, {x}, {x})
              /\ PlaceOf(made, root, child, x, at, sd)
              /\ x # root => parent[x] = at

(* The inductive invariant.                                                *)
TreeInv ==
    /\ TreeTyped
    /\ \E sub, h, at, sd : /\ Shape(made, root, child, parent, sub)
                           /\ TreeStage(sub, h, at, sd)

-----------------------------------------------------------------------------
(* The steps keep it: the walks down.                                      *)

(* The same by the name of the loop.                                       *)
LEMMA StageIs ==
    ASSUME NEW sub, NEW h, NEW at, NEW sd, TreeStage(sub, h, at, sd)
    PROVE  /\ treeCall = NoCall => Quiet(h, sd)
           /\ treeCall.pc = "descend" =>
                 /\ treeCall = [pc |-> "descend", key |-> treeCall.key, x |-> treeCall.x, y |-> treeCall.y]
                 /\ Quiet(h, sd) /\ WayDown(sub, treeCall.key, treeCall.x, treeCall.y)
           /\ treeCall.pc = "find" =>
                 /\ treeCall = [pc |-> "find", key |-> treeCall.key, x |-> treeCall.x]
                 /\ Quiet(h, sd) /\ Finds(sub, treeCall.key, treeCall.x)
           /\ treeCall.pc = "minimum" =>
                 /\ treeCall = [pc |-> "minimum", z |-> treeCall.z, y |-> treeCall.y]
                 /\ Quiet(h, sd) /\ FindsLeast(sub, treeCall.z, treeCall.y)
           /\ treeCall.pc = "insertFixup" =>
                 /\ treeCall = [pc |-> "insertFixup", z |-> treeCall.z]
                 /\ treeCall.z \in made /\ red[treeCall.z]
                 /\ Coloured(made, root, child, red, h, Nil, sd, {treeCall.z}, {})
           /\ treeCall.pc = "deleteFixup" =>
                 /\ treeCall = [pc |-> "deleteFixup", x |-> treeCall.x]
                 /\ Coloured(made, root, child, red, h, at, sd, {treeCall.x}, {treeCall.x})
                 /\ PlaceOf(made, root, child, treeCall.x, at, sd)
                 /\ treeCall.x # root => parent[treeCall.x] = at
  <1>1. CASE treeCall = NoCall /\ Quiet(h, sd)
    BY <1>1 DEF NoCall
  <1>2. ASSUME NEW key, NEW x, NEW y, treeCall = [pc |-> "descend", key |-> key, x |-> x, y |-> y],
               Quiet(h, sd), WayDown(sub, key, x, y)
        PROVE  /\ treeCall = [pc |-> "descend", key |-> treeCall.key, x |-> treeCall.x, y |-> treeCall.y]
               /\ Quiet(h, sd) /\ WayDown(sub, treeCall.key, treeCall.x, treeCall.y)
               /\ treeCall.pc = "descend" /\ treeCall # NoCall
    BY <1>2 DEF NoCall
  <1>3. ASSUME NEW key, NEW x, treeCall = [pc |-> "find", key |-> key, x |-> x],
               Quiet(h, sd), Finds(sub, key, x)
        PROVE  /\ treeCall = [pc |-> "find", key |-> treeCall.key, x |-> treeCall.x]
               /\ Quiet(h, sd) /\ Finds(sub, treeCall.key, treeCall.x)
               /\ treeCall.pc = "find" /\ treeCall # NoCall
    BY <1>3 DEF NoCall
  <1>4. ASSUME NEW z, NEW y, treeCall = [pc |-> "minimum", z |-> z, y |-> y],
               Quiet(h, sd), FindsLeast(sub, z, y)
        PROVE  /\ treeCall = [pc |-> "minimum", z |-> treeCall.z, y |-> treeCall.y]
               /\ Quiet(h, sd) /\ FindsLeast(sub, treeCall.z, treeCall.y)
               /\ treeCall.pc = "minimum" /\ treeCall # NoCall
    BY <1>4 DEF NoCall
  <1>5. ASSUME NEW z \in made, treeCall = [pc |-> "insertFixup", z |-> z], red[z],
               Coloured(made, root, child, red, h, Nil, sd, {z}, {})
        PROVE  /\ treeCall = [pc |-> "insertFixup", z |-> treeCall.z]
               /\ treeCall.z \in made /\ red[treeCall.z]
               /\ Coloured(made, root, child, red, h, Nil, sd, {treeCall.z}, {})
               /\ treeCall.pc = "insertFixup" /\ treeCall # NoCall
    <2>1. treeCall.z = z /\ treeCall.pc = "insertFixup" /\ treeCall # NoCall
      BY <1>5 DEF NoCall
    <2> QED
      BY <2>1, <1>5
  <1>6. ASSUME NEW x, treeCall = [pc |-> "deleteFixup", x |-> x],
               Coloured(made, root, child, red, h, at, sd, {x}, {x}),
               PlaceOf(made, root, child, x, at, sd), x # root => parent[x] = at
        PROVE  /\ treeCall = [pc |-> "deleteFixup", x |-> treeCall.x]
               /\ Coloured(made, root, child, red, h, at, sd, {treeCall.x}, {treeCall.x})
               /\ PlaceOf(made, root, child, treeCall.x, at, sd)
               /\ treeCall.x # root => parent[treeCall.x] = at
               /\ treeCall.pc = "deleteFixup" /\ treeCall # NoCall
    <2>1. treeCall.x = x /\ treeCall.pc = "deleteFixup" /\ treeCall # NoCall
      BY <1>6 DEF NoCall
    <2> QED
      BY <2>1, <1>6
  <1> QED
    BY <1>1, <1>2, <1>3, <1>4, <1>5, <1>6 DEF TreeStage

(* A step that only moves the loop on.                                     *)
LEMMA LoopMoves ==
    ASSUME TreeTyped, NEW sub, NEW h, NEW at, NEW sd, Shape(made, root, child, parent, sub),
           UNCHANGED <<root, child, parent, red, made>>, TreeStage(sub, h, at, sd)'
    PROVE  TreeInv'
  <1>1. root' = root /\ child' = child /\ parent' = parent /\ red' = red /\ made' = made
    OBVIOUS
  <1>2. TreeTyped'
    BY <1>1 DEF TreeTyped
  <1>3. Shape(made, root, child, parent, sub)'
    BY <1>1
  <1> QED
    BY <1>2, <1>3 DEF TreeInv

(* Calls begin.                                                            *)
LEMMA InsertBegins ==
    ASSUME TreeFit, TreeInv, NEW key \in TreeKeys, insert(key)
    PROVE  TreeInv'
  <1>1. PICK sub, h, at, sd : Shape(made, root, child, parent, sub) /\ TreeStage(sub, h, at, sd)
    BY DEF TreeInv
  <1>2. /\ treeCall = NoCall /\ UNCHANGED <<root, child, parent, red, made>>
        /\ treeCall' = [pc |-> "descend", key |-> key, x |-> root, y |-> Nil]
    BY DEF insert
  <1>3. Quiet(h, sd) /\ TreeTyped
    BY <1>1, <1>2, StageIs DEF TreeInv
  <1>4. WayDown(sub, key, root, Nil)
    <2>1. ASSUME NEW u \in made, NEW s \in Sides PROVE Nil \notin sub[child[u][s]]
      BY <1>1, ShapeFacts
    <2>2. root \in made \cup {Nil}
      BY <1>1 DEF Shape
    <2> QED
      BY <2>1, <2>2 DEF WayDown
  <1>5. TreeStage(sub, h, at, sd)'
    <2>1. PICK w : w = root
      OBVIOUS
    <2>2. Quiet(h, sd)' /\ WayDown(sub, key, w, Nil)'
      BY <2>1, <1>2, <1>3, <1>4 DEF Quiet, WayDown
    <2>3. treeCall' = [pc |-> "descend", key |-> key, x |-> w, y |-> Nil]
      BY <2>1, <1>2
    <2> QED
      BY <2>2, <2>3 DEF TreeStage
  <1> QED
    BY <1>1, <1>2, <1>3, <1>5, LoopMoves

(* So does a search.                                                       *)
LEMMA SearchBegins ==
    ASSUME TreeFit, TreeInv, NEW key \in TreeKeys, search(key)
    PROVE  TreeInv'
  <1>1. PICK sub, h, at, sd : Shape(made, root, child, parent, sub) /\ TreeStage(sub, h, at, sd)
    BY DEF TreeInv
  <1>2. /\ treeCall = NoCall /\ UNCHANGED <<root, child, parent, red, made>>
        /\ treeCall' = [pc |-> "find", key |-> key, x |-> root]
    BY DEF search
  <1>3. Quiet(h, sd) /\ TreeTyped
    BY <1>1, <1>2, StageIs DEF TreeInv
  <1>4. Finds(sub, key, root)
    BY <1>1 DEF Shape, Finds
  <1>5. TreeStage(sub, h, at, sd)'
    BY <1>2, <1>3, <1>4 DEF TreeStage, Quiet, Finds
  <1> QED
    BY <1>1, <1>2, <1>3, <1>5, LoopMoves

(* One turn of each loop that only reads.                                  *)
LEMMA DescendKeeps ==
    ASSUME TreeFit, TreeInv, Descend
    PROVE  TreeInv'
  <1>1. PICK sub, h, at, sd : Shape(made, root, child, parent, sub) /\ TreeStage(sub, h, at, sd)
    BY DEF TreeInv
  <1>2. PICK key, x, y : key = treeCall.key /\ x = treeCall.x /\ y = treeCall.y
    OBVIOUS
  <1>3. /\ x # Nil /\ UNCHANGED <<root, child, parent, red, made>> /\ treeCall.pc = "descend"
        /\ treeCall' = [pc |-> "descend", key |-> key, x |-> child[x][Down(key, x)], y |-> x]
    BY <1>2 DEF Descend
  <1>4. Quiet(h, sd) /\ WayDown(sub, key, x, y) /\ TreeTyped
    BY <1>1, <1>2, <1>3, StageIs DEF TreeInv
  <1>5. Down(key, x) \in Sides /\ Down(key, y) \in Sides
    BY DEF Down, Sides
  <1>6. WayDown(sub, key, child[x][Down(key, x)], x)
    <2>1. x \in made /\ child[x][Down(key, x)] \in made \cup {Nil}
      <3>1. x \in made
        BY <1>3, <1>4 DEF WayDown
      <3> QED
        BY <3>1, <1>1, <1>5, ShapeFacts
    <2>2. ASSUME NEW u \in made, NEW s \in Sides, x \in sub[child[u][s]] PROVE s = Down(key, u)
      <3>1. PICK m : m = child[u][s]
        OBVIOUS
      <3>2. m \in made /\ u \notin sub[m] /\ sub[root] = made /\ Nil \notin made
        BY <2>2, <3>1, <1>1, ShapeFacts
      <3>3. sub[x] \subseteq sub[m] /\ (x # m => parent[x] \in sub[m])
        BY <2>2, <3>1, <3>2, <1>1 DEF Shape
      <3>4. x # root
        BY <3>2, <3>3
      <3>5. y \in made /\ child[y][Down(key, y)] = x
        BY <3>4, <1>4 DEF WayDown
      <3>6. parent[x] = y
        BY <3>5, <1>1, <1>3, <1>5 DEF Shape, Family
      <3>7. CASE x = m
        <4>1. u = y /\ s = Down(key, y)
          BY <3>1, <3>5, <3>7, <1>1, <1>3, <1>5, OneParent
        <4> QED
          BY <4>1
      <3>8. CASE x # m
        BY <3>1, <3>3, <3>6, <3>8, <1>4 DEF WayDown
      <3> QED
        BY <3>7, <3>8
    <2>3. key \in TreeKeys
      BY <1>4 DEF WayDown
    <2> QED
      BY <2>1, <2>2, <2>3, <1>3 DEF WayDown
  <1>7. TreeStage(sub, h, at, sd)'
    <2>1. Quiet(h, sd)' /\ WayDown(sub, key, child[x][Down(key, x)], x)'
      BY <1>3, <1>4, <1>6 DEF Quiet, WayDown
    <2>2. PICK w : w = child[x][Down(key, x)]
      OBVIOUS
    <2>3. treeCall' = [pc |-> "descend", key |-> key, x |-> w, y |-> x] /\ WayDown(sub, key, w, x)'
      BY <2>1, <2>2, <1>3, <1>6 DEF WayDown
    <2> QED
      BY <2>1, <2>3 DEF TreeStage
  <1> QED
    BY <1>1, <1>3, <1>4, <1>7, LoopMoves

-----------------------------------------------------------------------------
(* Searches, and the walk to the successor.                                *)

(* A walk for a key goes to the side the key is on.                        *)
LEMMA FindKeeps ==
    ASSUME TreeFit, TreeInv, Find
    PROVE  TreeInv'
  <1>1. PICK sub, h, at, sd : Shape(made, root, child, parent, sub) /\ TreeStage(sub, h, at, sd)
    BY DEF TreeInv
  <1>2. PICK key, x, s : key = treeCall.key /\ x = treeCall.x /\ s = Down(key, x)
    OBVIOUS
  <1>3. /\ x # Nil /\ UNCHANGED <<root, child, parent, red, made>> /\ treeCall.pc = "find"
        /\ treeCall' = [treeCall EXCEPT !.x = child[@][Down(treeCall.key, @)]]
        /\ KeyOf(x) # key
    BY <1>2 DEF Find, Reached
  <1>4. Quiet(h, sd) /\ Finds(sub, key, x) /\ TreeTyped /\ treeCall = [pc |-> "find", key |-> key, x |-> x]
    BY <1>1, <1>2, <1>3, StageIs DEF TreeInv
  <1>5. PICK w : w = child[x][s]
    OBVIOUS
  <1>6. treeCall' = [pc |-> "find", key |-> key, x |-> w]
    BY <1>2, <1>3, <1>4, <1>5
  <1>7. s \in Sides /\ x \in made
    BY <1>2, <1>3, <1>4 DEF Down, Sides, Finds
  <1>8. Finds(sub, key, w)
    <2>1. /\ w \in made \cup {Nil} /\ made \subseteq Nodes /\ key \in TreeKeys
          /\ \A q \in Sides : \A u \in sub[child[x][q]] : OnSide(q, u, x)
          /\ sub[x] = {x} \cup sub[child[x][s]] \cup sub[child[x][Other(s)]]
      BY <1>1, <1>4, <1>5, <1>7, ShapeFacts DEF Family, Finds
    <2>2. ASSUME NEW u \in made, KeyOf(u) = key PROVE u \in sub[w]
      <3>1. u \in sub[x] /\ u # x
        BY <2>2, <1>3, <1>4 DEF Finds
      <3>2. CASE u \in sub[child[x][Other(s)]]
        <4>1. OnSide(Other(s), u, x)
          BY <3>2, <2>1, <1>7, TwoSides
        <4>2. KeyOf(x) \in Int /\ KeyOf(u) \in Int
          BY <2>1, <1>7, NodesApart
        <4>3. s = IF KeyOf(u) < KeyOf(x) THEN "left" ELSE "right"
          BY <1>2, <2>2 DEF Down
        <4>4. Other(s) = IF KeyOf(u) < KeyOf(x) THEN "right" ELSE "left"
          BY <4>3 DEF Other
        <4>5. KeyOf(u) = KeyOf(x)
          BY <4>1, <4>2, <4>4 DEF OnSide
        <4> QED
          BY <4>5, <2>2, <1>3
      <3> QED
        BY <2>1, <3>1, <3>2, <1>5
    <2> QED
      BY <2>1, <2>2 DEF Finds
  <1>9. TreeStage(sub, h, at, sd)'
    <2>1. Quiet(h, sd)' /\ Finds(sub, key, w)'
      BY <1>3, <1>4, <1>8 DEF Quiet, Finds
    <2> QED
      BY <2>1, <1>6 DEF TreeStage
  <1> QED
    BY <1>1, <1>3, <1>4, <1>9, LoopMoves

(* It ends.                                                                *)
LEMMA SearchEndsKeeps ==
    ASSUME TreeFit, TreeInv, SearchEnds
    PROVE  TreeInv'
  <1>1. PICK sub, h, at, sd : Shape(made, root, child, parent, sub) /\ TreeStage(sub, h, at, sd)
    BY DEF TreeInv
  <1>2. UNCHANGED <<root, child, parent, red, made>> /\ treeCall.pc = "find" /\ treeCall' = NoCall
    BY DEF SearchEnds
  <1>3. Quiet(h, sd) /\ TreeTyped
    BY <1>1, <1>2, StageIs DEF TreeInv
  <1>4. Quiet(h, sd)'
    BY <1>2, <1>3 DEF Quiet
  <1>5. TreeStage(sub, h, at, sd)'
    BY <1>2, <1>4 DEF TreeStage, NoCall
  <1> QED
    BY <1>1, <1>2, <1>3, <1>5, LoopMoves

(* A call that reached z is a search, and nothing is out of order.         *)
LEMMA ReachedStage ==
    ASSUME TreeFit, TreeInv, NEW z, Reached(z)
    PROVE  \E sub, h, sd : /\ Shape(made, root, child, parent, sub) /\ Quiet(h, sd) /\ TreeTyped
                           /\ z \in made
  <1>1. PICK sub, h, at, sd : Shape(made, root, child, parent, sub) /\ TreeStage(sub, h, at, sd)
    BY DEF TreeInv
  <1>2. treeCall.pc = "find" /\ z = treeCall.x /\ z # Nil
    BY DEF Reached
  <1>3. Quiet(h, sd) /\ Finds(sub, treeCall.key, z)
    BY <1>1, <1>2, StageIs
  <1> QED
    BY <1>1, <1>2, <1>3 DEF TreeInv, Finds

(* With two children it looks for the successor ...                        *)
LEMMA BeginMinimumKeeps ==
    ASSUME TreeFit, TreeInv, BeginMinimum
    PROVE  TreeInv'
  <1>1. PICK z \in made : /\ Reached(z) /\ Nil \notin {child[z]["left"], child[z]["right"]}
                          /\ treeCall' = [pc |-> "minimum", z |-> z, y |-> child[z]["right"]]
                          /\ UNCHANGED <<root, child, parent, red, made>>
    BY DEF BeginMinimum
  <1>2. PICK sub, h, sd : Shape(made, root, child, parent, sub) /\ Quiet(h, sd) /\ TreeTyped
    BY <1>1, ReachedStage
  <1>3. PICK y : y = child[z]["right"]
    OBVIOUS
  <1>4. FindsLeast(sub, z, y)
    <2>1. "right" \in Sides
      BY DEF Sides
    <2>2. y \in made /\ y \in sub[y]
      BY <1>1, <1>2, <1>3, <2>1, ShapeFacts
    <2> QED
      BY <2>2, <1>1, <1>3 DEF FindsLeast
  <1>5. TreeStage(sub, h, Nil, sd)'
    <2>1. Quiet(h, sd)' /\ FindsLeast(sub, z, y)'
      BY <1>1, <1>2, <1>4 DEF Quiet, FindsLeast
    <2>2. treeCall' = [pc |-> "minimum", z |-> z, y |-> y]
      BY <1>1, <1>3
    <2> QED
      BY <2>1, <2>2 DEF TreeStage
  <1> QED
    BY <1>1, <1>2, <1>5, LoopMoves

(* ... on the left of the right child.                                     *)
LEMMA MinimumKeeps ==
    ASSUME TreeFit, TreeInv, Minimum
    PROVE  TreeInv'
  <1>1. PICK sub, h, at, sd : Shape(made, root, child, parent, sub) /\ TreeStage(sub, h, at, sd)
    BY DEF TreeInv
  <1>2. PICK z, y, w : z = treeCall.z /\ y = treeCall.y /\ w = child[y]["left"]
    OBVIOUS
  <1>3. /\ w # Nil /\ UNCHANGED <<root, child, parent, red, made>> /\ treeCall.pc = "minimum"
        /\ treeCall' = [treeCall EXCEPT !.y = w]
    BY <1>2 DEF Minimum, Smallest
  <1>4. Quiet(h, sd) /\ FindsLeast(sub, z, y) /\ TreeTyped /\ treeCall = [pc |-> "minimum", z |-> z, y |-> y]
    BY <1>1, <1>2, <1>3, StageIs DEF TreeInv
  <1>5. treeCall' = [pc |-> "minimum", z |-> z, y |-> w]
    BY <1>3, <1>4
  <1>6. FindsLeast(sub, z, w)
    <2>1. PICK R : R = child[z]["right"]
      OBVIOUS
    <2>2. "left" \in Sides /\ "right" \in Sides /\ Other("left") = "right"
      BY DEF Sides, Other
    <2>3. z \in made /\ y \in made /\ y \in sub[R] /\ R # Nil
      BY <1>4, <2>1 DEF FindsLeast
    <2>4. R \in made
      BY <1>1, <2>1, <2>2, <2>3, ShapeFacts
    <2>5. /\ w \in made /\ made \subseteq Nodes /\ sub[y] \subseteq sub[R] /\ w \in sub[w]
          /\ sub[w] \subseteq made /\ sub[R] \subseteq made
          /\ sub[y] = {y} \cup sub[w] \cup sub[child[y]["right"]]
          /\ (\A u \in sub[w] : OnSide("left", u, y))
          /\ (\A u \in sub[child[y]["right"]] : OnSide("right", u, y))
      <3>1. w \in made \cup {Nil}
        BY <1>1, <1>2, <2>2, <2>3, ShapeFacts
      <3>2. w \in made
        BY <3>1, <1>3
      <3>3. Family(made, child, parent, sub, y)
        BY <1>1, <2>3, ShapeFacts
      <3>4. /\ sub[y] = {y} \cup sub[w] \cup sub[child[y]["right"]]
            /\ (\A u \in sub[w] : OnSide("left", u, y))
            /\ (\A u \in sub[child[y]["right"]] : OnSide("right", u, y))
        BY <3>3, <1>2, <2>2 DEF Family
      <3>5. sub[y] \subseteq sub[R] /\ w \in sub[w] /\ sub[w] \subseteq made /\ sub[R] \subseteq made /\ made \subseteq Nodes
        BY <3>2, <2>3, <2>4, <1>1, ShapeFacts
      <3> QED
        BY <3>2, <3>4, <3>5
    <2>6. w \in sub[R]
      BY <2>5
    <2>7. \A n \in made : KeyOf(n) \in Int
      BY <2>5, NodesApart
    <2>8. ASSUME NEW v \in sub[w] PROVE KeyOf(v) <= KeyOf(y) /\ v \in sub[y] /\ v \in made
      BY <2>5 DEF OnSide
    <2>9. ASSUME NEW u \in sub[R], u \notin sub[w] PROVE \A v \in sub[w] : KeyOf(v) <= KeyOf(u)
      <3> SUFFICES ASSUME NEW v \in sub[w] PROVE KeyOf(v) <= KeyOf(u)
        OBVIOUS
      <3>1. u \in made
        BY <2>5
      <3>2. CASE u \notin sub[y]
        BY <3>2, <2>1, <2>8, <2>9, <1>4 DEF FindsLeast
      <3>3. CASE u = y
        BY <3>3, <2>8
      <3>4. CASE u \in sub[child[y]["right"]]
        <4>1. KeyOf(y) <= KeyOf(u)
          BY <3>4, <2>5 DEF OnSide
        <4>2. KeyOf(v) \in Int /\ KeyOf(y) \in Int /\ KeyOf(u) \in Int /\ KeyOf(v) <= KeyOf(y)
          BY <2>3, <2>7, <2>8, <3>1
        <4> QED
          BY <4>1, <4>2
      <3> QED
        BY <3>2, <3>3, <3>4, <2>5, <2>9
    <2> QED
      BY <2>1, <2>5, <2>6, <2>9, <1>4 DEF FindsLeast
  <1>7. TreeStage(sub, h, at, sd)'
    <2>1. Quiet(h, sd)' /\ FindsLeast(sub, z, w)'
      BY <1>3, <1>4, <1>6 DEF Quiet, FindsLeast
    <2> QED
      BY <2>1, <1>5 DEF TreeStage
  <1> QED
    BY <1>1, <1>3, <1>4, <1>7, LoopMoves

-----------------------------------------------------------------------------
(* The insertion.                                                          *)

(* What shows the invariant after a step, by the loop it leads to.         *)
LEMMA QuietNext ==
    ASSUME TreeTyped', NEW sub, Shape(made', root', child', parent', sub), treeCall' = NoCall,
           NEW h, NEW sd, Coloured(made', root', child', red', h, Nil, sd, {}, {})
    PROVE  TreeInv'
  <1>1. Quiet(h, sd)'
    BY DEF Quiet
  <1>2. TreeStage(sub, h, Nil, sd)'
    BY <1>1 DEF TreeStage
  <1> QED
    BY <1>2 DEF TreeInv

LEMMA InsertNext ==
    ASSUME TreeTyped', NEW sub, Shape(made', root', child', parent', sub),
           NEW z, z \in made', red'[z], treeCall' = [pc |-> "insertFixup", z |-> z],
           NEW h, NEW sd, Coloured(made', root', child', red', h, Nil, sd, {z}, {})
    PROVE  TreeInv'
  <1>1. TreeStage(sub, h, Nil, sd)'
    BY DEF TreeStage
  <1> QED
    BY <1>1 DEF TreeInv

LEMMA DeleteNext ==
    ASSUME TreeTyped', NEW sub, Shape(made', root', child', parent', sub),
           NEW x, treeCall' = [pc |-> "deleteFixup", x |-> x],
           NEW h, NEW at, NEW sd, Coloured(made', root', child', red', h, at, sd, {x}, {x}),
           PlaceOf(made', root', child', x, at, sd), x # root' => parent'[x] = at
    PROVE  TreeInv'
  <1>1. TreeStage(sub, h, at, sd)'
    BY DEF TreeStage
  <1> QED
    BY <1>1 DEF TreeInv

(* The new node is hung where the walk ended.                              *)
LEMMA AttachKeeps ==
    ASSUME TreeFit, TreeInv, Attach
    PROVE  TreeInv'
  <1>1. PICK sub, h, at, sd : Shape(made, root, child, parent, sub) /\ TreeStage(sub, h, at, sd)
    BY DEF TreeInv
  <1>2. PICK key, y, s : key = treeCall.key /\ y = treeCall.y /\ s = Down(key, y)
    OBVIOUS
  <1>3. treeCall.pc = "descend" /\ treeCall.x = Nil
    BY DEF Attach
  <1>4. Quiet(h, sd) /\ WayDown(sub, key, Nil, y) /\ TreeTyped
    BY <1>1, <1>2, <1>3, StageIs DEF TreeInv
  <1>5. PICK copy \in 1 .. MaxCopies :
          LET w == <<key, copy>>
          IN  /\ w \notin made
              /\ made' = made \cup {w}
              /\ root' = IF y = Nil THEN w ELSE root
              /\ child' = [child EXCEPT ![y][s] = IF y = Nil THEN @ ELSE w,
                                        ![w]["left"] = Nil, ![w]["right"] = Nil]
              /\ parent' = [parent EXCEPT ![w] = y]
              /\ red' = [red EXCEPT ![w] = TRUE]
              /\ treeCall' = [pc |-> "insertFixup", z |-> w]
    BY <1>2 DEF Attach
  <1>6. PICK z : z = <<key, copy>>
    OBVIOUS
  <1>7. /\ z \notin made /\ made' = made \cup {z}
        /\ red' = [red EXCEPT ![z] = TRUE]
        /\ treeCall' = [pc |-> "insertFixup", z |-> z]
    BY <1>5, <1>6
  <1>8. Attaching(z, y, s, root', child', parent')
    BY <1>5, <1>6 DEF Attaching
  <1>9. z \in Nodes /\ KeyOf(z) = key /\ key \in Int /\ s \in Sides
    <2>1. key \in TreeKeys
      BY <1>4 DEF WayDown
    <2>2. key \in Int
      BY <2>1 DEF TreeFit
    <2>3. z \in Nodes /\ KeyOf(z) = key
      BY <2>1, <1>6 DEF Nodes, KeyOf
    <2>4. s \in Sides
      BY <1>2 DEF Down, Sides
    <2> QED
      BY <2>2, <2>3, <2>4
  <1>10. /\ y \in made \cup {Nil} /\ (IF y = Nil THEN root = Nil ELSE child[y][s] = Nil)
         /\ \A u \in made, q \in Sides : y \in sub[child[u][q]] => q = Down(key, u)
    BY <1>2, <1>4 DEF WayDown
  <1>11. /\ Hung(made, z, y, s, root, child, parent, root', child', parent')
         /\ LinksOf(child') /\ parent' \in [Cells -> Cells]
    BY <1>1, <1>4, <1>7, <1>8, <1>9, <1>10, AttachHangs
  <1>12. \A n \in made : OnSide(Down(key, n), z, n)
    <2> SUFFICES ASSUME NEW n \in made PROVE OnSide(Down(key, n), z, n)
      OBVIOUS
    <2>1. made \subseteq Nodes
      BY <1>1, ShapeFacts
    <2>2. KeyOf(n) \in Int
      BY <2>1, NodesApart
    <2> QED
      BY <2>2, <1>9 DEF OnSide, Down
  <1>13. Belongs(made, z, y, s, child, sub)
    BY <1>2, <1>10, <1>12 DEF Belongs
  <1>14. Shape(made', root', child', parent', HungSub(made, z, y, sub))
    BY <1>1, <1>7, <1>11, <1>13, HangShape
  <1>15. red' \in [Cells -> BOOLEAN] /\ red'[z] /\ \A n \in made \cup {Nil} : red'[n] = red[n]
    <2>1. z \in Cells /\ made \cup {Nil} \subseteq Cells /\ z # Nil
      <3>1. made \subseteq Nodes /\ Nil \notin Nodes
        BY <1>1, ShapeFacts, NodesApart
      <3> QED
        BY <3>1, <1>9 DEF Cells
    <2>2. red \in [Cells -> BOOLEAN]
      BY <1>4 DEF TreeTyped
    <2> QED
      BY <2>1, <2>2, <1>7
  <1>16. Coloured(made, root, child, red, h, Nil, sd, {}, {})
    BY <1>4 DEF Quiet
  <1>17. \E h1 : Coloured(made \cup {z}, root', child', red', h1, Nil, sd, {z}, {})
    BY <1>1, <1>11, <1>15, <1>16, HangColours
  <1>18. TreeTyped'
    <2>1. IsFiniteSet(made')
      BY <1>4, <1>7, FS_AddElement DEF TreeTyped
    <2> QED
      BY <2>1, <1>11, <1>15 DEF TreeTyped
  <1> QED
    BY <1>7, <1>14, <1>15, <1>17, <1>18, InsertNext

-----------------------------------------------------------------------------
(* The cases of insertFixup.                                               *)

(* The nodes that the cases of insertFixup are about.                      *)
Kin(z, v, g, s, u) ==
    /\ v = parent[z] /\ g = parent[v] /\ s = SideOf(v) /\ u = child[g][Other(s)]
    /\ z \in made /\ v \in made /\ g \in made /\ v # g /\ u # g
    /\ s \in Sides /\ child[g][s] = v /\ red[z] /\ red[v] /\ ~ red[g]

(* Who they are, while insertFixup runs.                                   *)
LEMMA InsertStage ==
    ASSUME TreeFit, TreeInv, NEW z \in made, Repairing(z)
    PROVE  \E sub, h, sd, v, g, s, u :
               /\ TreeTyped /\ Shape(made, root, child, parent, sub)
               /\ Coloured(made, root, child, red, h, Nil, sd, {z}, {})
               /\ Kin(z, v, g, s, u)
  <1>1. PICK sub, h, at, sd : Shape(made, root, child, parent, sub) /\ TreeStage(sub, h, at, sd)
    BY DEF TreeInv
  <1>2. treeCall.pc = "insertFixup" /\ treeCall.z = z /\ red[parent[z]]
    BY DEF Repairing
  <1>3. red[z] /\ Coloured(made, root, child, red, h, Nil, sd, {z}, {})
    BY <1>1, <1>2, StageIs
  <1>4. PICK v, g, s, u : v = parent[z] /\ g = parent[v] /\ s = SideOf(v) /\ u = child[g][Other(s)]
    OBVIOUS
  <1>5. v \in made /\ g \in made /\ v # g /\ ~ red[g] /\ red[v]
    BY <1>1, <1>2, <1>3, <1>4, RedParent
  <1>6. s \in Sides /\ child[g][s] = v
    <2>1. Nil \notin made
      BY <1>1, ShapeFacts
    <2> QED
      BY <2>1, <1>1, <1>4, <1>5, KnownPlace
  <1>7. u # g
    <2>1. g \in sub[g] /\ Other(s) \in Sides
      BY <1>1, <1>5, <1>6, ShapeFacts, TwoSides
    <2> QED
      BY <2>1, <1>1, <1>4, <1>5, ShapeFacts
  <1>8. Kin(z, v, g, s, u)
    BY <1>2, <1>3, <1>4, <1>5, <1>6, <1>7 DEF Kin
  <1> QED
    BY <1>1, <1>3, <1>8 DEF TreeInv

(* One lemma per action.                                                   *)
LEMMA InsertCase1Keeps ==
    ASSUME TreeFit, TreeInv, InsertCase1
    PROVE  TreeInv'
  <1>1. PICK z \in made : /\ Repairing(z) /\ red[Uncle(z)]
                          /\ red' = [Recolour(z) EXCEPT ![Uncle(z)] = FALSE]
                          /\ treeCall' = [pc |-> "insertFixup", z |-> Grandparent(z)]
                          /\ UNCHANGED <<root, child, parent, made>>
    BY DEF InsertCase1
  <1>2. PICK sub, h, sd, v, g, s, u :
            /\ TreeTyped /\ Shape(made, root, child, parent, sub)
            /\ Coloured(made, root, child, red, h, Nil, sd, {z}, {}) /\ Kin(z, v, g, s, u)
    BY <1>1, InsertStage
  <1>3. parent[z] = v /\ Grandparent(z) = g /\ Uncle(z) = u
    BY <1>2 DEF Kin, Grandparent, Uncle, Side
  <1>4. /\ v = parent[z] /\ g = parent[v] /\ u = child[g][Other(s)] /\ child[g][s] = v /\ s \in Sides
        /\ red[v] /\ red[u] /\ u # g /\ v # g /\ v \in made /\ g \in made
    BY <1>1, <1>2, <1>3 DEF Kin
  <1>5. red' = [[red EXCEPT ![v] = FALSE, ![g] = TRUE] EXCEPT ![u] = FALSE]
    BY <1>1, <1>3 DEF Recolour
  <1>6. red' \in [Cells -> BOOLEAN] /\ red'[g] /\ Repainted(made, red, v, u, g, TRUE, red')
    <2>1. made \cup {Nil} \subseteq Cells
      BY <1>2, ShapeFacts DEF Cells
    <2>2. red \in [Cells -> BOOLEAN]
      BY <1>2 DEF TreeTyped
    <2> QED
      BY <2>1, <2>2, <1>4, <1>5 DEF Repainted
  <1>7. \E h1 : Coloured(made, root, child, red', h1, Nil, sd, {g}, {})
    BY <1>1, <1>2, <1>4, <1>6, InsertColours1
  <1>8. TreeTyped' /\ red'[g] /\ treeCall' = [pc |-> "insertFixup", z |-> g]
    BY <1>1, <1>2, <1>3, <1>4, <1>6 DEF TreeTyped
  <1> QED
    BY <1>1, <1>2, <1>4, <1>7, <1>8, InsertNext

LEMMA InsertCase2Keeps ==
    ASSUME TreeFit, TreeInv, InsertCase2
    PROVE  TreeInv'
  <1>1. PICK z \in made : /\ Repairing(z) /\ Inner(z) /\ Rotate(parent[z], Side(z))
                          /\ treeCall' = [pc |-> "insertFixup", z |-> parent[z]]
                          /\ UNCHANGED <<red, made>>
    BY DEF InsertCase2
  <1>2. PICK sub, h, sd, v, g, s, u :
            /\ TreeTyped /\ Shape(made, root, child, parent, sub)
            /\ Coloured(made, root, child, red, h, Nil, sd, {z}, {}) /\ Kin(z, v, g, s, u)
    BY <1>1, InsertStage
  <1>3. v = parent[z] /\ Side(z) = s /\ s \in Sides /\ red[z] /\ red[v] /\ v \in made
    BY <1>2 DEF Kin, Side
  <1>4. z = child[v][Other(s)] /\ z # Nil
    <2>1. Nil \notin made
      BY <1>2, ShapeFacts
    <2> QED
      BY <2>1, <1>1, <1>3 DEF Inner
  <1>5. Rotated(v, s, root', child', parent')
    BY <1>1, <1>3 DEF Rotate, Rotated
  <1>6. /\ Turned(made, v, z, child[z][s], s, root, child, parent, root', child', parent')
        /\ LinksOf(child') /\ parent' \in [Cells -> Cells]
    BY <1>2, <1>3, <1>4, <1>5, RotateTurns
  <1>7. Shape(made, root', child', parent', TurnedSub(made, v, z, s, child, sub))
    BY <1>2, <1>6, TurnShape
  <1>8. Coloured(made, root', child', red, h, Nil, sd, {v}, {})
    BY <1>2, <1>3, <1>6, InsertColours2
  <1>9. TreeTyped' /\ made' = made /\ red' = red /\ treeCall' = [pc |-> "insertFixup", z |-> v]
    BY <1>1, <1>2, <1>3, <1>6 DEF TreeTyped
  <1> QED
    BY <1>3, <1>7, <1>8, <1>9, InsertNext

LEMMA InsertCase3Keeps ==
    ASSUME TreeFit, TreeInv, InsertCase3
    PROVE  TreeInv'
  <1>1. PICK z \in made : /\ Repairing(z) /\ ~ red[Uncle(z)] /\ ~ Inner(z)
                          /\ red' = Recolour(z)
                          /\ Rotate(Grandparent(z), Other(Side(z)))
                          /\ UNCHANGED <<made, treeCall>>
    BY DEF InsertCase3
  <1>2. PICK sub, h, sd, v, g, s, u :
            /\ TreeTyped /\ Shape(made, root, child, parent, sub)
            /\ Coloured(made, root, child, red, h, Nil, sd, {z}, {}) /\ Kin(z, v, g, s, u)
    BY <1>1, InsertStage
  <1>3. PICK f : f = Other(s)
    OBVIOUS
  <1>4. /\ v = parent[z] /\ g = parent[v] /\ Side(z) = s /\ Grandparent(z) = g /\ Uncle(z) = child[g][f]
        /\ s \in Sides /\ f \in Sides /\ Other(f) = s /\ child[g][s] = v
        /\ red[z] /\ red[v] /\ v \in made /\ g \in made /\ v # g /\ ~ red[g]
    BY <1>2, <1>3, TwoSides DEF Kin, Side, Grandparent, Uncle
  <1>5. ~ red[child[g][f]] /\ z # child[v][f] /\ v # Nil /\ v = child[g][Other(f)]
    <2>1. Nil \notin made
      BY <1>2, ShapeFacts
    <2> QED
      BY <2>1, <1>1, <1>3, <1>4 DEF Inner
  <1>6. Rotated(g, f, root', child', parent')
    BY <1>1, <1>3, <1>4 DEF Rotate, Rotated
  <1>7. /\ Turned(made, g, v, child[v][f], f, root, child, parent, root', child', parent')
        /\ LinksOf(child') /\ parent' \in [Cells -> Cells]
    BY <1>2, <1>4, <1>5, <1>6, RotateTurns
  <1>8. Shape(made, root', child', parent', TurnedSub(made, g, v, f, child, sub))
    BY <1>2, <1>7, TurnShape
  <1>9. red' = [red EXCEPT ![v] = FALSE, ![g] = TRUE]
    BY <1>1, <1>4 DEF Recolour
  <1>10. /\ red' \in [Cells -> BOOLEAN]
         /\ Repainted(made, red, v, v, g, TRUE, red')
         /\ \A n \in made : n # v /\ n # g => red'[n] = red[n]
    <2>1. made \cup {Nil} \subseteq Cells
      BY <1>2, ShapeFacts DEF Cells
    <2>2. red \in [Cells -> BOOLEAN]
      BY <1>2 DEF TreeTyped
    <2> QED
      BY <2>1, <2>2, <1>4, <1>9 DEF Repainted
  <1>11. \E h1 : Coloured(made, root', child', red', h1, Nil, sd, {z}, {})
    BY <1>2, <1>4, <1>5, <1>7, <1>10, InsertColours3
  <1>12. z # v /\ z # g
    BY <1>2, <1>4, RedParent
  <1>13. TreeTyped' /\ made' = made /\ red'[z]
    BY <1>1, <1>2, <1>4, <1>7, <1>10, <1>12 DEF TreeTyped
  <1>14. treeCall' = [pc |-> "insertFixup", z |-> z]
    BY <1>1 DEF Repairing
  <1> QED
    BY <1>8, <1>11, <1>13, <1>14, InsertNext

LEMMA InsertEndsKeeps ==
    ASSUME TreeFit, TreeInv, InsertEnds
    PROVE  TreeInv'
  <1>1. PICK sub, h, at, sd : Shape(made, root, child, parent, sub) /\ TreeStage(sub, h, at, sd)
    BY DEF TreeInv
  <1>2. PICK z : z = treeCall.z
    OBVIOUS
  <1>3. /\ treeCall.pc = "insertFixup" /\ ~ red[parent[z]] /\ treeCall' = NoCall
        /\ red' = [red EXCEPT ![root] = FALSE] /\ UNCHANGED <<root, child, parent, made>>
    BY <1>2 DEF InsertEnds
  <1>4. z \in made /\ Coloured(made, root, child, red, h, Nil, sd, {z}, {}) /\ TreeTyped
    BY <1>1, <1>2, <1>3, StageIs DEF TreeInv
  <1>5. red' \in [Cells -> BOOLEAN] /\ Painted(made, red, root, FALSE, red')
    <2>1. made \cup {Nil} \subseteq Cells
      BY <1>1, ShapeFacts DEF Cells
    <2>2. red \in [Cells -> BOOLEAN]
      BY <1>4 DEF TreeTyped
    <2> QED
      BY <2>1, <2>2, <1>3 DEF Painted
  <1>6. \E h1 : Coloured(made, root, child, red', h1, Nil, sd, {}, {})
    BY <1>1, <1>3, <1>4, <1>5, InsertColoursEnd
  <1>7. TreeTyped'
    BY <1>3, <1>4, <1>5 DEF TreeTyped
  <1> QED
    BY <1>1, <1>3, <1>6, <1>7, QuietNext

-----------------------------------------------------------------------------
(* The removals.                                                           *)

(* A node with one child is removed.                                       *)
LEMMA DetachKeeps ==
    ASSUME TreeFit, TreeInv, Detach
    PROVE  TreeInv'
  <1>1. PICK z \in made :
          LET x == IF child[z]["left"] = Nil THEN child[z]["right"] ELSE child[z]["left"]
              up == parent[z]
          IN  /\ Reached(z) /\ Nil \in {child[z]["left"], child[z]["right"]}
              /\ root' = IF up = Nil THEN x ELSE root
              /\ child' = [child EXCEPT ![up][SideOf(z)] = IF up = Nil THEN @ ELSE x,
                                        ![z]["left"] = Nil, ![z]["right"] = Nil]
              /\ parent' = [parent EXCEPT ![x] = up, ![z] = Nil]
              /\ red' = [red EXCEPT ![z] = FALSE]
              /\ made' = made \ {z}
              /\ RepairedFrom(x, red[z])
    BY DEF Detach
  <1>2. PICK sub, h, sd : Shape(made, root, child, parent, sub) /\ Quiet(h, sd) /\ TreeTyped
    BY <1>1, ReachedStage
  <1>3. PICK up : up = parent[z]
    OBVIOUS
  <1>4. PICK t \in Sides : child[z][t] = Nil /\ (t = "right" => child[z]["left"] # Nil)
    <2>1. "left" \in Sides /\ "right" \in Sides
      BY DEF Sides
    <2>2. child[z]["left"] = Nil \/ child[z]["right"] = Nil
      BY <1>1
    <2> QED
      BY <2>1, <2>2
  <1>5. PICK x : x = child[z][Other(t)]
    OBVIOUS
  <1>6. x = IF child[z]["left"] = Nil THEN child[z]["right"] ELSE child[z]["left"]
    BY <1>4, <1>5 DEF Sides, Other
  <1>16. red' = [red EXCEPT ![z] = FALSE]
    BY <1>1
  <1>17. Detaching(z, x, up, root', child', parent')
    BY <1>1, <1>3, <1>6 DEF Detaching
  <1>7. made' = made \ {z} /\ RepairedFrom(x, red[z])
    BY <1>1, <1>3, <1>6
  <1>18. Cut(made, z, x, t, root, child, parent, root', child', parent') /\ LinksOf(child')
    BY <1>2, <1>3, <1>4, <1>5, <1>17, DetachCuts
  <1>19. parent' \in [Cells -> Cells]
    BY <1>2, <1>3, <1>4, <1>5, <1>17, DetachCuts
  <1>20. parent'[x] = up
    <2>1. x \in made \cup {Nil} /\ x # z /\ made \cup {Nil} \subseteq Cells
      <3>1. Other(t) \in Sides
        BY TwoSides
      <3> QED
        BY <3>1, <1>2, <1>5, OneParent, ShapeFacts DEF Cells
    <2>2. parent \in [Cells -> Cells]
      BY <1>2 DEF TreeTyped
    <2> QED
      BY <2>1, <2>2, <1>17 DEF Detaching
  <1>8. /\ Cut(made, z, x, t, root, child, parent, root', child', parent')
        /\ LinksOf(child') /\ parent' \in [Cells -> Cells] /\ parent'[x] = up
    BY <1>18, <1>19, <1>20
  <1>9. Shape(made', root', child', parent', CutSub(made, z, sub))
    BY <1>2, <1>7, <1>8, CutShape
  <1>10. red' \in [Cells -> BOOLEAN] /\ Kept(made \ {z}, red, red')
    <2>1. made \cup {Nil} \subseteq Cells /\ Nil # z
      BY <1>2, ShapeFacts DEF Cells
    <2>2. red \in [Cells -> BOOLEAN]
      BY <1>2 DEF TreeTyped
    <2> QED
      BY <2>1, <2>2, <1>16 DEF Kept
  <1>11. TreeTyped'
    <2>1. IsFiniteSet(made')
      BY <1>2, <1>7, FS_RemoveElement DEF TreeTyped
    <2> QED
      BY <2>1, <1>8, <1>10 DEF TreeTyped
  <1>12. Coloured(made, root, child, red, h, Nil, sd, {}, {})
    BY <1>2 DEF Quiet
  <1>13. /\ red[z] => Coloured(made \ {z}, root', child', red', h, Nil, sd, {}, {})
         /\ ~ red[z] => \E s : /\ Coloured(made \ {z}, root', child', red', h, parent[z], s, {x}, {x})
                               /\ PlaceOf(made \ {z}, root', child', x, parent[z], s)
    BY <1>2, <1>8, <1>10, <1>12, CutColours
  <1>14. CASE red[z]
    <2>1. treeCall' = NoCall
      BY <1>7, <1>14 DEF RepairedFrom
    <2> QED
      BY <2>1, <1>7, <1>9, <1>11, <1>13, <1>14, QuietNext
  <1>15. CASE ~ red[z]
    <2>1. treeCall' = [pc |-> "deleteFixup", x |-> x]
      BY <1>7, <1>15 DEF RepairedFrom
    <2>2. PICK s : /\ Coloured(made \ {z}, root', child', red', h, parent[z], s, {x}, {x})
                   /\ PlaceOf(made \ {z}, root', child', x, parent[z], s)
      BY <1>13, <1>15
    <2>3. parent'[x] = parent[z]
      BY <1>3, <1>8
    <2> QED
      BY <2>1, <2>2, <2>3, <1>7, <1>9, <1>11, DeleteNext
  <1> QED
    BY <1>14, <1>15

(* A node with two is: its successor is cut out and takes its place.       *)
LEMMA MoveSuccessorKeeps ==
    ASSUME TreeFit, TreeInv, MoveSuccessor
    PROVE  TreeInv' /\ \E z \in made : made' = made \ {z}
  <1>1. PICK z \in made, y \in made :
          LET x == child[y]["right"]
              p == parent[y]
              up == parent[z]
              direct == p = z
          IN  /\ treeCall = [pc |-> "minimum", z |-> z, y |-> y] /\ Smallest(y)
              /\ root' = IF up = Nil THEN y ELSE root
              /\ child' = [child EXCEPT ![p][SideOf(y)] = x,
                                        ![y]["right"] = IF direct THEN x ELSE child[z]["right"],
                                        ![up][SideOf(z)] = IF up = Nil THEN @ ELSE y,
                                        ![y]["left"] = child[z]["left"],
                                        ![z]["left"] = Nil, ![z]["right"] = Nil]
              /\ parent' = [parent EXCEPT ![x] = IF direct THEN y ELSE p,
                                          ![child[z]["right"]] = y,
                                          ![child[z]["left"]] = y,
                                          ![y] = up, ![z] = Nil]
              /\ red' = [red EXCEPT ![y] = red[z], ![z] = FALSE]
              /\ made' = made \ {z}
              /\ RepairedFrom(x, red[y])
    BY DEF MoveSuccessor
  <1>2. PICK sub, h, at0, sd : Shape(made, root, child, parent, sub) /\ TreeStage(sub, h, at0, sd)
    BY DEF TreeInv
  <1>25. red' = [red EXCEPT ![y] = red[z], ![z] = FALSE]
    BY <1>1
  <1>3. /\ treeCall = [pc |-> "minimum", z |-> z, y |-> y] /\ child[y]["left"] = Nil
        /\ made' = made \ {z}
    BY <1>1 DEF Smallest
  <1>4. Quiet(h, sd) /\ FindsLeast(sub, z, y) /\ TreeTyped
    <2>1. treeCall.pc = "minimum" /\ treeCall.z = z /\ treeCall.y = y
      BY <1>3
    <2> QED
      BY <2>1, <1>2, StageIs DEF TreeInv
  <1>5. PICK x, p, up, so, st, lt, rt :
            /\ x = child[y]["right"] /\ p = parent[y] /\ up = parent[z]
            /\ so = SideOf(y) /\ st = SideOf(z) /\ lt = child[z]["left"]
            /\ rt = IF p = z THEN x ELSE child[z]["right"]
    OBVIOUS
  <1>6. MovesUp(z, y, x, p, up, so, st, rt, lt, root', child', parent') /\ RepairedFrom(x, red[y])
    BY <1>1, <1>5 DEF MovesUp
  <1>7. /\ y \in sub[child[z]["right"]] /\ child[z]["left"] # Nil /\ child[z]["right"] # Nil
        /\ \A u \in sub[child[z]["right"]] : u \in sub[y] \/ \A v \in sub[y] : KeyOf(v) <= KeyOf(u)
    BY <1>4 DEF FindsLeast
  <1>8. /\ y # z /\ p # y /\ x \in made \cup {Nil} /\ x # z /\ x # y
        /\ sub[y] = {y} \cup sub[x]
    BY <1>2, <1>3, <1>5, <1>7, SuccessorFacts
  <1>9. \A u \in sub[child[z]["right"]] : KeyOf(y) <= KeyOf(u)
    <2> SUFFICES ASSUME NEW u \in sub[child[z]["right"]] PROVE KeyOf(y) <= KeyOf(u)
      OBVIOUS
    <2>1. CASE u \notin sub[y]
      BY <2>1, <1>7, <1>8
    <2>2. CASE u \in sub[x]
      <3>1. "right" \in Sides
        BY DEF Sides
      <3>2. OnSide("right", u, y)
        BY <3>1, <2>2, <1>2, <1>5, ShapeFacts DEF Family
      <3> QED
        BY <3>2 DEF OnSide
    <2>3. CASE u = y
      <3>1. KeyOf(y) \in Int
        BY <1>2, ShapeFacts, NodesApart
      <3> QED
        BY <2>3, <3>1
    <2> QED
      BY <2>1, <2>2, <2>3, <1>8
  <1>26. \E k1, j1 : /\ Cut(made, y, x, "left", root, child, parent, root, k1, j1)
                     /\ TakesPlace(made \ {y}, z, y, root, k1, j1, root', child', parent')
                     /\ Settled(x, IF p = z THEN y ELSE p, child', parent')
    BY <1>2, <1>3, <1>4, <1>5, <1>6, <1>7, SuccessorMoves
  <1>27. LinksOf(child') /\ parent' \in [Cells -> Cells] /\ parent'[x] = IF p = z THEN y ELSE p
    BY <1>26 DEF Settled
  <1>11. PICK k1, j1 : /\ Cut(made, y, x, "left", root, child, parent, root, k1, j1)
                       /\ TakesPlace(made \ {y}, z, y, root, k1, j1, root', child', parent')
    BY <1>26
  <1>12. PICK H : H = made \ {y}
    OBVIOUS
  <1>13. PICK sub1 : sub1 = CutSub(made, y, sub)
    OBVIOUS
  <1>14. Shape(H, root, k1, j1, sub1)
    BY <1>2, <1>11, <1>12, <1>13, CutShape
  <1>15. Fits(H, z, y, k1, sub1)
    BY <1>2, <1>7, <1>9, <1>11, <1>12, <1>13, MoveFits
  <1>16. TakesPlace(H, z, y, root, k1, j1, root', child', parent')
    BY <1>11, <1>12
  <1>17. (H \ {z}) \cup {y} = made'
    BY <1>3, <1>8, <1>12
  <1>18. Shape(made', root', child', parent', ReplacedSub(H, z, y, sub1))
    BY <1>14, <1>15, <1>16, <1>17, ReplaceShape
  <1>19. red' \in [Cells -> BOOLEAN] /\ red'[y] = red[z] /\ Kept(H \ {z}, red, red')
    <2>1. made \cup {Nil} \subseteq Cells /\ Nil # z /\ Nil # y
      BY <1>2, ShapeFacts DEF Cells
    <2>2. red \in [Cells -> BOOLEAN]
      BY <1>4 DEF TreeTyped
    <2> QED
      BY <2>1, <2>2, <1>8, <1>12, <1>25 DEF Kept
  <1>20. TreeTyped'
    <2>1. IsFiniteSet(made')
      BY <1>3, <1>4, FS_RemoveElement DEF TreeTyped
    <2> QED
      BY <2>1, <1>19, <1>27 DEF TreeTyped
  <1>21. Coloured(made, root, child, red, h, Nil, sd, {}, {})
    BY <1>4 DEF Quiet
  <1>22. /\ red[y] => Coloured(made \ {y}, root, k1, red, h, Nil, sd, {}, {})
         /\ ~ red[y] => \E s : /\ Coloured(made \ {y}, root, k1, red, h, parent[y], s, {x}, {x})
                               /\ PlaceOf(made \ {y}, root, k1, x, parent[y], s)
    <2>1. Kept(made \ {y}, red, red)
      BY DEF Kept
    <2> QED
      BY <2>1, <1>2, <1>11, <1>21, CutColours
  <1>23. CASE red[y]
    <2>1. treeCall' = NoCall
      BY <1>6, <1>23 DEF RepairedFrom
    <2>2. y # Nil /\ z # Nil
      BY <1>2, ShapeFacts
    <2>3. PICK at, lo : at = Nil /\ lo = {}
      OBVIOUS
    <2>4. Coloured(H, root, k1, red, h, at, sd, lo, lo) /\ z \notin lo \cup lo /\ y # at
      BY <2>2, <2>3, <1>12, <1>22, <1>23
    <2>5. /\ \E h1 : Coloured((H \ {z}) \cup {y}, root', child', red', h1, IF at = z THEN y ELSE at, sd, lo, lo)
          /\ \A u \in (H \ {z}) \cup {Nil} : PlaceOf(H, root, k1, u, at, sd) =>
                  PlaceOf((H \ {z}) \cup {y}, root', child', u, IF at = z THEN y ELSE at, sd)
      BY <2>4, <1>14, <1>16, <1>19, ReplaceColours
    <2>6. \E h1 : Coloured(made', root', child', red', h1, Nil, sd, {}, {})
      BY <2>2, <2>3, <2>5, <1>17
    <2> QED
      BY <2>1, <2>6, <1>3, <1>18, <1>20, QuietNext
  <1>24. CASE ~ red[y]
    <2>1. treeCall' = [pc |-> "deleteFixup", x |-> x]
      BY <1>6, <1>24 DEF RepairedFrom
    <2>2. PICK s : Coloured(H, root, k1, red, h, p, s, {x}, {x}) /\ PlaceOf(H, root, k1, x, p, s)
      BY <1>5, <1>12, <1>22, <1>24
    <2>3. PICK at : at = IF p = z THEN y ELSE p
      OBVIOUS
    <2>4. y # p /\ z \notin {x} \cup {x} /\ x \in (H \ {z}) \cup {Nil}
      BY <1>8, <1>12
    <2>5. /\ \E h1 : Coloured((H \ {z}) \cup {y}, root', child', red', h1, IF p = z THEN y ELSE p, s, {x}, {x})
          /\ \A u \in (H \ {z}) \cup {Nil} : PlaceOf(H, root, k1, u, p, s) =>
                  PlaceOf((H \ {z}) \cup {y}, root', child', u, IF p = z THEN y ELSE p, s)
      BY <2>2, <2>4, <1>14, <1>16, <1>19, ReplaceColours
    <2>6. /\ \E h1 : Coloured(made', root', child', red', h1, at, s, {x}, {x})
          /\ PlaceOf(made', root', child', x, at, s)
      BY <2>2, <2>3, <2>4, <2>5, <1>17
    <2>7. parent'[x] = at
      BY <2>3, <1>27
    <2> QED
      BY <2>1, <2>6, <2>7, <1>3, <1>18, <1>20, DeleteNext
  <1> QED
    BY <1>3, <1>23, <1>24

-----------------------------------------------------------------------------
(* The cases of deleteFixup.                                               *)

(* The parent field of a node at the place.                                *)
LEMMA PlaceParent ==
    ASSUME TreeFit, NEW H, NEW r, NEW c, NEW p, NEW sub, Shape(H, r, c, p, sub),
           NEW x, NEW at, NEW sd, PlaceOf(H, r, c, x, at, sd), x # Nil, x # r
    PROVE  p[x] = at
  <1>1. at \in H /\ sd \in Sides /\ c[at][sd] = x
    BY DEF PlaceOf
  <1> QED
    BY <1>1, ShapeFacts

(* The nodes that the cases of deleteFixup are about.                      *)
Lack(x, at, sd, w) ==
    /\ parent[x] = at /\ SideOf(x) = sd /\ w = child[at][Other(sd)] /\ child[at][sd] = x
    /\ at \in made /\ w \in made /\ w # x /\ w # at /\ sd \in Sides /\ Other(sd) \in Sides
    /\ x # root /\ ~ red[x] /\ x \in made \cup {Nil}
    /\ treeCall = [pc |-> "deleteFixup", x |-> x]

(* Who they are, while deleteFixup runs.                                   *)
LEMMA DeleteStage ==
    ASSUME TreeFit, TreeInv, NEW x, Lacking(x)
    PROVE  \E sub, h, at, sd, w :
               /\ TreeTyped /\ Shape(made, root, child, parent, sub)
               /\ Coloured(made, root, child, red, h, at, sd, {x}, {x})
               /\ PlaceOf(made, root, child, x, at, sd) /\ x # root /\ ~ red[x]
               /\ Lack(x, at, sd, w)
  <1>1. PICK sub, h, at, sd : Shape(made, root, child, parent, sub) /\ TreeStage(sub, h, at, sd)
    BY DEF TreeInv
  <1>2. treeCall = [pc |-> "deleteFixup", x |-> x] /\ x # root /\ ~ red[x]
    BY DEF Lacking
  <1>3. /\ Coloured(made, root, child, red, h, at, sd, {x}, {x})
        /\ PlaceOf(made, root, child, x, at, sd) /\ parent[x] = at
    <2>1. treeCall.pc = "deleteFixup" /\ treeCall.x = x
      BY <1>2
    <2> QED
      BY <2>1, <1>1, <1>2, StageIs
  <1>4. PICK w \in made : w = child[at][Other(sd)] /\ w # x /\ w # at
    BY <1>1, <1>2, <1>3, DeletePlace
  <1>5. at \in made /\ sd \in Sides /\ child[at][sd] = x /\ Other(sd) \in Sides /\ x \in made \cup {Nil}
    BY <1>2, <1>3, TwoSides DEF PlaceOf
  <1>6. SideOf(x) = sd
    BY <1>3, <1>4, <1>5 DEF SideOf, Sides, Other
  <1>7. Lack(x, at, sd, w)
    BY <1>2, <1>3, <1>4, <1>5, <1>6 DEF Lack
  <1> QED
    BY <1>1, <1>2, <1>3, <1>7 DEF TreeInv

(* One node is painted.                                                    *)
LEMMA Painting ==
    ASSUME TreeFit, TreeTyped, NEW sub, Shape(made, root, child, parent, sub)
    PROVE  red \in [Cells -> BOOLEAN] /\ made \cup {Nil} \subseteq Cells /\ Nil \notin made
  BY ShapeFacts DEF TreeTyped, Cells

(* A rotation leaves the place of x known to x.                            *)
LEMMA StillKnown ==
    ASSUME TreeFit, NEW x, NEW at, NEW sd, PlaceOf(made, root', child', x, at, sd),
           NEW sub, Shape(made, root', child', parent', sub),
           parent[x] = at, parent'[Nil] = parent[Nil], x # root'
    PROVE  parent'[x] = at
  <1>1. CASE x = Nil
    BY <1>1
  <1>2. CASE x # Nil
    BY <1>2, PlaceParent
  <1> QED
    BY <1>1, <1>2

(* One lemma per action.                                                   *)
LEMMA DeleteCase1Keeps ==
    ASSUME TreeFit, TreeInv, DeleteCase1
    PROVE  TreeInv'
  <1>1. PICK x \in Cells : /\ Lacking(x) /\ red[Sibling(x)]
                           /\ red' = [red EXCEPT ![Sibling(x)] = FALSE, ![parent[x]] = TRUE]
                           /\ Rotate(parent[x], SideOf(x))
                           /\ UNCHANGED <<made, treeCall>>
    BY DEF DeleteCase1
  <1>2. PICK sub, h, at, sd, w :
               /\ TreeTyped /\ Shape(made, root, child, parent, sub)
               /\ Coloured(made, root, child, red, h, at, sd, {x}, {x})
               /\ PlaceOf(made, root, child, x, at, sd) /\ x # root /\ ~ red[x]
               /\ Lack(x, at, sd, w)
    BY <1>1, DeleteStage
  <1>3. /\ parent[x] = at /\ SideOf(x) = sd /\ w = child[at][Other(sd)] /\ Sibling(x) = w
        /\ at \in made /\ w \in made /\ w # at /\ sd \in Sides /\ red[w]
        /\ treeCall = [pc |-> "deleteFixup", x |-> x]
    BY <1>1, <1>2 DEF Lack, Sibling, Far
  <1>4. Rotated(at, sd, root', child', parent')
    BY <1>1, <1>3 DEF Rotate, Rotated
  <1>5. red' = [red EXCEPT ![w] = FALSE, ![at] = TRUE]
    BY <1>1, <1>3
  <1>6. PICK b : b = child[w][sd]
    OBVIOUS
  <1>7. w # Nil
    BY <1>2, <1>3, ShapeFacts
  <1>8. /\ Turned(made, at, w, b, sd, root, child, parent, root', child', parent')
        /\ LinksOf(child') /\ parent' \in [Cells -> Cells] /\ parent'[Nil] = parent[Nil]
    BY <1>2, <1>3, <1>4, <1>6, <1>7, RotateTurns
  <1>9. Shape(made, root', child', parent', TurnedSub(made, at, w, sd, child, sub))
    BY <1>2, <1>8, TurnShape
  <1>10. red' \in [Cells -> BOOLEAN] /\ Repainted(made, red, w, w, at, TRUE, red')
    <2>1. red \in [Cells -> BOOLEAN] /\ made \cup {Nil} \subseteq Cells
      BY <1>2, Painting
    <2> QED
      BY <2>1, <1>3, <1>5 DEF Repainted
  <1>11. /\ \E h1 : Coloured(made, root', child', red', h1, at, sd, {x}, {x})
         /\ PlaceOf(made, root', child', x, at, sd)
    BY <1>2, <1>3, <1>8, <1>10, DeleteColours1
  <1>12. x # root' => parent'[x] = at
    BY <1>3, <1>8, <1>9, <1>11, StillKnown
  <1>13. TreeTyped' /\ made' = made /\ treeCall' = [pc |-> "deleteFixup", x |-> x]
    BY <1>1, <1>2, <1>3, <1>8, <1>10 DEF TreeTyped
  <1> QED
    BY <1>9, <1>11, <1>12, <1>13, DeleteNext

LEMMA DeleteCase2Keeps ==
    ASSUME TreeFit, TreeInv, DeleteCase2
    PROVE  TreeInv'
  <1>1. PICK x \in Cells : /\ Lacking(x) /\ ~ red[Sibling(x)]
                           /\ ~ red[InnerNephew(x)] /\ ~ red[OuterNephew(x)]
                           /\ red' = [red EXCEPT ![Sibling(x)] = TRUE]
                           /\ treeCall' = [pc |-> "deleteFixup", x |-> parent[x]]
                           /\ UNCHANGED <<root, child, parent, made>>
    BY DEF DeleteCase2
  <1>2. PICK sub, h, at, sd, w :
               /\ TreeTyped /\ Shape(made, root, child, parent, sub)
               /\ Coloured(made, root, child, red, h, at, sd, {x}, {x})
               /\ PlaceOf(made, root, child, x, at, sd) /\ x # root /\ ~ red[x]
               /\ Lack(x, at, sd, w)
    BY <1>1, DeleteStage
  <1>3. /\ parent[x] = at /\ SideOf(x) = sd /\ w = child[at][Other(sd)] /\ Sibling(x) = w
        /\ at \in made /\ w \in made /\ sd \in Sides /\ ~ red[w]
        /\ ~ red[child[w][sd]] /\ ~ red[child[w][Other(sd)]]
    BY <1>1, <1>2 DEF Lack, Sibling, Far, InnerNephew, OuterNephew
  <1>4. \A q \in Sides : ~ red[child[w][q]]
    BY <1>3, TwoSides
  <1>5. red' = [red EXCEPT ![w] = TRUE]
    BY <1>1, <1>3
  <1>6. red' \in [Cells -> BOOLEAN] /\ Painted(made, red, w, TRUE, red')
    <2>1. red \in [Cells -> BOOLEAN] /\ made \cup {Nil} \subseteq Cells
      BY <1>2, Painting
    <2> QED
      BY <2>1, <1>3, <1>5 DEF Painted
  <1>7. \E h1, up, s : /\ Coloured(made, root, child, red', h1, up, s, {at}, {at})
                       /\ PlaceOf(made, root, child, at, up, s)
    BY <1>2, <1>3, <1>4, <1>6, DeleteColours2
  <1>8. PICK h1, up, s : /\ Coloured(made, root, child, red', h1, up, s, {at}, {at})
                         /\ PlaceOf(made, root, child, at, up, s)
    BY <1>7
  <1>9. at # root => parent[at] = up
    <2>1. at # Nil
      BY <1>2, <1>3, ShapeFacts
    <2> QED
      BY <2>1, <1>2, <1>8, PlaceParent
  <1>10. TreeTyped' /\ made' = made /\ root' = root /\ child' = child /\ parent' = parent
    BY <1>1, <1>2, <1>6 DEF TreeTyped
  <1>11. treeCall' = [pc |-> "deleteFixup", x |-> at]
    BY <1>1, <1>3
  <1> QED
    BY <1>2, <1>8, <1>9, <1>10, <1>11, DeleteNext

LEMMA DeleteCase3Keeps ==
    ASSUME TreeFit, TreeInv, DeleteCase3
    PROVE  TreeInv'
  <1>1. PICK x \in Cells : /\ Lacking(x) /\ ~ red[Sibling(x)]
                           /\ red[InnerNephew(x)] /\ ~ red[OuterNephew(x)]
                           /\ red' = [red EXCEPT ![InnerNephew(x)] = FALSE, ![Sibling(x)] = TRUE]
                           /\ Rotate(Sibling(x), Far(x))
                           /\ UNCHANGED <<made, treeCall>>
    BY DEF DeleteCase3
  <1>2. PICK sub, h, at, sd, w :
               /\ TreeTyped /\ Shape(made, root, child, parent, sub)
               /\ Coloured(made, root, child, red, h, at, sd, {x}, {x})
               /\ PlaceOf(made, root, child, x, at, sd) /\ x # root /\ ~ red[x]
               /\ Lack(x, at, sd, w)
    BY <1>1, DeleteStage
  <1>3. PICK s, v : s = Other(sd) /\ v = child[w][sd]
    OBVIOUS
  <1>4. /\ parent[x] = at /\ SideOf(x) = sd /\ w = child[at][Other(sd)] /\ Sibling(x) = w
        /\ Far(x) = s /\ InnerNephew(x) = v /\ OuterNephew(x) = child[w][s]
        /\ w \in made /\ sd \in Sides /\ s \in Sides /\ Other(s) = sd
        /\ ~ red[w] /\ red[v] /\ ~ red[child[w][s]]
        /\ treeCall = [pc |-> "deleteFixup", x |-> x]
    BY <1>1, <1>2, <1>3, TwoSides DEF Lack, Sibling, Far, InnerNephew, OuterNephew
  <1>5. Rotated(w, s, root', child', parent')
    BY <1>1, <1>4 DEF Rotate, Rotated
  <1>6. red' = [red EXCEPT ![v] = FALSE, ![w] = TRUE]
    BY <1>1, <1>4
  <1>7. v # Nil /\ v \in made
    <2>1. ~ red[Nil]
      BY <1>2 DEF Coloured
    <2>2. v \in made \cup {Nil}
      BY <1>2, <1>3, <1>4, ShapeFacts
    <2> QED
      BY <2>1, <2>2, <1>4
  <1>8. PICK b : b = child[v][s]
    OBVIOUS
  <1>14. v = child[w][Other(s)]
    BY <1>3, <1>4
  <1>9. /\ Turned(made, w, v, b, s, root, child, parent, root', child', parent')
        /\ LinksOf(child') /\ parent' \in [Cells -> Cells] /\ parent'[Nil] = parent[Nil]
    BY <1>2, <1>4, <1>5, <1>7, <1>8, <1>14, RotateTurns
  <1>10. Shape(made, root', child', parent', TurnedSub(made, w, v, s, child, sub))
    BY <1>2, <1>9, TurnShape
  <1>11. red' \in [Cells -> BOOLEAN] /\ Repainted(made, red, v, v, w, TRUE, red')
    <2>1. red \in [Cells -> BOOLEAN] /\ made \cup {Nil} \subseteq Cells
      BY <1>2, Painting
    <2>2. v # w
      BY <1>4
    <2> QED
      BY <2>1, <2>2, <1>4, <1>6, <1>7 DEF Repainted
  <1>12. /\ \E h1 : Coloured(made, root', child', red', h1, at, sd, {x}, {x})
         /\ PlaceOf(made, root', child', x, at, sd)
    BY <1>2, <1>3, <1>4, <1>9, <1>11, DeleteColours3
  <1>13. x # root' => parent'[x] = at
    BY <1>4, <1>9, <1>10, <1>12, StillKnown
  <1>15. TreeTyped' /\ made' = made /\ treeCall' = [pc |-> "deleteFixup", x |-> x]
    BY <1>1, <1>2, <1>4, <1>9, <1>11 DEF TreeTyped
  <1> QED
    BY <1>10, <1>12, <1>13, <1>15, DeleteNext

LEMMA DeleteCase4Keeps ==
    ASSUME TreeFit, TreeInv, DeleteCase4
    PROVE  TreeInv'
  <1>1. PICK x \in Cells : /\ Lacking(x) /\ ~ red[Sibling(x)] /\ red[OuterNephew(x)]
                           /\ red' = [red EXCEPT ![Sibling(x)] = red[parent[x]], ![parent[x]] = FALSE,
                                                 ![OuterNephew(x)] = FALSE]
                           /\ Rotate(parent[x], SideOf(x))
                           /\ treeCall' = [pc |-> "deleteFixup", x |-> root']
                           /\ UNCHANGED made
    BY DEF DeleteCase4
  <1>2. PICK sub, h, at, sd, w :
               /\ TreeTyped /\ Shape(made, root, child, parent, sub)
               /\ Coloured(made, root, child, red, h, at, sd, {x}, {x})
               /\ PlaceOf(made, root, child, x, at, sd) /\ x # root /\ ~ red[x]
               /\ Lack(x, at, sd, w)
    BY <1>1, DeleteStage
  <1>3. PICK e, b : e = child[w][Other(sd)] /\ b = child[w][sd]
    OBVIOUS
  <1>4. /\ parent[x] = at /\ SideOf(x) = sd /\ w = child[at][Other(sd)] /\ Sibling(x) = w
        /\ OuterNephew(x) = e
        /\ at \in made /\ w \in made /\ w # at /\ sd \in Sides /\ ~ red[w] /\ red[e]
    BY <1>1, <1>2, <1>3 DEF Lack, Sibling, Far, OuterNephew
  <1>5. Rotated(at, sd, root', child', parent')
    BY <1>1, <1>4 DEF Rotate, Rotated
  <1>6. red' = [red EXCEPT ![w] = red[at], ![at] = FALSE, ![e] = FALSE]
    BY <1>1, <1>4
  <1>7. w # Nil
    BY <1>2, <1>4, ShapeFacts
  <1>8. /\ Turned(made, at, w, b, sd, root, child, parent, root', child', parent')
        /\ LinksOf(child') /\ parent' \in [Cells -> Cells]
    BY <1>2, <1>3, <1>4, <1>5, <1>7, RotateTurns
  <1>9. Shape(made, root', child', parent', TurnedSub(made, at, w, sd, child, sub))
    BY <1>2, <1>8, TurnShape
  <1>10. red' \in [Cells -> BOOLEAN] /\ Repainted(made, red, at, e, w, red[at], red')
    <2>1. red \in [Cells -> BOOLEAN] /\ made \cup {Nil} \subseteq Cells
      BY <1>2, Painting
    <2> QED
      BY <2>1, <1>4, <1>6 DEF Repainted
  <1>11. \E h1 : Coloured(made, root', child', red', h1, Nil, sd, {root'}, {root'})
    BY <1>2, <1>3, <1>4, <1>8, <1>10, DeleteColours4
  <1>12. PlaceOf(made, root', child', root', Nil, sd)
    <2>1. root' \in made \cup {Nil}
      BY <1>9, ShapeFacts
    <2> QED
      BY <2>1, <1>4 DEF PlaceOf
  <1>13. TreeTyped' /\ made' = made /\ treeCall' = [pc |-> "deleteFixup", x |-> root']
    BY <1>1, <1>2, <1>8, <1>10 DEF TreeTyped
  <1> QED
    BY <1>9, <1>11, <1>12, <1>13, DeleteNext

LEMMA DeleteEndsKeeps ==
    ASSUME TreeFit, TreeInv, DeleteEnds
    PROVE  TreeInv'
  <1>1. PICK sub, h, at, sd : Shape(made, root, child, parent, sub) /\ TreeStage(sub, h, at, sd)
    BY DEF TreeInv
  <1>2. PICK x : x = treeCall.x
    OBVIOUS
  <1>3. /\ treeCall.pc = "deleteFixup" /\ (x = root \/ red[x]) /\ treeCall' = NoCall
        /\ UNCHANGED <<root, child, parent, made>>
    BY <1>2 DEF DeleteEnds
  <1>4. red' = [red EXCEPT ![x] = FALSE]
    BY <1>2 DEF DeleteEnds
  <1>5. /\ Coloured(made, root, child, red, h, at, sd, {x}, {x})
        /\ PlaceOf(made, root, child, x, at, sd) /\ TreeTyped
    BY <1>1, <1>2, <1>3, StageIs DEF TreeInv
  <1>6. red' \in [Cells -> BOOLEAN] /\ Painted(made, red, x, FALSE, red')
    <2>1. red \in [Cells -> BOOLEAN] /\ made \cup {Nil} \subseteq Cells
      BY <1>1, <1>5, Painting
    <2>2. x \in made \cup {Nil}
      BY <1>5 DEF PlaceOf
    <2> QED
      BY <2>1, <2>2, <1>4 DEF Painted
  <1>7. \E h1 : Coloured(made, root, child, red', h1, Nil, sd, {}, {})
    BY <1>1, <1>3, <1>5, <1>6, DeleteColoursEnd
  <1>8. TreeTyped'
    BY <1>3, <1>5, <1>6 DEF TreeTyped
  <1> QED
    BY <1>1, <1>3, <1>7, <1>8, QuietNext

-----------------------------------------------------------------------------
(* Every step keeps the invariant; and what the recursive functions of the *)
(* properties say of a tree of this shape.                                 *)

(* An empty tree.                                                          *)
LEMMA TreeStarts ==
    ASSUME TreeFit, TreeInit
    PROVE  TreeInv
  <1>1. /\ root = Nil /\ made = {} /\ treeCall = NoCall
        /\ parent = [x \in Cells |-> Nil] /\ red = [x \in Cells |-> FALSE]
    BY DEF TreeInit
  <1>2. Nil \in Cells
    BY DEF Cells
  <1>3. LinksOf(child)
    <2>1. child = [x \in Cells |-> [side \in Sides |-> Nil]]
      BY DEF TreeInit
    <2>2. [side \in Sides |-> Nil] \in [Sides -> Cells]
      BY <1>2
    <2> QED
      BY <2>1, <2>2 DEF LinksOf
  <1>4. TreeTyped
    BY <1>1, <1>2, <1>3, FS_EmptySet DEF TreeTyped
  <1>5. PICK sub, h : sub = [n \in made \cup {Nil} |-> {}] /\ h = [n \in made \cup {Nil} |-> 1]
    OBVIOUS
  <1>6. Shape(made, root, child, parent, sub)
    BY <1>1, <1>5 DEF Shape
  <1>7. ~ red[Nil] /\ h[Nil] = 1
    BY <1>1, <1>2, <1>5
  <1>8. Quiet(h, Nil)
    BY <1>1, <1>7 DEF Quiet, Coloured
  <1>9. TreeStage(sub, h, Nil, Nil)
    BY <1>1, <1>8 DEF TreeStage
  <1> QED
    BY <1>4, <1>6, <1>9 DEF TreeInv

(* Every action.                                                           *)
LEMMA TreeMoves ==
    ASSUME TreeFit, TreeInv, TreeNext
    PROVE  TreeInv'
  <1>1. ASSUME NEW key \in TreeKeys, insert(key) \/ search(key) PROVE TreeInv'
    BY <1>1, InsertBegins, SearchBegins
  <1>2. CASE \/ Descend \/ Attach \/ InsertCase1 \/ InsertCase2 \/ InsertCase3 \/ InsertEnds
    BY <1>2, DescendKeeps, AttachKeeps, InsertCase1Keeps, InsertCase2Keeps, InsertCase3Keeps,
       InsertEndsKeeps
  <1>3. CASE \/ Find \/ SearchEnds \/ Detach \/ BeginMinimum \/ Minimum \/ MoveSuccessor
    BY <1>3, FindKeeps, SearchEndsKeeps, DetachKeeps, BeginMinimumKeeps, MinimumKeeps,
       MoveSuccessorKeeps
  <1>4. CASE \/ DeleteCase1 \/ DeleteCase2 \/ DeleteCase3 \/ DeleteCase4 \/ DeleteEnds
    BY <1>4, DeleteCase1Keeps, DeleteCase2Keeps, DeleteCase3Keeps, DeleteCase4Keeps,
       DeleteEndsKeeps
  <1> QED
    BY <1>1, <1>2, <1>3, <1>4 DEF TreeNext

(* Or none.                                                                *)
LEMMA TreeStands ==
    ASSUME TreeFit, TreeInv, UNCHANGED treeVars
    PROVE  TreeInv'
  <1>1. PICK sub, h, at, sd : Shape(made, root, child, parent, sub) /\ TreeStage(sub, h, at, sd)
    BY DEF TreeInv
  <1>2. UNCHANGED <<root, child, parent, red, made>> /\ treeCall' = treeCall /\ TreeTyped
    BY DEF treeVars, TreeInv
  <1>3. TreeStage(sub, h, at, sd)'
    <2>1. Quiet(h, sd)' <=> Quiet(h, sd)
      BY <1>2 DEF Quiet
    <2>2. \A key, x, y : WayDown(sub, key, x, y)' <=> WayDown(sub, key, x, y)
      BY <1>2 DEF WayDown
    <2>3. \A key, x : Finds(sub, key, x)' <=> Finds(sub, key, x)
      BY <1>2 DEF Finds
    <2>4. \A z, y : FindsLeast(sub, z, y)' <=> FindsLeast(sub, z, y)
      BY <1>2 DEF FindsLeast
    <2> QED
      BY <2>1, <2>2, <2>3, <2>4, <1>1, <1>2 DEF TreeStage
  <1> QED
    BY <1>1, <1>2, <1>3, LoopMoves

(* So the invariant is one.                                                *)
LEMMA TreeKeeps ==
    ASSUME TreeFit PROVE TreeSpec => []TreeInv
  <1>1. TreeInit => TreeInv
    BY TreeStarts
  <1>2. TreeInv /\ [TreeNext]_treeVars => TreeInv'
    BY TreeMoves, TreeStands
  <1> QED
    BY <1>1, <1>2, PTL DEF TreeSpec

-----------------------------------------------------------------------------
(* What fails for a node fails below it already: then it fails for none.   *)
LEMMA FromBelow ==
    ASSUME TreeFit, NEW H, NEW r, NEW c, NEW p, NEW sub, Shape(H, r, c, p, sub), IsFiniteSet(H),
           NEW Bad, Bad \subseteq H, \A n \in Bad : \E q \in Sides : c[n][q] \in Bad
    PROVE  Bad = {}
  <1> SUFFICES ASSUME Bad # {} PROVE FALSE
    OBVIOUS
  <1>1. PICK B : B = {sub[n] : n \in Bad}
    OBVIOUS
  <1>2. /\ \A n \in H \cup {Nil} : sub[n] \subseteq H
        /\ \A n \in H : n \in sub[n]
        /\ \A n \in H, q \in Sides : n \notin sub[c[n][q]]
    BY ShapeFacts
  <1>3. B \subseteq SUBSET H /\ B # {}
    BY <1>1, <1>2
  <1>4. PICK s \in B : \A t \in SUBSET s : t # s => t \notin B
    BY <1>3, SmallestSet
  <1>5. PICK n \in Bad : s = sub[n]
    BY <1>1
  <1>6. PICK q \in Sides : c[n][q] \in Bad
    OBVIOUS
  <1>7. sub[c[n][q]] \subseteq sub[n]
    BY DEF Shape, Family
  <1>8. sub[c[n][q]] # sub[n]
    BY <1>2
  <1>9. sub[c[n][q]] \in B
    BY <1>1, <1>6
  <1> QED
    BY <1>4, <1>5, <1>7, <1>8, <1>9

(* u does at every node what Under is defined to do.                       *)
Gathers(u) ==
    u = [x \in made \cup {Nil} |->
            IF x = Nil THEN {} ELSE {x} \cup u[child[x]["left"]] \cup u[child[x]["right"]]]

(* Under and sub are the same.                                             *)
LEMMA UnderIs ==
    ASSUME TreeFit, NEW sub, Shape(made, root, child, parent, sub), IsFiniteSet(made)
    PROVE  \A n \in made \cup {Nil} : Under[n] = sub[n]
  <1>1. "left" \in Sides /\ "right" \in Sides /\ Other("left") = "right"
        /\ \A q \in Sides : q = "left" \/ q = "right"
    BY DEF Sides, Other
  <1>2. /\ Nil \notin made /\ sub[Nil] = {}
        /\ \A n \in made : /\ child[n]["left"] \in made \cup {Nil}
                           /\ child[n]["right"] \in made \cup {Nil}
    BY <1>1, ShapeFacts
  <1>3. \A n \in made : sub[n] = {n} \cup sub[child[n]["left"]] \cup sub[child[n]["right"]]
    BY <1>1, ShapeFacts DEF Family
  <1>4. Gathers(sub)
    <2>1. sub = [n \in made \cup {Nil} |-> sub[n]]
      BY DEF Shape
    <2>2. sub = [x \in made \cup {Nil} |->
            IF x = Nil THEN {} ELSE {x} \cup sub[child[x]["left"]] \cup sub[child[x]["right"]]]
      BY <2>1, <1>2, <1>3
    <2> QED
      BY <2>2 DEF Gathers
  <1>5. Under = CHOOSE u : Gathers(u)
    BY DEF Under, Gathers
  <1>6. Gathers(Under)
    BY <1>4, <1>5
  <1>7. PICK u : u = Under
    OBVIOUS
  <1>8. /\ u[Nil] = {}
        /\ \A n \in made : u[n] = {n} \cup u[child[n]["left"]] \cup u[child[n]["right"]]
    <2>1. PICK w : w = u
      OBVIOUS
    <2>2. w = [x \in made \cup {Nil} |->
            IF x = Nil THEN {} ELSE {x} \cup u[child[x]["left"]] \cup u[child[x]["right"]]]
      BY <1>6, <1>7, <2>1 DEF Gathers
    <2>3. /\ w[Nil] = {}
          /\ \A n \in made : w[n] = {n} \cup u[child[n]["left"]] \cup u[child[n]["right"]]
      BY <2>2, <1>2
    <2> QED
      BY <2>1, <2>3
  <1>9. PICK Bad : Bad = {n \in made : u[n] # sub[n]}
    OBVIOUS
  <1>10. ASSUME NEW n \in Bad PROVE \E q \in Sides : child[n][q] \in Bad
    <2>1. n \in made /\ u[n] # sub[n]
      BY <1>9
    <2>2. u[child[n]["left"]] # sub[child[n]["left"]] \/ u[child[n]["right"]] # sub[child[n]["right"]]
      BY <2>1, <1>3, <1>8
    <2>3. \A m \in made \cup {Nil} : u[m] # sub[m] => m \in Bad
      BY <1>2, <1>8, <1>9
    <2> QED
      BY <2>1, <2>2, <2>3, <1>1, <1>2
  <1>11. Bad = {}
    <2>1. Bad \subseteq made
      BY <1>9
    <2> QED
      BY <2>1, <1>10, FromBelow
  <1> QED
    BY <1>2, <1>7, <1>8, <1>9, <1>11

(* b does what BlackHeight is defined to do.                               *)
Counts(b) ==
    b = [x \in made \cup {Nil} |->
            IF x = Nil THEN 1
            ELSE LET l == b[child[x]["left"]] IN
                 IF l = 0 \/ l # b[child[x]["right"]] THEN 0
                 ELSE l + IF red[x] THEN 0 ELSE 1]

(* Where nothing is missing, BlackHeight is h and never 0.                 *)
LEMMA HeightIs ==
    ASSUME TreeFit, NEW sub, Shape(made, root, child, parent, sub), IsFiniteSet(made),
           NEW h, NEW sd, Quiet(h, sd)
    PROVE  \A n \in made \cup {Nil} : BlackHeight[n] = h[n] /\ h[n] \in Nat \ {0}
  <1>1. "left" \in Sides /\ "right" \in Sides
    BY DEF Sides
  <1>2. /\ Nil \notin made /\ h[Nil] = 1
        /\ \A n \in made : /\ child[n]["left"] \in made \cup {Nil}
                           /\ child[n]["right"] \in made \cup {Nil}
        /\ \A n \in made \cup {Nil} : h[n] \in Nat \ {0}
    <2>1. h[Nil] = 1 /\ \A n \in made : h[n] \in Nat \ {0}
      BY DEF Quiet, Coloured
    <2>2. Nil \notin made /\ \A n \in made, q \in Sides : child[n][q] \in made \cup {Nil}
      BY ShapeFacts
    <2> QED
      BY <2>1, <2>2, <1>1
  <1>3. \A n \in made, q \in Sides : h[n] = h[child[n][q]] + IF red[n] THEN 0 ELSE 1
    <2> SUFFICES ASSUME NEW n \in made, NEW q \in Sides
                 PROVE  h[n] = h[child[n][q]] + IF red[n] THEN 0 ELSE 1
      OBVIOUS
    <2>1. h[n] = h[child[n][q]] + Unit(n = Nil /\ q = sd) + Unit(~ red[n])
      BY DEF Quiet, Coloured, Even
    <2>2. h[child[n][q]] \in Nat
      BY <1>2, ShapeFacts
    <2> QED
      BY <2>1, <2>2, <1>2 DEF Unit
  <1>4. \A n \in made : /\ h[n] = h[child[n]["left"]] + IF red[n] THEN 0 ELSE 1
                        /\ h[child[n]["left"]] = h[child[n]["right"]]
                        /\ h[child[n]["left"]] # 0
    <2> SUFFICES ASSUME NEW n \in made
                 PROVE  /\ h[n] = h[child[n]["left"]] + IF red[n] THEN 0 ELSE 1
                        /\ h[child[n]["left"]] = h[child[n]["right"]]
                        /\ h[child[n]["left"]] # 0
      OBVIOUS
    <2>1. /\ h[n] = h[child[n]["left"]] + IF red[n] THEN 0 ELSE 1
          /\ h[n] = h[child[n]["right"]] + IF red[n] THEN 0 ELSE 1
      BY <1>1, <1>3
    <2>2. h[child[n]["left"]] \in Nat \ {0} /\ h[child[n]["right"]] \in Nat \ {0}
      BY <1>2
    <2> QED
      BY <2>1, <2>2
  <1>5. PICK g : g = [n \in made \cup {Nil} |-> h[n]]
    OBVIOUS
  <1>6. \A n \in made \cup {Nil} : g[n] = h[n]
    BY <1>5
  <1>7. Counts(g)
    <2>1. ASSUME NEW x \in made \cup {Nil}
          PROVE  h[x] = IF x = Nil THEN 1
                        ELSE LET l == g[child[x]["left"]] IN
                             IF l = 0 \/ l # g[child[x]["right"]] THEN 0
                             ELSE l + IF red[x] THEN 0 ELSE 1
      <3>1. CASE x = Nil
        BY <3>1, <1>2
      <3>2. CASE x # Nil
        <4>1. x \in made /\ g[child[x]["left"]] = h[child[x]["left"]] /\ g[child[x]["right"]] = h[child[x]["right"]]
          BY <3>2, <1>2, <1>6
        <4> QED
          BY <4>1, <3>2, <1>4
      <3> QED
        BY <3>1, <3>2
    <2> QED
      BY <2>1, <1>5 DEF Counts
  <1>8. BlackHeight = CHOOSE b : Counts(b)
    BY DEF BlackHeight, Counts
  <1>9. Counts(BlackHeight)
    BY <1>7, <1>8
  <1>10. PICK u : u = BlackHeight
    OBVIOUS
  <1>11. /\ u[Nil] = 1
         /\ \A n \in made : u[n] = LET l == u[child[n]["left"]] IN
                                   IF l = 0 \/ l # u[child[n]["right"]] THEN 0
                                   ELSE l + IF red[n] THEN 0 ELSE 1
    <2>1. PICK w : w = u
      OBVIOUS
    <2>2. w = [x \in made \cup {Nil} |->
            IF x = Nil THEN 1
            ELSE LET l == u[child[x]["left"]] IN
                 IF l = 0 \/ l # u[child[x]["right"]] THEN 0
                 ELSE l + IF red[x] THEN 0 ELSE 1]
      BY <1>9, <1>10, <2>1 DEF Counts
    <2>3. /\ w[Nil] = 1
          /\ \A n \in made : w[n] = LET l == u[child[n]["left"]] IN
                                   IF l = 0 \/ l # u[child[n]["right"]] THEN 0
                                   ELSE l + IF red[n] THEN 0 ELSE 1
      BY <2>2, <1>2
    <2> QED
      BY <2>1, <2>3
  <1>12. PICK Bad : Bad = {n \in made : u[n] # h[n]}
    OBVIOUS
  <1>13. ASSUME NEW n \in Bad PROVE \E q \in Sides : child[n][q] \in Bad
    <2>1. n \in made /\ u[n] # h[n]
      BY <1>12
    <2>2. u[child[n]["left"]] # h[child[n]["left"]] \/ u[child[n]["right"]] # h[child[n]["right"]]
      BY <2>1, <1>4, <1>11
    <2>3. \A m \in made \cup {Nil} : u[m] # h[m] => m \in Bad
      BY <1>2, <1>11, <1>12
    <2> QED
      BY <2>1, <2>2, <2>3, <1>1, <1>2
  <1>14. Bad = {}
    <2>1. Bad \subseteq made
      BY <1>12
    <2> QED
      BY <2>1, <1>13, FromBelow
  <1> QED
    BY <1>2, <1>10, <1>11, <1>12, <1>14

-----------------------------------------------------------------------------
(* The theorems.                                                           *)

(* Every node can be reached.                                              *)
LEMMA UnderMade == TreeFit /\ TreeInv => Under[root] = made
  <1> SUFFICES ASSUME TreeFit, TreeInv PROVE Under[root] = made
    OBVIOUS
  <1>1. PICK sub : Shape(made, root, child, parent, sub) /\ IsFiniteSet(made)
    BY DEF TreeInv, TreeTyped
  <1>2. root \in made \cup {Nil} /\ sub[root] = made
    BY <1>1, ShapeFacts
  <1> QED
    BY <1>1, <1>2, UnderIs

(* The invariant gives the properties.                                     *)
LEMMA InvSound == TreeFit /\ TreeInv => TreeSound
  <1> SUFFICES ASSUME TreeFit, TreeInv PROVE TreeSound
    OBVIOUS
  <1>1. PICK sub, h, at, sd : Shape(made, root, child, parent, sub) /\ TreeStage(sub, h, at, sd)
    BY DEF TreeInv
  <1>2. TreeTyped /\ IsFiniteSet(made)
    BY DEF TreeInv, TreeTyped
  <1>3. /\ Nil \notin made /\ root \in made \cup {Nil} /\ sub[Nil] = {} /\ sub[root] = made
        /\ root # Nil => parent[root] = Nil
        /\ \A n \in made, q \in Sides : child[n][q] \in made \cup {Nil}
    BY <1>1, ShapeFacts
  <1>4. \A n \in made \cup {Nil} : Under[n] = sub[n]
    BY <1>1, <1>2, UnderIs
  <1>5. FindsWhatIsHeld
    <2> SUFFICES ASSUME treeCall.pc = "find", treeCall.x = Nil, NEW y \in made, KeyOf(y) = treeCall.key
                 PROVE  FALSE
      BY DEF FindsWhatIsHeld
    <2>1. Finds(sub, treeCall.key, treeCall.x)
      BY <1>1, StageIs
    <2> QED
      BY <2>1, <1>3 DEF Finds
  <1>6. ASSUME treeCall = NoCall PROVE Balanced
    <2>1. Quiet(h, sd)
      BY <1>1, <1>6, StageIs
    <2>2. BlackHeight[root] # 0
      <3>1. BlackHeight[root] = h[root] /\ h[root] \in Nat \ {0}
        BY <2>1, <1>1, <1>2, <1>3, HeightIs
      <3> QED
        BY <3>1
    <2>3. ~ red[root] /\ ~ red[Nil]
      BY <2>1 DEF Quiet, Coloured
    <2>4. \A x \in made : red[x] => \A side \in Sides : ~ red[child[x][side]]
      BY <2>1 DEF Quiet, Coloured, Parted
    <2> QED
      BY <2>2, <2>3, <2>4 DEF Balanced
  <1>7. Navigable
    <2>1. "left" \in Sides /\ "right" \in Sides /\ Other("left") = "right"
      BY DEF Sides, Other
    <2>2. ASSUME NEW x \in made
          PROVE  /\ Under[child[x]["left"]] \cap Under[child[x]["right"]] = {}
                 /\ \A side \in Sides : child[x][side] # Nil => parent[child[x][side]] = x
                 /\ \A y \in Under[child[x]["left"]] : KeyOf(y) <= KeyOf(x)
                 /\ \A y \in Under[child[x]["right"]] : KeyOf(x) <= KeyOf(y)
      <3>1. Family(made, child, parent, sub, x)
        BY <1>1, ShapeFacts
      <3>2. Under[child[x]["left"]] = sub[child[x]["left"]] /\ Under[child[x]["right"]] = sub[child[x]["right"]]
        BY <1>3, <1>4, <2>1
      <3>3. sub[child[x]["left"]] \cap sub[child[x]["right"]] = {}
        BY <3>1, <2>1 DEF Family
      <3>4. \A side \in Sides : child[x][side] # Nil => parent[child[x][side]] = x
        BY <3>1 DEF Family
      <3>5. (\A y \in sub[child[x]["left"]] : KeyOf(y) <= KeyOf(x))
        BY <3>1, <2>1 DEF Family, OnSide
      <3>6. (\A y \in sub[child[x]["right"]] : KeyOf(x) <= KeyOf(y))
        BY <3>1, <2>1 DEF Family, OnSide
      <3> QED
        BY <3>2, <3>3, <3>4, <3>5, <3>6
    <2>3. Under[root] = made
      BY <1>3, <1>4
    <2> QED
      BY <2>2, <2>3, <1>3 DEF Navigable
  <1> QED
    BY <1>5, <1>6, <1>7 DEF TreeSound

(* Between calls of insert, remove and search the tree is red-black, so    *)
(* that no way down is more than twice as long as another; every node is   *)
(* reached once, the links up undo the links down, and the keys are in     *)
(* order. A search that ends at the sentinel was for a key that no node    *)
(* has.                                                                    *)
THEOREM TreeStaysSound ==
    ASSUME TreeFit PROVE TreeSpec => []TreeSound
  <1>1. TreeInv => TreeSound
    BY InvSound
  <1>2. TreeSpec => []TreeInv
    BY TreeKeeps
  <1> QED
    BY <1>1, <1>2, PTL

-----------------------------------------------------------------------------
(* How many of the nodes M have each key.                                  *)
Having(M, k) == {x \in M : KeyOf(x) = k}
Copies(M) == [k \in TreeKeys |-> Cardinality(Having(M, k))]

(* A new node is one copy of its key more ...                              *)
LEMMA OneKeyMore ==
    ASSUME NEW M, IsFiniteSet(M), NEW z, z \notin M, KeyOf(z) \in TreeKeys
    PROVE  Copies(M \cup {z}) = [Copies(M) EXCEPT ![KeyOf(z)] = @ + 1]
  <1>1. \A k : IsFiniteSet(Having(M, k)) /\ z \notin Having(M, k)
    <2> SUFFICES ASSUME NEW k PROVE IsFiniteSet(Having(M, k)) /\ z \notin Having(M, k)
      OBVIOUS
    <2>1. Having(M, k) \subseteq M
      BY DEF Having
    <2> QED
      BY <2>1, FS_Subset
  <1>2. ASSUME NEW k \in TreeKeys
        PROVE  Cardinality(Having(M \cup {z}, k)) =
                   IF k = KeyOf(z) THEN Cardinality(Having(M, k)) + 1 ELSE Cardinality(Having(M, k))
    <2>1. CASE k = KeyOf(z)
      <3>1. Having(M \cup {z}, k) = Having(M, k) \cup {z}
        BY <2>1 DEF Having
      <3> QED
        BY <3>1, <2>1, <1>1, FS_AddElement
    <2>2. CASE k # KeyOf(z)
      <3>1. Having(M \cup {z}, k) = Having(M, k)
        BY <2>2 DEF Having
      <3> QED
        BY <3>1, <2>2
    <2> QED
      BY <2>1, <2>2
  <1>3. PICK f : f = Copies(M)
    OBVIOUS
  <1>4. f \in [TreeKeys -> {f[k] : k \in TreeKeys}] /\ \A k \in TreeKeys : f[k] = Cardinality(Having(M, k))
    BY <1>3 DEF Copies
  <1>5. [f EXCEPT ![KeyOf(z)] = @ + 1] = [k \in TreeKeys |-> IF k = KeyOf(z) THEN f[k] + 1 ELSE f[k]]
    BY <1>4
  <1>6. Copies(M \cup {z}) = [k \in TreeKeys |-> IF k = KeyOf(z) THEN f[k] + 1 ELSE f[k]]
    BY <1>2, <1>4 DEF Copies
  <1> QED
    BY <1>3, <1>5, <1>6

(* ... and a removed one is one less.                                      *)
LEMMA OneKeyLess ==
    ASSUME NEW M, IsFiniteSet(M), NEW z \in M, KeyOf(z) \in TreeKeys
    PROVE  /\ Copies(M)[KeyOf(z)] > 0
           /\ Copies(M \ {z}) = [Copies(M) EXCEPT ![KeyOf(z)] = @ - 1]
  <1>1. PICK N : N = M \ {z}
    OBVIOUS
  <1>2. IsFiniteSet(N) /\ z \notin N /\ N \cup {z} = M
    BY <1>1, FS_RemoveElement
  <1>3. Copies(M) = [Copies(N) EXCEPT ![KeyOf(z)] = @ + 1]
    BY <1>2, OneKeyMore
  <1>4. PICK f : f = Copies(N)
    OBVIOUS
  <1>5. f \in [TreeKeys -> Nat]
    <2>1. ASSUME NEW k \in TreeKeys PROVE Cardinality(Having(N, k)) \in Nat
      <3>1. Having(N, k) \subseteq N
        BY DEF Having
      <3> QED
        BY <3>1, <1>2, FS_Subset, FS_CardinalityType
    <2> QED
      BY <2>1, <1>4 DEF Copies
  <1>6. PICK g : g = [f EXCEPT ![KeyOf(z)] = @ + 1]
    OBVIOUS
  <1>7. g \in [TreeKeys -> Nat] /\ g[KeyOf(z)] = f[KeyOf(z)] + 1
        /\ \A k \in TreeKeys : k # KeyOf(z) => g[k] = f[k]
    BY <1>5, <1>6
  <1>8. f = [g EXCEPT ![KeyOf(z)] = @ - 1]
    <2>1. g[KeyOf(z)] - 1 = f[KeyOf(z)]
      BY <1>5, <1>7
    <2> QED
      BY <2>1, <1>5, <1>7
  <1>9. g[KeyOf(z)] > 0
    BY <1>5, <1>7
  <1> QED
    BY <1>1, <1>3, <1>4, <1>6, <1>8, <1>9

(* The mapping to the bag counts the nodes.                                *)
LEMMA TreeHolds ==
    TreeFit /\ TreeInv =>
        Copies(made) = [k \in TreeKeys |-> Cardinality({x \in Under[root] : KeyOf(x) = k})]
  BY UnderMade DEF Copies, Having

(* Which nodes a step makes or takes.                                      *)
LEMMA StepHolds ==
    ASSUME TreeFit, TreeInv, TreeNext
    PROVE  \/ made' = made
           \/ \E z : z \notin made /\ KeyOf(z) \in TreeKeys /\ made' = made \cup {z}
           \/ \E z \in made : KeyOf(z) \in TreeKeys /\ made' = made \ {z}
  <1>1. CASE Attach
    <2>1. PICK copy \in 1 .. MaxCopies : /\ <<treeCall.key, copy>> \notin made
                                         /\ made' = made \cup {<<treeCall.key, copy>>}
      BY <1>1 DEF Attach
    <2>2. treeCall.key \in TreeKeys
      <3>1. PICK sub, h, at, sd : TreeStage(sub, h, at, sd)
        BY DEF TreeInv
      <3>2. treeCall.pc = "descend"
        BY <1>1 DEF Attach
      <3> QED
        BY <3>1, <3>2, StageIs DEF WayDown
    <2>3. KeyOf(<<treeCall.key, copy>>) = treeCall.key
      BY DEF KeyOf
    <2> QED
      BY <2>1, <2>2, <2>3
  <1>2. \A z \in made : KeyOf(z) \in TreeKeys
    <2>1. made \subseteq Nodes
      BY DEF TreeInv, Shape
    <2> QED
      BY <2>1 DEF Nodes, KeyOf
  <1>3. CASE Detach
    <2>1. PICK z \in made : made' = made \ {z}
      BY <1>3 DEF Detach
    <2> QED
      BY <2>1, <1>2
  <1>4. CASE MoveSuccessor
    BY <1>2, <1>4, MoveSuccessorKeeps
  <1>5. ASSUME NEW key \in TreeKeys, insert(key) \/ search(key) PROVE made' = made
    BY <1>5 DEF insert, search
  <1>6. CASE \/ Descend \/ InsertCase1 \/ InsertCase2 \/ InsertCase3 \/ InsertEnds
    BY <1>6 DEF Descend, InsertCase1, InsertCase2, InsertCase3, InsertEnds
  <1>7. CASE \/ Find \/ SearchEnds \/ BeginMinimum \/ Minimum
    BY <1>7 DEF Find, SearchEnds, BeginMinimum, Minimum
  <1>8. CASE \/ DeleteCase1 \/ DeleteCase2 \/ DeleteCase3 \/ DeleteCase4 \/ DeleteEnds
    BY <1>8 DEF DeleteCase1, DeleteCase2, DeleteCase3, DeleteCase4, DeleteEnds
  <1> QED
    BY <1>1, <1>3, <1>4, <1>5, <1>6, <1>7, <1>8 DEF TreeNext

(* At every turn of a loop the nodes that can be reached from the root are *)
(* what the calls so far should have left: insert adds one copy of its     *)
(* key, a remove that found its key takes one, and nothing else, no        *)
(* rotation and no fix-up, changes the bag.                                *)
THEOREM TreeIsABag ==
    ASSUME TreeFit PROVE TreeSpec => ImplementsBag
  <1>1. TreeInit => Bag!Init
    <2> SUFFICES ASSUME TreeInit PROVE Bag!Init
      OBVIOUS
    <2>1. made = {} /\ Copies(made) = [k \in TreeKeys |-> Cardinality({x \in Under[root] : KeyOf(x) = k})]
      BY TreeStarts, TreeHolds DEF TreeInit
    <2>2. \A k : Cardinality(Having({}, k)) = 0
      BY FS_EmptySet DEF Having
    <2> QED
      BY <2>1, <2>2 DEF Bag!Init, Copies
  <1>2. TreeInv /\ TreeInv' /\ [TreeNext]_treeVars =>
            [Bag!Next]_([k \in TreeKeys |-> Cardinality({x \in Under[root] : KeyOf(x) = k})])
    <2> SUFFICES ASSUME TreeInv, TreeInv', [TreeNext]_treeVars
                 PROVE  [Bag!Next]_([k \in TreeKeys |-> Cardinality({x \in Under[root] : KeyOf(x) = k})])
      OBVIOUS
    <2>1. PICK f, g : f = [k \in TreeKeys |-> Cardinality({x \in Under[root] : KeyOf(x) = k})]
                      /\ g = [k \in TreeKeys |-> Cardinality({x \in Under[root] : KeyOf(x) = k})]'
      OBVIOUS
    <2>2. f = Copies(made) /\ g = Copies(made')
      <3>1. (TreeFit /\ TreeInv => Copies(made) = [k \in TreeKeys |-> Cardinality({x \in Under[root] : KeyOf(x) = k})])'
        BY TreeHolds, PTL
      <3> QED
        BY <2>1, <3>1, TreeHolds
    <2>3. IsFiniteSet(made)
      BY DEF TreeInv, TreeTyped
    <2>4. CASE made' = made
      BY <2>1, <2>2, <2>4
    <2>5. ASSUME NEW z, z \notin made, KeyOf(z) \in TreeKeys, made' = made \cup {z}
          PROVE  Bag!Next
      <3>1. g = [f EXCEPT ![KeyOf(z)] = @ + 1]
        BY <2>2, <2>3, <2>5, OneKeyMore
      <3> QED
        BY <3>1, <2>1, <2>5 DEF Bag!Next, Bag!Insert
    <2>6. ASSUME NEW z \in made, KeyOf(z) \in TreeKeys, made' = made \ {z}
          PROVE  Bag!Next
      <3>1. f[KeyOf(z)] > 0 /\ g = [f EXCEPT ![KeyOf(z)] = @ - 1]
        BY <2>2, <2>3, <2>6, OneKeyLess
      <3> QED
        BY <3>1, <2>1, <2>6 DEF Bag!Next, Bag!Remove
    <2>7. UNCHANGED treeVars => made' = made
      BY DEF treeVars
    <2> QED
      BY <2>4, <2>5, <2>6, <2>7, StepHolds
  <1>3. TreeSpec => []TreeInv
    BY TreeKeeps
  <1> QED
    BY <1>1, <1>2, <1>3, PTL DEF TreeSpec, ImplementsBag, Bag!Spec
=============================================================================
