----------------------------- MODULE SumsProof ------------------------------
(***************************************************************************)
(* Sums over any finite set, and what else several proofs need of numbers  *)
(* and finite sets: the theorems about them are those of the parts.        *)
(***************************************************************************)
EXTENDS Sums, FiniteSetTheorems, WellFoundedInduction, TLAPS

(* A nonempty set of natural numbers has a least element.                  *)
LEMMA LeastIn ==
    ASSUME NEW S, S \subseteq Nat, S # {}
    PROVE  \E x \in S : \A y \in S : x <= y
  <1> DEFINE Less == {ss \in Nat \X Nat : ss[1] < ss[2]}
  <1>1. IsWellFoundedOn(Less, Nat)
    BY NatLessThanWellFounded DEF OpToRel
  <1>2. PICK x \in S : \A y \in S : ~ (<<y, x>> \in Less)
    <2> HIDE DEF Less
    <2> QED
      BY <1>1, WFMin
  <1>3. \A y \in S : x <= y
    <2> TAKE y \in S
    <2>1. x \in Nat /\ y \in Nat /\ ~ (<<y, x>> \in Less)
      BY <1>2
    <2> QED
      BY <2>1
  <1> QED
    BY <1>3

-----------------------------------------------------------------------------
(* Sums: what Sum gives for functions over any finite set.  Sum takes the  *)
(* elements in an order of its own, so that its facts are shown for every  *)
(* subset, by a smallest one for which they would fail (BySubsets).        *)

(* Among subsets of a finite set there is one with no smaller one.         *)
LEMMA SmallestSet ==
    ASSUME NEW S, IsFiniteSet(S), NEW B, B \subseteq SUBSET S, B # {}
    PROVE  \E s \in B : \A r \in SUBSET s : r # s => r \notin B
  <1> DEFINE Sizes == {Cardinality(s) : s \in B}
  <1>1. \A s \in B : IsFiniteSet(s) /\ Cardinality(s) \in Nat
    BY FS_Subset, FS_CardinalityType
  <1>2. PICK n \in Sizes : \A m \in Sizes : n <= m
    <2>1. Sizes \subseteq Nat /\ Sizes # {}
      BY <1>1
    <2> HIDE DEF Sizes
    <2> QED
      BY <2>1, LeastIn
  <1>3. PICK s \in B : n = Cardinality(s)
    OBVIOUS
  <1>4. ASSUME NEW r \in SUBSET s, r # s, r \in B PROVE FALSE
    <2>1. Cardinality(r) <= Cardinality(s) /\ Cardinality(r) # Cardinality(s)
      BY <1>1, <1>4, FS_Subset
    <2>2. Cardinality(s) <= Cardinality(r)
      BY <1>2, <1>3, <1>4
    <2> QED
      BY <1>1, <1>4, <2>1, <2>2
  <1> QED
    BY <1>4

(* The element that Sum adds first, and what is left.                      *)
Taken(s) == CHOOSE x \in s : TRUE
Left(s) == s \ {Taken(s)}

(* h sums f over every subset of S.                                        *)
Adds(f, S, h) == h = [s \in SUBSET S |-> IF s = {} THEN 0 ELSE f[Taken(s)] + h[Left(s)]]

(* Sum is what its recursive function, if there is one, gives for all.     *)
LEMMA SumAdds ==
    ASSUME NEW f
    PROVE  Sum(f) = (CHOOSE h : Adds(f, DOMAIN f, h))[DOMAIN f]
  BY DEF Sum, MapThenSumSet, MapThenFoldSet, Adds, Taken, Left

(* What is left is smaller.                                                *)
LEMMA RestIs ==
    ASSUME NEW s, s # {}
    PROVE  Taken(s) \in s /\ Left(s) \in SUBSET s /\ Left(s) # s
  <1>1. Taken(s) \in s
    BY DEF Taken
  <1> QED
    BY <1>1 DEF Left

(* How such a function adds.                                               *)
LEMMA AddsAt ==
    ASSUME NEW f, NEW S, NEW h, Adds(f, S, h), NEW s \in SUBSET S
    PROVE  h[s] = IF s = {} THEN 0 ELSE f[Taken(s)] + h[Left(s)]
  <1>1. PICK k : k = h
    OBVIOUS
  <1>2. k = [r \in SUBSET S |-> IF r = {} THEN 0 ELSE f[Taken(r)] + h[Left(r)]]
    BY <1>1 DEF Adds
  <1> QED
    BY <1>1, <1>2

(* Two such functions give the same on a subset both sum over.             *)
LEMMA AddsAgree ==
    ASSUME NEW f, NEW S, IsFiniteSet(S), NEW T, NEW h, NEW k, Adds(f, S, h), Adds(f, T, k),
           NEW s \in SUBSET S, s \in SUBSET T
    PROVE  h[s] = k[s]
  <1> DEFINE B == {r \in SUBSET S : r \in SUBSET T /\ h[r] # k[r]}
  <1>1. SUFFICES ASSUME B # {} PROVE FALSE
    OBVIOUS
  <1>2. PICK r \in B : \A q \in SUBSET r : q # r => q \notin B
    <2>1. B \subseteq SUBSET S
      OBVIOUS
    <2> HIDE DEF B
    <2> QED
      BY <1>1, <2>1, SmallestSet
  <1>3. /\ h[r] = IF r = {} THEN 0 ELSE f[Taken(r)] + h[Left(r)]
        /\ k[r] = IF r = {} THEN 0 ELSE f[Taken(r)] + k[Left(r)]
    BY AddsAt
  <1>4. r # {}
    BY <1>3
  <1>5. Left(r) \in SUBSET r /\ Left(r) # r
    BY <1>4, RestIs
  <1>6. h[Left(r)] = k[Left(r)]
    BY <1>2, <1>5
  <1> QED
    BY <1>3, <1>6

(* The function that Sum defines by recursion exists.                      *)
LEMMA SomeAdds ==
    ASSUME NEW f, NEW S, IsFiniteSet(S)
    PROVE  \E h : Adds(f, S, h)
  <1> DEFINE B == {r \in SUBSET S : ~ \E h : Adds(f, r, h)}
  <1>1. SUFFICES ASSUME B # {} PROVE FALSE
    <2>1. S \in SUBSET S
      OBVIOUS
    <2> QED
      BY <2>1
  <1>2. PICK T \in B : \A q \in SUBSET T : q # T => q \notin B
    <2>1. B \subseteq SUBSET S
      OBVIOUS
    <2> HIDE DEF B
    <2> QED
      BY <1>1, <2>1, SmallestSet
  <1> DEFINE sum(s) == (CHOOSE h : Adds(f, s, h))[s]
  <1>3. ASSUME NEW s \in SUBSET T, s # T
        PROVE  Adds(f, s, CHOOSE h : Adds(f, s, h)) /\ IsFiniteSet(s)
    <2>1. s \in SUBSET S
      BY <1>2
    <2>2. \E h : Adds(f, s, h)
      BY <1>2, <1>3, <2>1
    <2> QED
      BY <2>1, <2>2, FS_Subset
  <1>4. ASSUME NEW s \in SUBSET T, s # T
        PROVE  sum(s) = IF s = {} THEN 0 ELSE f[Taken(s)] + sum(Left(s))
    <2>1. PICK h : h = CHOOSE g : Adds(f, s, g)
      OBVIOUS
    <2>2. Adds(f, s, h) /\ IsFiniteSet(s) /\ s \in SUBSET s
      BY <1>3, <1>4, <2>1
    <2>3. h[s] = IF s = {} THEN 0 ELSE f[Taken(s)] + h[Left(s)]
      BY <2>2, AddsAt
    <2>4. CASE s = {}
      BY <2>1, <2>3, <2>4
    <2>5. CASE s # {}
      <3>1. Left(s) \in SUBSET s /\ Left(s) \in SUBSET T /\ Left(s) # T
        BY <1>4, <2>5, RestIs
      <3>2. PICK k : k = CHOOSE g : Adds(f, Left(s), g)
        OBVIOUS
      <3>3. Adds(f, Left(s), k) /\ Left(s) \in SUBSET Left(s)
        BY <1>3, <3>1, <3>2
      <3>4. h[Left(s)] = k[Left(s)]
        BY <2>2, <3>1, <3>3, AddsAgree
      <3> QED
        BY <2>1, <2>3, <2>5, <3>2, <3>4
    <2> QED
      BY <2>4, <2>5
  <1> DEFINE H == [s \in SUBSET T |-> IF s = {} THEN 0 ELSE f[Taken(s)] + sum(Left(s))]
  <1>5. Adds(f, T, H)
    <2>1. ASSUME NEW s \in SUBSET T, s # {}
          PROVE  H[Left(s)] = sum(Left(s))
      <3>1. Left(s) \in SUBSET T /\ Left(s) # T
        BY <2>1, RestIs
      <3>2. sum(Left(s)) = IF Left(s) = {} THEN 0 ELSE f[Taken(Left(s))] + sum(Left(Left(s)))
        BY <1>4, <3>1
      <3> HIDE DEF sum
      <3> QED
        BY <3>1, <3>2
    <2>2. ASSUME NEW s \in SUBSET T
          PROVE  H[s] = IF s = {} THEN 0 ELSE f[Taken(s)] + H[Left(s)]
      <3>1. H[s] = IF s = {} THEN 0 ELSE f[Taken(s)] + sum(Left(s))
        OBVIOUS
      <3> HIDE DEF H, sum
      <3> QED
        BY <2>1, <3>1
    <2>3. H = [s \in SUBSET T |-> H[s]]
      OBVIOUS
    <2> HIDE DEF H
    <2> QED
      BY <2>2, <2>3 DEF Adds
  <1>6. T \notin B
    BY <1>5
  <1> QED
    BY <1>2, <1>6

(* What sums are, subset by subset.                                        *)
IsSum(f, S, h) ==
    /\ h[{}] = 0 /\ h[S] = Sum(f)
    /\ \A s \in SUBSET S : s # {} => h[s] = f[Taken(s)] + h[Left(s)]

(* So Sum can be taken apart.                                              *)
LEMMA SumIs ==
    ASSUME NEW S, IsFiniteSet(S), NEW f, DOMAIN f = S
    PROVE  \E h : IsSum(f, S, h)
  <1>1. PICK h : h = CHOOSE k : Adds(f, S, k)
    OBVIOUS
  <1>2. Adds(f, S, h) /\ h[S] = Sum(f)
    BY <1>1, SomeAdds, SumAdds
  <1>3. {} \in SUBSET S
    OBVIOUS
  <1>4. h[{}] = 0
    BY <1>2, <1>3, AddsAt
  <1>5. \A s \in SUBSET S : s # {} => h[s] = f[Taken(s)] + h[Left(s)]
    BY <1>2, AddsAt
  <1> QED
    BY <1>2, <1>4, <1>5 DEF IsSum

(* Induction over the subsets in the order in which Sum takes them; G is   *)
(* the set of those for which the statement holds.                         *)
LEMMA BySubsets ==
    ASSUME NEW S, IsFiniteSet(S), NEW G, {} \in G,
           \A s \in SUBSET S : s # {} /\ Left(s) \in G => s \in G
    PROVE  S \in G
  <1> DEFINE B == {s \in SUBSET S : s \notin G}
  <1>1. SUFFICES ASSUME B # {} PROVE FALSE
    OBVIOUS
  <1>2. PICK s \in B : \A q \in SUBSET s : q # s => q \notin B
    <2>1. B \subseteq SUBSET S
      OBVIOUS
    <2> HIDE DEF B
    <2> QED
      BY <1>1, <2>1, SmallestSet
  <1>3. s # {} /\ s \in SUBSET S /\ s \notin G
    OBVIOUS
  <1>4. Left(s) \in SUBSET s /\ Left(s) # s
    BY <1>3, RestIs
  <1>5. Left(s) \in G
    BY <1>2, <1>3, <1>4
  <1> QED
    BY <1>3, <1>5

(* Sums are numbers, and linear.                                           *)
LEMMA SumInt ==
    ASSUME NEW S, IsFiniteSet(S), NEW f \in [S -> Int]
    PROVE  Sum(f) \in Int
  <1>1. PICK h : IsSum(f, S, h)
    BY SumIs
  <1> DEFINE G == {s \in SUBSET S : h[s] \in Int}
  <1>2. {} \in G
    BY <1>1 DEF IsSum
  <1>3. ASSUME NEW s \in SUBSET S, s # {}, Left(s) \in G PROVE s \in G
    <2>1. h[s] = f[Taken(s)] + h[Left(s)]
      BY <1>1, <1>3 DEF IsSum
    <2>2. Taken(s) \in S
      BY <1>3, RestIs
    <2> QED
      BY <1>3, <2>1, <2>2
  <1>4. S \in G
    <2> HIDE DEF G
    <2> QED
      BY <1>2, <1>3, BySubsets
  <1> QED
    BY <1>1, <1>4 DEF IsSum

LEMMA Distributes ==
    ASSUME NEW a \in Int, NEW x \in Int, NEW y \in Int, NEW u \in Int, NEW v \in Int
    PROVE  (a * x + u) + (a * y + v) = a * (x + y) + (u + v)
  OBVIOUS

Combines(e, a, f, g, S) == \A i \in S : e[i] = a * f[i] + g[i]

(* Sums are linear.                                                        *)
LEMMA SumLinear ==
    ASSUME NEW S, IsFiniteSet(S), NEW f \in [S -> Int], NEW g \in [S -> Int], NEW a \in Int,
           NEW e \in [S -> Int], Combines(e, a, f, g, S)
    PROVE  Sum(e) = a * Sum(f) + Sum(g)
  <1>1. PICK h : IsSum(f, S, h)
    BY SumIs
  <1>2. PICK k : IsSum(g, S, k)
    BY SumIs
  <1>3. PICK m : IsSum(e, S, m)
    BY SumIs
  <1> DEFINE G == {s \in SUBSET S : h[s] \in Int /\ k[s] \in Int /\ m[s] = a * h[s] + k[s]}
  <1>4. {} \in G
    <2>1. h[{}] = 0 /\ k[{}] = 0 /\ m[{}] = 0
      BY <1>1, <1>2, <1>3 DEF IsSum
    <2> QED
      BY <2>1
  <1>5. ASSUME NEW s \in SUBSET S, s # {}, Left(s) \in G PROVE s \in G
    <2>1. /\ h[s] = f[Taken(s)] + h[Left(s)] /\ k[s] = g[Taken(s)] + k[Left(s)]
          /\ m[s] = e[Taken(s)] + m[Left(s)]
      BY <1>1, <1>2, <1>3, <1>5 DEF IsSum
    <2>2. Taken(s) \in S
      BY <1>5, RestIs
    <2>3. PICK x, y, u, v : x = f[Taken(s)] /\ y = h[Left(s)] /\ u = g[Taken(s)] /\ v = k[Left(s)]
      OBVIOUS
    <2>4. x \in Int /\ u \in Int /\ y \in Int /\ v \in Int
      BY <1>5, <2>2, <2>3
    <2>5. m[s] = (a * x + u) + (a * y + v)
      BY <1>5, <2>1, <2>2, <2>3 DEF Combines
    <2>6. m[s] = a * (x + y) + (u + v)
      BY <2>4, <2>5, Distributes
    <2>7. h[s] = x + y /\ k[s] = u + v
      BY <2>1, <2>3
    <2> QED
      BY <2>4, <2>6, <2>7
  <1>6. S \in G
    <2> HIDE DEF G
    <2> QED
      BY <1>4, <1>5, BySubsets
  <1>7. h[S] = Sum(f) /\ k[S] = Sum(g) /\ m[S] = Sum(e)
    BY <1>1, <1>2, <1>3 DEF IsSum
  <1> QED
    BY <1>6, <1>7

(* The sum of zeros.                                                       *)
LEMMA SumZero ==
    ASSUME NEW S, IsFiniteSet(S), NEW f \in [S -> Int], \A i \in S : f[i] = 0
    PROVE  Sum(f) = 0
  <1>1. Combines(f, 1, f, f, S)
    BY DEF Combines
  <1>2. Sum(f) = 1 * Sum(f) + Sum(f)
    BY <1>1, SumLinear
  <1> QED
    BY <1>2, SumInt

(* Changing one number changes the sum by as much.                         *)
LEMMA SumChange ==
    ASSUME NEW S, IsFiniteSet(S), NEW f \in [S -> Int], NEW g \in [S -> Int],
           NEW j \in S, NEW d \in Int, g[j] = f[j] + d, \A i \in S : i # j => g[i] = f[i]
    PROVE  Sum(g) = Sum(f) + d
  <1>1. PICK h : IsSum(f, S, h)
    BY SumIs
  <1>2. PICK k : IsSum(g, S, k)
    BY SumIs
  <1> DEFINE G == {s \in SUBSET S : /\ h[s] \in Int
                                    /\ k[s] = IF j \in s THEN h[s] + d ELSE h[s]}
  <1>3. {} \in G
    BY <1>1, <1>2 DEF IsSum
  <1>4. ASSUME NEW s \in SUBSET S, s # {}, Left(s) \in G PROVE s \in G
    <2>1. h[s] = f[Taken(s)] + h[Left(s)] /\ k[s] = g[Taken(s)] + k[Left(s)]
      BY <1>1, <1>2, <1>4 DEF IsSum
    <2>2. Taken(s) \in S /\ Taken(s) \in s /\ Left(s) = s \ {Taken(s)}
      BY <1>4, RestIs DEF Left
    <2>3. PICK x, y : x = f[Taken(s)] /\ y = h[Left(s)]
      OBVIOUS
    <2>4. x \in Int /\ y \in Int
      BY <1>4, <2>2, <2>3
    <2>5. CASE Taken(s) = j
      <3>1. j \in s /\ j \notin Left(s)
        BY <2>2, <2>5
      <3>2. k[Left(s)] = y /\ g[Taken(s)] = x + d
        BY <1>4, <2>3, <2>5, <3>1
      <3>3. k[s] = h[s] + d /\ h[s] \in Int
        BY <2>1, <2>3, <2>4, <3>2
      <3> QED
        BY <3>1, <3>3
    <2>6. CASE Taken(s) # j
      <3>1. j \in s <=> j \in Left(s)
        BY <2>2, <2>6
      <3>2. g[Taken(s)] = x
        BY <2>2, <2>3, <2>6
      <3> QED
        BY <1>4, <2>1, <2>3, <2>4, <3>1, <3>2
    <2> QED
      BY <2>5, <2>6
  <1>5. S \in G
    <2> HIDE DEF G
    <2> QED
      BY <1>3, <1>4, BySubsets
  <1> QED
    BY <1>1, <1>2, <1>5 DEF IsSum

(* Smaller numbers have a smaller sum, or are all the same.                *)
LEMMA SumBelow ==
    ASSUME NEW S, IsFiniteSet(S), NEW f \in [S -> Int], NEW g \in [S -> Int],
           \A i \in S : f[i] <= g[i]
    PROVE  Sum(f) <= Sum(g) /\ (Sum(f) = Sum(g) => \A i \in S : f[i] = g[i])
  <1>1. PICK h : IsSum(f, S, h)
    BY SumIs
  <1>2. PICK k : IsSum(g, S, k)
    BY SumIs
  <1> DEFINE G == {s \in SUBSET S : /\ h[s] \in Int /\ k[s] \in Int /\ h[s] <= k[s]
                                    /\ h[s] = k[s] => \A i \in s : f[i] = g[i]}
  <1>3. {} \in G
    BY <1>1, <1>2 DEF IsSum
  <1>4. ASSUME NEW s \in SUBSET S, s # {}, Left(s) \in G PROVE s \in G
    <2>1. h[s] = f[Taken(s)] + h[Left(s)] /\ k[s] = g[Taken(s)] + k[Left(s)]
      BY <1>1, <1>2, <1>4 DEF IsSum
    <2>2. Taken(s) \in S /\ Left(s) = s \ {Taken(s)}
      BY <1>4, RestIs DEF Left
    <2>3. PICK x, y, u, v : x = f[Taken(s)] /\ y = h[Left(s)] /\ u = g[Taken(s)] /\ v = k[Left(s)]
      OBVIOUS
    <2>4. x \in Int /\ u \in Int /\ y \in Int /\ v \in Int /\ x <= u /\ y <= v
      BY <1>4, <2>2, <2>3
    <2>5. h[s] = x + y /\ k[s] = u + v
      BY <2>1, <2>3
    <2>6. h[s] \in Int /\ k[s] \in Int /\ h[s] <= k[s]
      BY <2>4, <2>5
    <2>7. ASSUME h[s] = k[s] PROVE \A i \in s : f[i] = g[i]
      <3>1. x = u /\ y = v
        <4>1. x + y = u + v
          BY <2>5, <2>7
        <4> QED
          BY <2>4, <4>1
      <3>2. \A i \in Left(s) : f[i] = g[i]
        BY <1>4, <2>3, <3>1
      <3> QED
        BY <2>2, <2>3, <3>1, <3>2
    <2> QED
      BY <2>6, <2>7
  <1>5. S \in G
    <2> HIDE DEF G
    <2> QED
      BY <1>3, <1>4, BySubsets
  <1> QED
    BY <1>1, <1>2, <1>5 DEF IsSum

Scales(e, a, f, S) == \A i \in S : e[i] = a * f[i]

(* Multiples.                                                              *)
LEMMA SumScaled ==
    ASSUME NEW S, IsFiniteSet(S), NEW f \in [S -> Int], NEW a \in Int,
           NEW e \in [S -> Int], Scales(e, a, f, S)
    PROVE  Sum(e) = a * Sum(f) /\ Sum(e) \in Int /\ Sum(f) \in Int
  <1>1. PICK z \in [S -> Int] : \A i \in S : z[i] = 0
    <2>1. [i \in S |-> 0] \in [S -> Int]
      OBVIOUS
    <2> QED
      BY <2>1
  <1>2. Sum(z) = 0
    BY <1>1, SumZero
  <1>3. Combines(e, a, f, z, S)
    <2>1. ASSUME NEW i \in S PROVE e[i] = a * f[i] + z[i]
      <3>1. e[i] = a * f[i] /\ e[i] \in Int /\ z[i] = 0
        BY <1>1 DEF Scales
      <3> QED
        BY <3>1
    <2> QED
      BY <2>1 DEF Combines
  <1>4. Sum(e) = a * Sum(f) + Sum(z)
    BY <1>1, <1>3, SumLinear
  <1>5. Sum(f) \in Int /\ Sum(e) \in Int
    BY SumInt
  <1>6. a * Sum(f) \in Int
    BY <1>5
  <1> QED
    BY <1>2, <1>4, <1>5, <1>6

(* An element may be taken out first, whichever one Sum takes first.       *)
LEMMA AnyFirst ==
    ASSUME NEW S, IsFiniteSet(S), NEW f \in [S -> Int], NEW h, IsSum(f, S, h)
    PROVE  \A s \in SUBSET S : h[s] \in Int /\ \A y \in s : h[s] = f[y] + h[s \ {y}]
  <1> DEFINE B == {s \in SUBSET S : ~ (h[s] \in Int /\ \A y \in s : h[s] = f[y] + h[s \ {y}])}
  <1>1. SUFFICES ASSUME B # {} PROVE FALSE
    OBVIOUS
  <1>2. PICK s \in B : \A q \in SUBSET s : q # s => q \notin B
    <2>1. B \subseteq SUBSET S
      OBVIOUS
    <2> HIDE DEF B
    <2> QED
      BY <1>1, <2>1, SmallestSet
  <1>3. s # {}
    <2>1. SUFFICES ASSUME s = {} PROVE FALSE
      OBVIOUS
    <2>2. h[s] \in Int
      BY <2>1 DEF IsSum
    <2>3. h[s] \in Int /\ \A y \in s : h[s] = f[y] + h[s \ {y}]
      BY <2>1, <2>2
    <2> QED
      BY <2>3
  <1>4. PICK c : c = Taken(s)
    OBVIOUS
  <1>5. c \in s /\ c \in S /\ h[s] = f[c] + h[s \ {c}]
    BY <1>3, <1>4, RestIs DEF IsSum, Left
  <1>6. ASSUME NEW y \in s
        PROVE  h[s \ {y}] \in Int /\ \A z \in s \ {y} : h[s \ {y}] = f[z] + h[(s \ {y}) \ {z}]
    <2>1. s \ {y} \in SUBSET s /\ s \ {y} # s /\ s \ {y} \in SUBSET S
      OBVIOUS
    <2>2. s \ {y} \notin B
      BY <1>2, <2>1
    <2> QED
      BY <2>1, <2>2
  <1>7. h[s] \in Int
    <2>1. f[c] \in Int /\ h[s \ {c}] \in Int
      BY <1>5, <1>6
    <2> QED
      BY <1>5, <2>1
  <1>8. ASSUME NEW y \in s, y # c PROVE h[s] = f[y] + h[s \ {y}]
    <2>1. PICK r : r = (s \ {c}) \ {y}
      OBVIOUS
    <2>2. (s \ {y}) \ {c} = r
      BY <2>1
    <2>3. h[s \ {c}] = f[y] + h[r] /\ h[s \ {y}] = f[c] + h[r]
      BY <1>5, <1>6, <1>8, <2>1, <2>2
    <2>4. h[r] \in Int
      <3>1. r \in SUBSET s /\ r # s /\ r \in SUBSET S
        BY <1>5, <2>1
      <3>2. r \notin B
        BY <1>2, <3>1
      <3> QED
        BY <3>1, <3>2
    <2>5. PICK a, b, d : a = f[c] /\ b = f[y] /\ d = h[r]
      OBVIOUS
    <2>6. a \in Int /\ b \in Int /\ d \in Int
      BY <1>5, <2>4, <2>5
    <2>7. a + (b + d) = b + (a + d)
      BY <2>6
    <2> QED
      BY <1>5, <2>3, <2>5, <2>7
  <1> QED
    BY <1>5, <1>7, <1>8

(* One more element adds its number.                                       *)
LEMMA SumExtended ==
    ASSUME NEW S, IsFiniteSet(S), NEW x, x \notin S, NEW f \in [S -> Int],
           NEW g \in [S \cup {x} -> Int], \A i \in S : g[i] = f[i]
    PROVE  Sum(g) = Sum(f) + g[x]
  <1>1. IsFiniteSet(S \cup {x})
    BY FS_AddElement
  <1>2. PICK h : IsSum(f, S, h)
    BY SumIs
  <1>3. PICK T, k : T = S \cup {x} /\ IsSum(g, T, k)
    BY <1>1, SumIs
  <1>4. T \ {x} = S /\ x \in T /\ T \in SUBSET T /\ S \in SUBSET T /\ g \in [T -> Int]
    BY <1>3
  <1>5. k[S] \in Int /\ k[T] = g[x] + k[S]
    BY <1>1, <1>3, <1>4, AnyFirst
  <1> DEFINE G == {s \in SUBSET S : h[s] = k[s]}
  <1>6. {} \in G
    BY <1>2, <1>3 DEF IsSum
  <1>7. ASSUME NEW s \in SUBSET S, s # {}, Left(s) \in G PROVE s \in G
    <2>1. h[s] = f[Taken(s)] + h[Left(s)] /\ k[s] = g[Taken(s)] + k[Left(s)]
      BY <1>2, <1>3, <1>7 DEF IsSum
    <2>2. Taken(s) \in S
      BY <1>7, RestIs
    <2> QED
      BY <1>7, <2>1, <2>2
  <1>8. S \in G
    <2> HIDE DEF G
    <2> QED
      BY <1>6, <1>7, BySubsets
  <1>9. Sum(g) = k[T] /\ Sum(f) = h[S] /\ h[S] = k[S]
    BY <1>2, <1>3, <1>8 DEF IsSum
  <1>10. g[x] \in Int
    OBVIOUS
  <1> QED
    BY <1>5, <1>9, <1>10
=============================================================================
