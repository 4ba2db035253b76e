---------------------------- MODULE MemPoolProof ----------------------------
(***************************************************************************)
(* The memory pool keeps its books, for any threads, size classes, numbers *)
(* of pages and limits: every object is in one place, the counters of      *)
(* spans and lists are right, and callers get blocks nobody else holds.    *)
(***************************************************************************)
EXTENDS MemPool, FiniteSetTheorems, TLAPS

(* Cell a lies in block b.                                                 *)
In(b, a) == b[1] * PageCells <= a /\ a < (b[1] + b[2]) * PageCells

(* The objects that are not in their spans.                                *)
Placed ==
    {a \in Cells : \/ a \in user
                   \/ \E t \in Threads : a \in InFlight(t)
                   \/ \E t \in Threads, c \in Sizes : a \in cache[t][c]}

(* p is the first page of a span cut for class c.                          *)
Cut(p, c) == <<p, NumMovePage(c)>> \in alloc /\ m_nObjSize[p] = c

Fetching(t) == op[t].at \in {"fetch", "newspan", "link"}
Moving(t) == op[t].at \in {"link", "giveback"}

Typed ==
    /\ m_nObjSize \in [Pages -> Nat]
    /\ m_freeList \in [Pages -> SUBSET Cells]
    /\ m_nUseCount \in [Pages -> Int]
    /\ spanLists \in [Sizes -> SUBSET Pages]
    /\ lock \in [Sizes -> Threads \cup {Nobody}]
    /\ cache \in [Threads -> [Sizes -> SUBSET Cells]]
    /\ size \in [Threads -> [Sizes -> Int]]
    /\ maxSize \in [Threads -> [Sizes -> Nat]]
    /\ user \subseteq Cells
    /\ op \in [Threads -> Ops]
    /\ exiting \in [Threads -> BOOLEAN]

(* Blocks of pages do not overlap; each is cut for a class, or is large.   *)
BlocksApart ==
    /\ alloc \subseteq Pages \X (1 .. NumPages)
    /\ \A b \in alloc : b[1] + b[2] <= NumPages
    /\ \A b, c \in alloc : b # c => ~ PageCache!Overlap(b, c)
    /\ \A b \in alloc :
          \/ m_nObjSize[b[1]] \in Sizes /\ b[2] = NumMovePage(m_nObjSize[b[1]])
          \/ m_nObjSize[b[1]] > MAX_BYTES /\ m_nObjSize[b[1]] = b[2] * PageCells

(* Whatever left its span lies in a block, of the class it is filed under; *)
(* of a large block the only address in use is its first.                  *)
Filed ==
    /\ \A a \in Placed : BlockOf(a) \in alloc /\ In(BlockOf(a), a)
    /\ \A t \in Threads, c \in Sizes : \A a \in cache[t][c] : m_nObjSize[SpanOf(a)] = c
    /\ \A t \in Threads : \A a \in InFlight(t) : m_nObjSize[SpanOf(a)] = op[t].c
    /\ \A a \in user : m_nObjSize[SpanOf(a)] \in Sizes \/ a = SpanOf(a) * PageCells

(* Use counts are those of spans that are there.                           *)
Counted ==
    /\ AccountedFor
    /\ \A p \in Pages : m_nUseCount[p] # 0 => \E c \in Sizes : Cut(p, c)

(* A span is in the list of its class and in use, or in one call and not.  *)
Listed ==
    /\ \A c \in Sizes : \A p \in spanLists[c] : Cut(p, c) /\ m_nUseCount[p] > 0
    /\ \A t \in Threads : Moving(t) => Cut(op[t].s, op[t].c) /\ m_nUseCount[op[t].s] = 0
    /\ \A t, u \in Threads : t # u /\ Moving(t) /\ Moving(u) => op[t].s # op[u].s

(* What a call fetches fits into the list, which is empty until then.      *)
Limited ==
    /\ ListsWithinLimit
    /\ \A t \in Threads : Fetching(t) =>
          1 <= op[t].n /\ op[t].n < maxSize[t][op[t].c] /\ size[t][op[t].c] = 0

(* A step leaves the length of what callers keep.                          *)
SameLengths ==
    \A x \in user \cap user' : m_nObjSize'[SpanOf(x)'] = m_nObjSize[SpanOf(x)]

IInv == Typed /\ BlocksApart /\ Filed /\ Counted /\ OneOwner /\ Listed /\ Limited

-----------------------------------------------------------------------------
(* Blocks that do not overlap.                                             *)
Apart(A) ==
    /\ A \subseteq Pages \X (1 .. NumPages)
    /\ \A b, c \in A : b # c => ~ PageCache!Overlap(b, c)

(* The block of A that cell a lies in.                                     *)
Where(A, a) ==
    CHOOSE b \in A : b[1] * PageCells <= a /\ a < (b[1] + b[2]) * PageCells

(* Page numbers in order are addresses in order.                           *)
LEMMA Ordered ==
    ASSUME NEW x \in Int, NEW y \in Int
    PROVE  /\ x * PageCells \in Int
           /\ x <= y => x * PageCells <= y * PageCells
           /\ x < y => x * PageCells + PageCells <= y * PageCells
  <1>1. PageCells \in Nat /\ PageCells >= 1
    BY MemPoolAssumption
  <1>2. x <= y => x * PageCells <= y * PageCells
    BY <1>1
  <1>3. x < y => (x + 1) * PageCells <= y * PageCells
    BY <1>1
  <1>4. (x + 1) * PageCells = x * PageCells + PageCells
    BY <1>1
  <1> QED
    BY <1>1, <1>2, <1>3, <1>4

(* A cell is in one block only, and this is the block that is found.       *)
LEMMA FoundIn ==
    ASSUME NEW A, Apart(A), NEW b \in A, NEW a \in Int, In(b, a)
    PROVE  Where(A, a) = b
  <1>1. ASSUME NEW x \in A, x[1] * PageCells <= a, a < (x[1] + x[2]) * PageCells
        PROVE  x = b
    <2>1. /\ x[1] \in Int /\ x[2] \in Int
          /\ b[1] \in Int /\ b[2] \in Int
      BY MemPoolAssumption DEF Apart, Pages
    <2>2. x[1] + x[2] \in Int /\ b[1] + b[2] \in Int
      BY <2>1
    <2>3. b[1] * PageCells <= a /\ a < (b[1] + b[2]) * PageCells
      BY DEF In
    <2>4. x[1] < b[1] + b[2]
      <3>1. b[1] + b[2] <= x[1] => (b[1] + b[2]) * PageCells <= x[1] * PageCells
        BY <2>1, <2>2, Ordered
      <3>2. (b[1] + b[2]) * PageCells \in Int /\ x[1] * PageCells \in Int
        BY <2>1, <2>2, Ordered
      <3> QED
        BY <1>1, <2>1, <2>2, <2>3, <3>1, <3>2
    <2>5. b[1] < x[1] + x[2]
      <3>1. x[1] + x[2] <= b[1] => (x[1] + x[2]) * PageCells <= b[1] * PageCells
        BY <2>1, <2>2, Ordered
      <3>2. (x[1] + x[2]) * PageCells \in Int /\ b[1] * PageCells \in Int
        BY <2>1, <2>2, Ordered
      <3> QED
        BY <1>1, <2>1, <2>2, <2>3, <3>1, <3>2
    <2> QED
      BY <2>4, <2>5 DEF Apart, PageCache!Overlap
  <1> QED
    BY <1>1 DEF In, Where

(* The block of a cell, now and after a step.                              *)
LEMMA Found ==
    ASSUME Apart(alloc), NEW b \in alloc, NEW a \in Int, In(b, a)
    PROVE  BlockOf(a) = b /\ SpanOf(a) = b[1]
  <1>1. Where(alloc, a) = b
    BY FoundIn
  <1> QED
    BY <1>1 DEF Where, BlockOf, SpanOf

LEMMA FoundNext ==
    ASSUME Apart(alloc'), NEW b \in alloc', NEW a \in Int, In(b, a)
    PROVE  BlockOf(a)' = b /\ SpanOf(a)' = b[1]
  <1>1. Where(alloc', a) = b
    BY FoundIn
  <1> QED
    BY <1>1 DEF Where, BlockOf, SpanOf

(* Blocks that begin at the same page are the same.                        *)
LEMMA SameStart ==
    ASSUME NEW A, Apart(A), NEW b \in A, NEW c \in A, b[1] = c[1]
    PROVE  b = c
  BY MemPoolAssumption DEF Apart, PageCache!Overlap, Pages

(* What moves at once is one object or more, and needs one page or more.   *)
LEMMA MovesSome ==
    ASSUME NEW c \in Sizes
    PROVE  /\ c \in Nat /\ 1 <= c /\ c <= MAX_BYTES
           /\ NumMoveSize(c) \in Nat /\ NumMoveSize(c) >= 1
           /\ NumMovePage(c) \in Nat /\ NumMovePage(c) >= 1
  <1>1. c \in Nat /\ 1 <= c /\ c <= MAX_BYTES /\ MAX_BYTES \in Nat
    BY MemPoolAssumption
  <1>2. MAX_BYTES \div c \in Nat
    BY <1>1
  <1>3. NumMoveSize(c) \in Nat /\ NumMoveSize(c) >= 1
    BY <1>2, MemPoolAssumption DEF NumMoveSize, Lesser, Greater
  <1>4. NumMoveSize(c) * c \in Nat
    BY <1>1, <1>3
  <1>5. (NumMoveSize(c) * c) \div PageCells \in Nat
    BY <1>4, MemPoolAssumption
  <1>6. NumMovePage(c) \in Nat /\ NumMovePage(c) >= 1
    BY <1>5 DEF NumMovePage, Greater
  <1> QED
    BY <1>1, <1>3, <1>6

(* Cells are finitely many, and so is whatever consists of them.           *)
LEMMA CellsFinite ==
    ASSUME NEW S, S \subseteq Cells
    PROVE  IsFiniteSet(S) /\ Cardinality(S) \in Nat
  <1>1. NumPages * PageCells - 1 \in Int
    BY MemPoolAssumption
  <1>2. IsFiniteSet(Cells)
    BY <1>1, FS_Interval DEF Cells
  <1> QED
    BY <1>2, FS_Subset, FS_CardinalityType

(* What a call in progress remembers.                                      *)
LEMMA OpShape ==
    ASSUME op \in [Threads -> Ops], NEW t \in Threads
    PROVE  /\ op[t].at \in {"fetch", "newspan"} =>
                 /\ op[t].c \in Sizes /\ op[t].n \in Nat
                 /\ op[t] = [at |-> op[t].at, c |-> op[t].c, n |-> op[t].n]
           /\ op[t].at = "link" =>
                 op[t].c \in Sizes /\ op[t].n \in Nat /\ op[t].s \in Pages
           /\ op[t].at \in {"release", "put"} =>
                 /\ op[t].c \in Sizes /\ op[t].objs \subseteq Cells
                 /\ op[t] = [at |-> op[t].at, c |-> op[t].c, objs |-> op[t].objs]
           /\ op[t].at = "giveback" =>
                 op[t].c \in Sizes /\ op[t].objs \subseteq Cells /\ op[t].s \in Pages
           /\ op[t].at \notin {"fetch", "newspan", "link", "release", "put", "giveback"}
                 => op[t] = Idle
  <1>1. op[t] \in Ops
    OBVIOUS
  <1>2. CASE op[t] = Idle
    BY <1>2 DEF Idle
  <1>3. CASE op[t] \in [at : {"fetch", "newspan"}, c : Sizes, n : Nat]
    BY <1>3
  <1>4. CASE op[t] \in [at : {"link"}, c : Sizes, n : Nat, s : Pages]
    BY <1>4
  <1>5. CASE op[t] \in [at : {"release", "put"}, c : Sizes, objs : SUBSET Cells]
    BY <1>5
  <1>6. CASE op[t] \in [at : {"giveback"}, c : Sizes, objs : SUBSET Cells, s : Pages]
    BY <1>6
  <1> QED
    BY <1>1, <1>2, <1>3, <1>4, <1>5, <1>6 DEF Ops

-----------------------------------------------------------------------------
(* Blocks that stay, and what was said of them.                            *)
LEMMA SameBlocks ==
    ASSUME alloc' = alloc, NEW a
    PROVE  BlockOf(a)' = BlockOf(a) /\ SpanOf(a)' = SpanOf(a)
  BY DEF BlockOf, SpanOf

LEMMA ApartNow == BlocksApart => Apart(alloc)
  BY DEF BlocksApart, Apart

LEMMA ApartNext == BlocksApart' => Apart(alloc')
  BY DEF BlocksApart, Apart

(* The objects away from span p are the ones placed that lie in it.        *)
LEMMA AwayPlaced ==
    ASSUME NEW p
    PROVE  Away(p) = {a \in Placed : SpanOf(a) = p}
  BY DEF Away, Placed

LEMMA AwayPlacedNext ==
    ASSUME NEW p
    PROVE  Away(p)' = {a \in Placed' : SpanOf(a)' = p}
  BY DEF Away, Placed

(* Everything that is held somewhere is a cell.                            *)
LEMMA HeldPlaced ==
    ASSUME Typed
    PROVE  /\ user \subseteq Placed
           /\ \A t \in Threads : InFlight(t) \subseteq Placed
           /\ \A t \in Threads, c \in Sizes : cache[t][c] \subseteq Placed
           /\ Placed \subseteq Cells
  <1>1. \A t \in Threads : InFlight(t) \subseteq Cells
    BY OpShape DEF Typed, InFlight
  <1>2. \A t \in Threads, c \in Sizes : cache[t][c] \subseteq Cells
    BY DEF Typed
  <1> QED
    BY <1>1, <1>2 DEF Typed, Placed

LEMMA HeldPlacedNext ==
    ASSUME Typed'
    PROVE  /\ user' \subseteq Placed'
           /\ \A t \in Threads : InFlight(t)' \subseteq Placed'
           /\ \A t \in Threads, c \in Sizes : cache'[t][c] \subseteq Placed'
           /\ Placed' \subseteq Cells
  <1>1. \A t \in Threads : InFlight(t)' \subseteq Cells
    <2> SUFFICES ASSUME NEW t \in Threads PROVE InFlight(t)' \subseteq Cells
      OBVIOUS
    <2>1. op'[t] \in Ops
      BY DEF Typed
    <2> QED
      BY <2>1 DEF InFlight, Ops, Idle
  <1>2. \A t \in Threads, c \in Sizes : cache'[t][c] \subseteq Cells
    BY DEF Typed
  <1> QED
    BY <1>1, <1>2 DEF Typed, Placed

(* A step of thread t that moves objects of class c.                       *)
Changes(t, c) ==
    /\ \A u \in Threads : u # t => op'[u] = op[u] /\ cache'[u] = cache[u]
    /\ \A d \in Sizes : d # c => cache'[t][d] = cache[t][d]

(* What t can take from or give to.                                        *)
Mine(t, c) == user \cup InFlight(t) \cup cache[t][c]

LEMMA OthersInFlight ==
    ASSUME NEW t, NEW c, Changes(t, c), NEW u \in Threads, u # t
    PROVE  InFlight(u)' = InFlight(u)
  BY DEF Changes, InFlight

(* When t deals what it has, and objects that nobody had, to the caller,   *)
(* its call and one list, each object still has one owner.                 *)
LEMMA Exchange ==
    ASSUME Typed, OneOwner, NEW t \in Threads, NEW c \in Sizes, Changes(t, c),
           NEW N, N \cap Placed = {},
           user' \subseteq Mine(t, c) \cup N,
           InFlight(t)' \subseteq Mine(t, c) \cup N,
           cache'[t][c] \subseteq Mine(t, c) \cup N,
           user' \cap InFlight(t)' = {},
           user' \cap cache'[t][c] = {},
           InFlight(t)' \cap cache'[t][c] = {}
    PROVE  OneOwner'
  <1> DEFINE M == Mine(t, c) \cup N
  <1>1. \A u \in Threads : u # t => M \cap InFlight(u) = {}
    <2> SUFFICES ASSUME NEW u \in Threads, u # t PROVE M \cap InFlight(u) = {}
      OBVIOUS
    <2>1. InFlight(u) \subseteq Placed
      BY HeldPlaced
    <2> QED
      BY <2>1 DEF OneOwner, Mine
  <1>2. \A u \in Threads, d \in Sizes : <<u, d>> # <<t, c>> => M \cap cache[u][d] = {}
    <2> SUFFICES ASSUME NEW u \in Threads, NEW d \in Sizes, <<u, d>> # <<t, c>>
                 PROVE  M \cap cache[u][d] = {}
      OBVIOUS
    <2>1. cache[u][d] \subseteq Placed
      BY HeldPlaced
    <2>2. cache[t][c] \cap cache[u][d] = {} /\ InFlight(t) \cap cache[u][d] = {}
          /\ user \cap cache[u][d] = {}
      BY DEF OneOwner
    <2> QED
      BY <2>1, <2>2 DEF Mine
  <1>3. \A u \in Threads : u # t => InFlight(u)' = InFlight(u)
    BY OthersInFlight
  <1>4. \A u \in Threads, d \in Sizes : <<u, d>> # <<t, c>> => cache'[u][d] = cache[u][d]
    BY DEF Changes
  <1>5. user' \subseteq M /\ InFlight(t)' \subseteq M /\ cache'[t][c] \subseteq M
    OBVIOUS
  <1> HIDE DEF M
  <1>6. \A u \in Threads : InFlight(u)' \cap user' = {}
    BY <1>1, <1>3, <1>5
  <1>7. \A u \in Threads, d \in Sizes : cache'[u][d] \cap user' = {}
    BY <1>2, <1>4, <1>5
  <1>8. \A u, v \in Threads : u # v => InFlight(u)' \cap InFlight(v)' = {}
    BY <1>1, <1>3, <1>5 DEF OneOwner
  <1>9. \A u \in Threads, d \in Sizes : \A v \in Threads : cache'[u][d] \cap InFlight(v)' = {}
    <2> SUFFICES ASSUME NEW u \in Threads, NEW d \in Sizes, NEW v \in Threads
                 PROVE  cache'[u][d] \cap InFlight(v)' = {}
      OBVIOUS
    <2>1. CASE u = t /\ d = c
      BY <2>1, <1>1, <1>3, <1>5
    <2>2. CASE <<u, d>> # <<t, c>> /\ v = t
      BY <2>2, <1>2, <1>4, <1>5
    <2>3. CASE <<u, d>> # <<t, c>> /\ v # t
      BY <2>3, <1>3, <1>4 DEF OneOwner
    <2> QED
      BY <2>1, <2>2, <2>3
  <1>10. \A u \in Threads, d \in Sizes : \A v \in Threads, e \in Sizes :
            <<u, d>> # <<v, e>> => cache'[u][d] \cap cache'[v][e] = {}
    <2> SUFFICES ASSUME NEW u \in Threads, NEW d \in Sizes, NEW v \in Threads, NEW e \in Sizes,
                        <<u, d>> # <<v, e>>
                 PROVE  cache'[u][d] \cap cache'[v][e] = {}
      OBVIOUS
    <2>1. CASE u = t /\ d = c
      BY <2>1, <1>2, <1>4, <1>5
    <2>2. CASE v = t /\ e = c
      BY <2>2, <1>2, <1>4, <1>5
    <2>3. CASE <<u, d>> # <<t, c>> /\ <<v, e>> # <<t, c>>
      BY <2>3, <1>4 DEF OneOwner
    <2> QED
      BY <2>1, <2>2, <2>3
  <1> QED
    BY <1>6, <1>7, <1>8, <1>9, <1>10 DEF OneOwner

(* What leaves or reaches the hands of t and its caller is all that moves. *)
LEMMA PlacedMoved ==
    ASSUME Typed, Typed', NEW t \in Threads, NEW c \in Sizes, Changes(t, c),
           NEW N, user' \cup InFlight(t)' \cup cache'[t][c] = Mine(t, c) \cup N
    PROVE  Placed' = Placed \cup N
  <1>1. \A u \in Threads : u # t => InFlight(u)' = InFlight(u)
    BY OthersInFlight
  <1>2. \A u \in Threads, d \in Sizes : <<u, d>> # <<t, c>> => cache'[u][d] = cache[u][d]
    BY DEF Changes
  <1>3. N \subseteq Cells
    BY HeldPlacedNext
  <1>4. ASSUME NEW a \in Placed' PROVE a \in Placed \cup N
    <2>1. CASE a \in user'
      BY <2>1, HeldPlaced DEF Mine
    <2>2. ASSUME NEW u \in Threads, a \in InFlight(u)' PROVE a \in Placed \cup N
      BY <2>2, <1>1, HeldPlaced DEF Mine
    <2>3. ASSUME NEW u \in Threads, NEW d \in Sizes, a \in cache'[u][d] PROVE a \in Placed \cup N
      <3>1. CASE u = t /\ d = c
        BY <2>3, <3>1, HeldPlaced DEF Mine
      <3>2. CASE <<u, d>> # <<t, c>>
        BY <2>3, <3>2, <1>2, HeldPlaced
      <3> QED
        BY <3>1, <3>2
    <2> QED
      BY <1>4, <2>1, <2>2, <2>3 DEF Placed
  <1>5. ASSUME NEW a \in Placed \cup N PROVE a \in Placed'
    <2>1. CASE a \in Mine(t, c) \cup N
      BY <2>1, HeldPlacedNext
    <2>2. ASSUME a \notin Mine(t, c), NEW u \in Threads, a \in InFlight(u) PROVE a \in Placed'
      BY <2>2, <1>1, HeldPlacedNext DEF Mine
    <2>3. ASSUME a \notin Mine(t, c), NEW u \in Threads, NEW d \in Sizes, a \in cache[u][d]
          PROVE  a \in Placed'
      BY <2>3, <1>2, HeldPlacedNext DEF Mine
    <2> QED
      BY <1>5, <2>1, <2>2, <2>3 DEF Placed, Mine
  <1> QED
    BY <1>4, <1>5

(* An object that t or its caller gives up is nowhere.                     *)
LEMMA PlacedDropped ==
    ASSUME Typed, Typed', OneOwner, NEW t \in Threads, NEW c \in Sizes, Changes(t, c),
           NEW a \in Mine(t, c),
           user' \cup InFlight(t)' \cup cache'[t][c] = Mine(t, c) \ {a}
    PROVE  Placed' = Placed \ {a}
  <1>1. \A u \in Threads : u # t => InFlight(u)' = InFlight(u)
    BY OthersInFlight
  <1>2. \A u \in Threads, d \in Sizes : <<u, d>> # <<t, c>> => cache'[u][d] = cache[u][d]
    BY DEF Changes
  <1>3. \A u \in Threads : u # t => a \notin InFlight(u)
    BY DEF OneOwner, Mine
  <1>4. \A u \in Threads, d \in Sizes : <<u, d>> # <<t, c>> => a \notin cache[u][d]
    BY DEF OneOwner, Mine
  <1>5. ASSUME NEW x \in Placed' PROVE x \in Placed /\ x # a
    <2>1. CASE x \in user'
      BY <2>1, HeldPlaced DEF Mine
    <2>2. ASSUME NEW u \in Threads, x \in InFlight(u)' PROVE x \in Placed /\ x # a
      BY <2>2, <1>1, <1>3, HeldPlaced DEF Mine
    <2>3. ASSUME NEW u \in Threads, NEW d \in Sizes, x \in cache'[u][d] PROVE x \in Placed /\ x # a
      <3>1. CASE u = t /\ d = c
        BY <2>3, <3>1, HeldPlaced DEF Mine
      <3>2. CASE <<u, d>> # <<t, c>>
        BY <2>3, <3>2, <1>2, <1>4, HeldPlaced
      <3> QED
        BY <3>1, <3>2
    <2> QED
      BY <1>5, <2>1, <2>2, <2>3 DEF Placed
  <1>6. ASSUME NEW x \in Placed, x # a PROVE x \in Placed'
    <2>1. CASE x \in Mine(t, c)
      BY <1>6, <2>1, HeldPlacedNext
    <2>2. ASSUME x \notin Mine(t, c), NEW u \in Threads, x \in InFlight(u) PROVE x \in Placed'
      BY <2>2, <1>1, HeldPlacedNext DEF Mine
    <2>3. ASSUME x \notin Mine(t, c), NEW u \in Threads, NEW d \in Sizes, x \in cache[u][d]
          PROVE  x \in Placed'
      BY <2>3, <1>2, HeldPlacedNext DEF Mine
    <2> QED
      BY <1>6, <2>1, <2>2, <2>3 DEF Placed, Mine
  <1> QED
    BY <1>5, <1>6

(* The spans as they were, and the same objects away from them.            *)
LEMMA CountedKept ==
    ASSUME Counted, UNCHANGED <<alloc, m_nObjSize, m_freeList, m_nUseCount>>, Placed' = Placed
    PROVE  Counted'
  <1>1. \A p : Away(p)' = Away(p)
    BY SameBlocks, AwayPlaced, AwayPlacedNext
  <1>2. SmallBlocks' = SmallBlocks
    BY DEF SmallBlocks
  <1>3. \A p, n, c : Carve(p, n, c)' = Carve(p, n, c)
    BY DEF Carve, Cells
  <1>4. AccountedFor'
    BY <1>1, <1>2, <1>3 DEF Counted, AccountedFor
  <1>5. \A p, c : Cut(p, c)' = Cut(p, c)
    BY DEF Cut, NumMovePage, NumMoveSize
  <1> QED
    BY <1>4, <1>5 DEF Counted

(* Filing what t has now, the blocks being the same.                       *)
LEMMA FiledKept ==
    ASSUME Typed, Filed, NEW t \in Threads, NEW c \in Sizes, Changes(t, c),
           UNCHANGED <<alloc, m_nObjSize>>,
           \A a \in Placed' : BlockOf(a) \in alloc /\ In(BlockOf(a), a),
           \A a \in cache'[t][c] : m_nObjSize[SpanOf(a)] = c,
           \A a \in InFlight(t)' : m_nObjSize[SpanOf(a)] = op'[t].c,
           \A a \in user' : a \in user \/ m_nObjSize[SpanOf(a)] \in Sizes
    PROVE  Filed'
  <1>1. \A a : BlockOf(a)' = BlockOf(a) /\ SpanOf(a)' = SpanOf(a)
    BY SameBlocks
  <1>2. \A a \in Placed' : BlockOf(a)' \in alloc' /\ In(BlockOf(a), a)'
    BY <1>1 DEF In
  <1>3. \A u \in Threads, d \in Sizes : \A a \in cache'[u][d] : m_nObjSize'[SpanOf(a)'] = d
    BY <1>1 DEF Changes, Filed
  <1>4. \A u \in Threads : \A a \in InFlight(u)' : m_nObjSize'[SpanOf(a)'] = op'[u].c
    <2> SUFFICES ASSUME NEW u \in Threads, NEW a \in InFlight(u)'
                 PROVE  m_nObjSize'[SpanOf(a)'] = op'[u].c
      OBVIOUS
    <2>1. CASE u = t
      BY <1>1, <2>1
    <2>2. CASE u # t
      <3>1. a \in InFlight(u)
        BY <2>2, OthersInFlight
      <3>2. m_nObjSize[SpanOf(a)] = op[u].c
        BY <3>1 DEF Filed
      <3>3. op'[u] = op[u]
        BY <2>2 DEF Changes
      <3>4. SpanOf(a)' = SpanOf(a) /\ m_nObjSize' = m_nObjSize
        BY <1>1
      <3> QED
        BY <3>2, <3>3, <3>4
    <2> QED
      BY <2>1, <2>2
  <1>5. \A a \in user' : m_nObjSize'[SpanOf(a)'] \in Sizes \/ a = SpanOf(a)' * PageCells
    BY <1>1 DEF Filed
  <1> QED
    BY <1>2, <1>3, <1>4, <1>5 DEF Filed

(* Lists of spans and spans in transit, when t has none in transit.        *)
LEMMA ListedKept ==
    ASSUME Listed, NEW t \in Threads, UNCHANGED <<alloc, m_nObjSize, m_nUseCount, spanLists>>,
           \A u \in Threads : u # t => op'[u] = op[u],
           op'[t].at \notin {"link", "giveback"}
    PROVE  Listed'
  <1>1. \A p, c : Cut(p, c)' = Cut(p, c)
    BY DEF Cut, NumMovePage, NumMoveSize
  <1>2. \A u \in Threads : Moving(u)' => u # t /\ Moving(u)
    BY DEF Moving
  <1> QED
    BY <1>1, <1>2 DEF Listed

(* Lists and limits, when those of t are in order.                         *)
LEMMA LimitedKept ==
    ASSUME Limited, NEW t \in Threads,
           \A u \in Threads : u # t =>
              op'[u] = op[u] /\ cache'[u] = cache[u] /\ size'[u] = size[u] /\ maxSize'[u] = maxSize[u],
           \A d \in Sizes : /\ size'[t][d] = Cardinality(cache'[t][d])
                            /\ size'[t][d] < maxSize'[t][d],
           Fetching(t)' => /\ 1 <= op'[t].n /\ op'[t].n < maxSize'[t][op'[t].c]
                           /\ size'[t][op'[t].c] = 0
    PROVE  Limited'
  <1>1. ListsWithinLimit'
    BY DEF Limited, ListsWithinLimit
  <1>2. \A u \in Threads : Fetching(u)' =>
           1 <= op'[u].n /\ op'[u].n < maxSize'[u][op'[u].c] /\ size'[u][op'[u].c] = 0
    BY DEF Limited, Fetching
  <1> QED
    BY <1>1, <1>2 DEF Limited

(* A thread whose class changes keeps the other lists as they were.        *)
LEMMA OtherLists ==
    ASSUME Limited, NEW t \in Threads, NEW c \in Sizes,
           \A d \in Sizes : d # c =>
              /\ cache'[t][d] = cache[t][d] /\ size'[t][d] = size[t][d]
              /\ maxSize'[t][d] = maxSize[t][d],
           size'[t][c] = Cardinality(cache'[t][c]), size'[t][c] < maxSize'[t][c]
    PROVE  \A d \in Sizes : /\ size'[t][d] = Cardinality(cache'[t][d])
                            /\ size'[t][d] < maxSize'[t][d]
  BY DEF Limited, ListsWithinLimit

-----------------------------------------------------------------------------
(* The places a call can be at.                                            *)
LEMMA OpForms ==
    /\ Idle \in Ops
    /\ \A c \in Sizes, n \in Nat :
          /\ [at |-> "fetch", c |-> c, n |-> n] \in Ops
          /\ [at |-> "newspan", c |-> c, n |-> n] \in Ops
          /\ \A s \in Pages : [at |-> "link", c |-> c, n |-> n, s |-> s] \in Ops
    /\ \A c \in Sizes, objs \in SUBSET Cells :
          /\ [at |-> "release", c |-> c, objs |-> objs] \in Ops
          /\ [at |-> "put", c |-> c, objs |-> objs] \in Ops
          /\ \A s \in Pages : [at |-> "giveback", c |-> c, objs |-> objs, s |-> s] \in Ops
  BY DEF Ops

(* Thread t goes on at o.                                                  *)
LEMMA Goes ==
    ASSUME op \in [Threads -> Ops], NEW t \in Threads, NEW o \in Ops,
           op' = [op EXCEPT ![t] = o]
    PROVE  /\ op' \in [Threads -> Ops]
           /\ op'[t] = o
           /\ \A u \in Threads : u # t => op'[u] = op[u]
  OBVIOUS

(* A call that goes on elsewhere with what it remembers.                   *)
LEMMA GoesOn ==
    ASSUME op \in [Threads -> Ops], NEW t \in Threads, NEW place,
           op' = [op EXCEPT ![t].at = place]
    PROVE  /\ op[t].at \in {"fetch", "newspan"} =>
                 op' = [op EXCEPT ![t] = [at |-> place, c |-> op[t].c, n |-> op[t].n]]
           /\ op[t].at \in {"release", "put"} =>
                 op' = [op EXCEPT ![t] = [at |-> place, c |-> op[t].c, objs |-> op[t].objs]]
  <1>1. op' = [op EXCEPT ![t] = [op[t] EXCEPT !.at = place]]
    OBVIOUS
  <1>2. ASSUME NEW x, NEW c, NEW n, x = [at |-> x.at, c |-> c, n |-> n]
        PROVE  [x EXCEPT !.at = place] = [at |-> place, c |-> c, n |-> n]
    BY <1>2
  <1>3. ASSUME NEW x, NEW c, NEW n, x = [at |-> x.at, c |-> c, objs |-> n]
        PROVE  [x EXCEPT !.at = place] = [at |-> place, c |-> c, objs |-> n]
    BY <1>3
  <1>4. op[t].at \in {"fetch", "newspan"} =>
           [op[t] EXCEPT !.at = place] = [at |-> place, c |-> op[t].c, n |-> op[t].n]
    BY <1>2, OpShape
  <1>5. op[t].at \in {"release", "put"} =>
           [op[t] EXCEPT !.at = place] = [at |-> place, c |-> op[t].c, objs |-> op[t].objs]
    BY <1>3, OpShape
  <1> QED
    BY <1>1, <1>4, <1>5

(* One entry of a table of tables.                                         *)
LEMMA Entry ==
    ASSUME NEW S, NEW f, f \in [Threads -> [Sizes -> S]], NEW g,
           NEW t \in Threads, NEW c \in Sizes, NEW v \in S,
           g = [f EXCEPT ![t][c] = v]
    PROVE  /\ g \in [Threads -> [Sizes -> S]]
           /\ g[t][c] = v
           /\ \A u \in Threads : u # t => g[u] = f[u]
           /\ \A d \in Sizes : d # c => g[t][d] = f[t][d]
  OBVIOUS

(* Moving objects between the caller, the call and one list of t, nothing  *)
(* else being touched.                                                     *)
LEMMA Shuffle ==
    ASSUME IInv, Typed', NEW t \in Threads, NEW c \in Sizes, Changes(t, c),
           UNCHANGED <<alloc, m_nObjSize, m_freeList, m_nUseCount>>,
           user' \cup InFlight(t)' \cup cache'[t][c] = Mine(t, c),
           user' \cap InFlight(t)' = {},
           user' \cap cache'[t][c] = {},
           InFlight(t)' \cap cache'[t][c] = {},
           \A a \in cache'[t][c] : m_nObjSize[SpanOf(a)] = c,
           \A a \in InFlight(t)' : m_nObjSize[SpanOf(a)] = op'[t].c,
           \A a \in user' : a \in user \/ m_nObjSize[SpanOf(a)] \in Sizes
    PROVE  BlocksApart' /\ Counted' /\ OneOwner' /\ Filed'
  <1>1. Typed /\ BlocksApart /\ Filed /\ Counted /\ OneOwner
    BY DEF IInv
  <1>2. user' \cup InFlight(t)' \cup cache'[t][c] = Mine(t, c) \cup {}
    OBVIOUS
  <1>3. Placed' = Placed
    <2>1. Placed' = Placed \cup {}
      BY <1>1, <1>2, PlacedMoved
    <2> QED
      BY <2>1
  <1>4. BlocksApart' /\ Counted'
    BY <1>1, <1>3, CountedKept DEF BlocksApart, NumMovePage, NumMoveSize
  <1>5. OneOwner'
    <2>1. {} \cap Placed = {}
      OBVIOUS
    <2>2. /\ user' \subseteq Mine(t, c) \cup {}
          /\ InFlight(t)' \subseteq Mine(t, c) \cup {}
          /\ cache'[t][c] \subseteq Mine(t, c) \cup {}
      BY <1>2
    <2> QED
      BY <1>1, <2>1, <2>2, Exchange
  <1>6. \A a \in Placed' : BlockOf(a) \in alloc /\ In(BlockOf(a), a)
    BY <1>1, <1>3 DEF Filed
  <1>7. Filed'
    BY <1>1, <1>6, FiledKept
  <1> QED
    BY <1>4, <1>5, <1>7

(* Nothing is touched.                                                     *)
LEMMA Untouched ==
    ASSUME IInv, Typed', UNCHANGED <<alloc, m_nObjSize, spans, cache, user>>,
           \A t \in Threads : InFlight(t)' = InFlight(t) /\ (op'[t] = op[t] \/ InFlight(t) = {})
    PROVE  BlocksApart' /\ Counted' /\ OneOwner' /\ Filed'
  <1>1. Typed /\ BlocksApart /\ Filed /\ Counted /\ OneOwner
    BY DEF IInv
  <1>2. Placed' = Placed
    BY DEF Placed, Cells
  <1>3. BlocksApart' /\ Counted'
    BY <1>1, <1>2, CountedKept DEF BlocksApart, NumMovePage, NumMoveSize, spans
  <1>4. OneOwner'
    BY <1>1 DEF OneOwner
  <1>5. \A a : BlockOf(a)' = BlockOf(a) /\ SpanOf(a)' = SpanOf(a)
    BY SameBlocks
  <1>6. \A a \in Placed' : BlockOf(a)' \in alloc' /\ In(BlockOf(a), a)'
    BY <1>1, <1>2, <1>5 DEF In, Filed
  <1>7. \A u \in Threads : \A a \in InFlight(u)' : m_nObjSize'[SpanOf(a)'] = op'[u].c
    BY <1>1, <1>5 DEF Filed
  <1>8. \A u \in Threads, c \in Sizes : \A a \in cache'[u][c] : m_nObjSize'[SpanOf(a)'] = c
    BY <1>1, <1>5 DEF Filed
  <1>9. \A a \in user' : m_nObjSize'[SpanOf(a)'] \in Sizes \/ a = SpanOf(a)' * PageCells
    BY <1>1, <1>5 DEF Filed
  <1>10. Filed'
    BY <1>6, <1>7, <1>8, <1>9 DEF Filed
  <1> QED
    BY <1>3, <1>4, <1>10

(* Allocate from the thread's own list.                                    *)
LEMMA AllocateCachedIInv ==
    ASSUME IInv, NEW t \in Threads, NEW c \in Sizes, AllocateCached(t, c)
    PROVE  IInv'
  <1>1. PICK a \in cache[t][c] :
           /\ cache' = [cache EXCEPT ![t][c] = @ \ {a}]
           /\ user' = user \cup {a}
    BY DEF AllocateCached
  <1>2. /\ op[t] = Idle /\ op' = op /\ size[t][c] # 0
        /\ size' = [size EXCEPT ![t][c] = @ - 1]
        /\ UNCHANGED <<alloc, m_nObjSize, m_freeList, m_nUseCount, spanLists>>
        /\ UNCHANGED <<lock, maxSize, exiting>>
    BY DEF AllocateCached, spans
  <1>3. Typed /\ Filed /\ Counted /\ OneOwner /\ Listed /\ Limited
    BY DEF IInv
  <1>4. /\ cache' = [cache EXCEPT ![t][c] = cache[t][c] \ {a}]
        /\ size' = [size EXCEPT ![t][c] = size[t][c] - 1]
    BY <1>1, <1>2
  <1>5. /\ cache[t][c] \in SUBSET Cells /\ size[t][c] \in Int
        /\ cache[t][c] \ {a} \in SUBSET Cells /\ size[t][c] - 1 \in Int
        /\ cache \in [Threads -> [Sizes -> SUBSET Cells]]
        /\ size \in [Threads -> [Sizes -> Int]]
    BY <1>3 DEF Typed
  <1>6. /\ cache' \in [Threads -> [Sizes -> SUBSET Cells]]
        /\ cache'[t][c] = cache[t][c] \ {a}
        /\ \A u \in Threads : u # t => cache'[u] = cache[u]
        /\ \A d \in Sizes : d # c => cache'[t][d] = cache[t][d]
    BY <1>4, <1>5, Entry
  <1>7. /\ size' \in [Threads -> [Sizes -> Int]]
        /\ size'[t][c] = size[t][c] - 1
        /\ \A u \in Threads : u # t => size'[u] = size[u]
        /\ \A d \in Sizes : d # c => size'[t][d] = size[t][d]
    BY <1>4, <1>5, Entry
  <1>8. Typed'
    BY <1>1, <1>2, <1>3, <1>5, <1>6, <1>7 DEF Typed
  <1>9. Changes(t, c)
    BY <1>2, <1>6 DEF Changes
  <1>10. InFlight(t) = {} /\ InFlight(t)' = {}
    BY <1>2 DEF InFlight, Idle
  <1>11. BlocksApart' /\ Counted' /\ OneOwner' /\ Filed'
    <2>1. user' \cup InFlight(t)' \cup cache'[t][c] = Mine(t, c)
      BY <1>1, <1>6, <1>10 DEF Mine
    <2>2. user' \cap cache'[t][c] = {}
      BY <1>1, <1>3, <1>6 DEF OneOwner
    <2>3. \A x \in cache[t][c] : m_nObjSize[SpanOf(x)] = c
      BY <1>3 DEF Filed
    <2>4. \A x \in user' : x \in user \/ m_nObjSize[SpanOf(x)] \in Sizes
      BY <1>1, <2>3
    <2>5. \A x \in cache'[t][c] : m_nObjSize[SpanOf(x)] = c
      BY <1>6, <2>3
    <2> QED
      BY <1>2, <1>8, <1>9, <1>10, <2>1, <2>2, <2>4, <2>5, Shuffle
  <1>12. Listed'
    BY <1>2, <1>3, ListedKept DEF Idle
  <1>13. Limited'
    <2>1. size[t][c] = Cardinality(cache[t][c]) /\ size[t][c] < maxSize[t][c]
      BY <1>3 DEF Limited, ListsWithinLimit
    <2>2. IsFiniteSet(cache[t][c])
      BY <1>5, CellsFinite
    <2>3. Cardinality(cache[t][c] \ {a}) = Cardinality(cache[t][c]) - 1
      BY <2>2, FS_RemoveElement
    <2>4. maxSize[t][c] \in Int
      BY <1>3 DEF Typed
    <2>5. size'[t][c] = Cardinality(cache'[t][c]) /\ size'[t][c] < maxSize'[t][c]
      BY <1>2, <1>5, <1>6, <1>7, <2>1, <2>3, <2>4
    <2>6. ~ Fetching(t)'
      BY <1>2 DEF Fetching, Idle
    <2>7. \A d \in Sizes : d # c =>
              /\ cache'[t][d] = cache[t][d] /\ size'[t][d] = size[t][d]
              /\ maxSize'[t][d] = maxSize[t][d]
      BY <1>2, <1>6, <1>7
    <2>8. \A d \in Sizes : size'[t][d] = Cardinality(cache'[t][d]) /\ size'[t][d] < maxSize'[t][d]
      BY <1>3, <2>5, <2>7, OtherLists
    <2> QED
      BY <1>2, <1>3, <1>6, <1>7, <2>6, <2>8, LimitedKept
  <1> QED
    BY <1>8, <1>11, <1>12, <1>13 DEF IInv

(* A list at rest has room: a thread that finds its list empty asks for    *)
(* fewer objects than the list may hold by the time they arrive.           *)
LEMMA AllocateMissIInv ==
    ASSUME IInv, NEW t \in Threads, NEW c \in Sizes, AllocateMiss(t, c)
    PROVE  IInv'
  <1> DEFINE n == Lesser(maxSize[t][c], NumMoveSize(c))
             o == [at |-> "fetch", c |-> c, n |-> n]
             m == IF n = maxSize[t][c] THEN maxSize[t][c] + 1 ELSE maxSize[t][c]
  <1>1. /\ op[t] = Idle /\ size[t][c] = 0
        /\ op' = [op EXCEPT ![t] = o]
        /\ maxSize' = [maxSize EXCEPT ![t][c] = m]
        /\ UNCHANGED <<alloc, m_nObjSize, m_freeList, m_nUseCount, spanLists>>
        /\ UNCHANGED <<lock, cache, size, user, exiting>>
    BY DEF AllocateMiss, spans
  <1>2. Typed /\ Filed /\ Listed /\ Limited
    BY DEF IInv
  <1>3. /\ maxSize[t][c] \in Nat /\ maxSize \in [Threads -> [Sizes -> Nat]]
        /\ op \in [Threads -> Ops]
    BY <1>2 DEF Typed
  <1>4. maxSize[t][c] >= 1
    <2>1. size[t][c] < maxSize[t][c]
      BY <1>2 DEF Limited, ListsWithinLimit
    <2> QED
      BY <1>1, <1>3, <2>1
  <1>5. NumMoveSize(c) \in Nat /\ NumMoveSize(c) >= 1
    BY MovesSome
  <1>6. n \in Nat /\ 1 <= n /\ m \in Nat /\ n < m
    <2> DEFINE x == maxSize[t][c]
               y == NumMoveSize(c)
    <2>1. x \in Nat /\ x >= 1 /\ y \in Nat /\ y >= 1
      BY <1>3, <1>4, <1>5
    <2>2. n = (IF x < y THEN x ELSE y) /\ m = (IF n = x THEN x + 1 ELSE x)
      BY DEF Lesser
    <2> HIDE DEF x, y, n, m
    <2> QED
      BY <2>1, <2>2
  <1> HIDE DEF n, m
  <1>7. o \in Ops
    BY <1>6, OpForms
  <1>8. /\ op' \in [Threads -> Ops] /\ op'[t] = o
        /\ \A u \in Threads : u # t => op'[u] = op[u]
    BY <1>1, <1>3, <1>7, Goes
  <1>9. /\ maxSize' \in [Threads -> [Sizes -> Nat]]
        /\ maxSize'[t][c] = m
        /\ \A u \in Threads : u # t => maxSize'[u] = maxSize[u]
        /\ \A d \in Sizes : d # c => maxSize'[t][d] = maxSize[t][d]
    BY <1>1, <1>3, <1>6, Entry
  <1>10. Typed'
    BY <1>1, <1>2, <1>8, <1>9 DEF Typed
  <1>11. BlocksApart' /\ Counted' /\ OneOwner' /\ Filed'
    <2>1. InFlight(t) = {} /\ InFlight(t)' = {}
      BY <1>1, <1>8 DEF InFlight, Idle
    <2>2. \A u \in Threads : InFlight(u)' = InFlight(u) /\ (op'[u] = op[u] \/ InFlight(u) = {})
      BY <1>8, <2>1 DEF InFlight
    <2> QED
      BY <1>1, <1>10, <2>2, Untouched DEF spans
  <1>12. Listed'
    BY <1>1, <1>2, <1>8, ListedKept
  <1>13. Limited'
    <2>1. size'[t][c] = Cardinality(cache'[t][c]) /\ size'[t][c] < maxSize'[t][c]
      <3>1. size[t][c] = Cardinality(cache[t][c])
        BY <1>2 DEF Limited, ListsWithinLimit
      <3>2. 0 < m
        BY <1>6
      <3> QED
        BY <1>1, <1>9, <3>1, <3>2
    <2>2. 1 <= op'[t].n /\ op'[t].n < maxSize'[t][op'[t].c] /\ size'[t][op'[t].c] = 0
      BY <1>1, <1>6, <1>8, <1>9
    <2>3. \A d \in Sizes : size'[t][d] = Cardinality(cache'[t][d]) /\ size'[t][d] < maxSize'[t][d]
      BY <1>1, <1>2, <1>9, <2>1, OtherLists
    <2> QED
      BY <1>1, <1>2, <1>8, <1>9, <2>2, <2>3, LimitedKept
  <1> QED
    BY <1>10, <1>11, <1>12, <1>13 DEF IInv

(* A thread whose lists stay as they are.                                  *)
LEMMA SameLists ==
    ASSUME Limited, NEW t \in Threads, UNCHANGED caches,
           \A u \in Threads : u # t => op'[u] = op[u],
           Fetching(t)' => Fetching(t) /\ op'[t].n = op[t].n /\ op'[t].c = op[t].c
    PROVE  Limited'
  <1>1. UNCHANGED <<cache, size, maxSize>>
    BY DEF caches
  <1>2. \A d \in Sizes : size'[t][d] = Cardinality(cache'[t][d]) /\ size'[t][d] < maxSize'[t][d]
    BY <1>1 DEF Limited, ListsWithinLimit
  <1>3. Fetching(t)' => /\ 1 <= op'[t].n /\ op'[t].n < maxSize'[t][op'[t].c]
                        /\ size'[t][op'[t].c] = 0
    BY <1>1 DEF Limited
  <1> QED
    BY <1>1, <1>2, <1>3, LimitedKept

(* No span of the class has a free object.                                 *)
LEMMA NeedSpanIInv ==
    ASSUME IInv, NEW t \in Threads, NeedSpan(t)
    PROVE  IInv'
  <1> DEFINE o == [at |-> "newspan", c |-> op[t].c, n |-> op[t].n]
  <1>1. /\ op[t].at = "fetch"
        /\ op' = [op EXCEPT ![t].at = "newspan"]
        /\ UNCHANGED <<alloc, m_nObjSize, m_freeList, m_nUseCount, spanLists>>
        /\ UNCHANGED <<lock, cache, size, maxSize, user, exiting>>
    BY DEF NeedSpan, spans, caches
  <1>2. Typed /\ Listed /\ Limited
    BY DEF IInv
  <1>3. op \in [Threads -> Ops]
    BY <1>2 DEF Typed
  <1>4. /\ op[t].c \in Sizes /\ op[t].n \in Nat
        /\ op[t] = [at |-> "fetch", c |-> op[t].c, n |-> op[t].n]
    BY <1>1, <1>3, OpShape
  <1>5. op' = [op EXCEPT ![t] = o]
    BY <1>1, <1>3, GoesOn
  <1>6. o \in Ops
    BY <1>4, OpForms
  <1>7. /\ op' \in [Threads -> Ops] /\ op'[t] = o
        /\ \A u \in Threads : u # t => op'[u] = op[u]
    BY <1>3, <1>5, <1>6, Goes
  <1>8. Typed'
    BY <1>1, <1>2, <1>7 DEF Typed
  <1>9. BlocksApart' /\ Counted' /\ OneOwner' /\ Filed'
    <2>1. InFlight(t) = {} /\ InFlight(t)' = {}
      BY <1>1, <1>7 DEF InFlight
    <2>2. \A u \in Threads : InFlight(u)' = InFlight(u) /\ (op'[u] = op[u] \/ InFlight(u) = {})
      BY <1>7, <2>1 DEF InFlight
    <2> QED
      BY <1>1, <1>8, <2>2, Untouched DEF spans
  <1>10. Listed'
    BY <1>1, <1>2, <1>7, ListedKept
  <1>11. Limited'
    <2>1. Fetching(t)
      BY <1>1 DEF Fetching
    <2> QED
      BY <1>1, <1>2, <1>7, <2>1, SameLists DEF caches
  <1> QED
    BY <1>8, <1>9, <1>10, <1>11 DEF IInv

(* ReleaseListToSpans takes the lock of its class.                         *)
LEMMA LockClassIInv ==
    ASSUME IInv, NEW t \in Threads, LockClass(t)
    PROVE  IInv'
  <1> DEFINE o == [at |-> "put", c |-> op[t].c, objs |-> op[t].objs]
  <1>1. /\ op[t].at = "release"
        /\ op' = [op EXCEPT ![t].at = "put"]
        /\ lock' = [lock EXCEPT ![op[t].c] = t]
        /\ UNCHANGED <<alloc, m_nObjSize, m_freeList, m_nUseCount, spanLists>>
        /\ UNCHANGED <<cache, size, maxSize, user, exiting>>
    BY DEF LockClass, spans, caches
  <1>2. Typed /\ Filed /\ Listed /\ Limited
    BY DEF IInv
  <1>3. op \in [Threads -> Ops]
    BY <1>2 DEF Typed
  <1>4. /\ op[t].c \in Sizes /\ op[t].objs \subseteq Cells
        /\ op[t] = [at |-> "release", c |-> op[t].c, objs |-> op[t].objs]
    BY <1>1, <1>3, OpShape
  <1>5. op' = [op EXCEPT ![t] = o]
    BY <1>1, <1>3, GoesOn
  <1>6. o \in Ops
    BY <1>4, OpForms
  <1>7. /\ op' \in [Threads -> Ops] /\ op'[t] = o
        /\ \A u \in Threads : u # t => op'[u] = op[u]
    BY <1>3, <1>5, <1>6, Goes
  <1>8. Typed'
    <2>1. lock' \in [Sizes -> Threads \cup {Nobody}]
      BY <1>1, <1>2, <1>4 DEF Typed
    <2> QED
      BY <1>1, <1>2, <1>7, <2>1 DEF Typed
  <1>9. BlocksApart' /\ Counted' /\ OneOwner' /\ Filed'
    <2>1. /\ InFlight(t)' = InFlight(t) /\ op'[t].c = op[t].c
          /\ InFlight(t) = op[t].objs
      BY <1>1, <1>7 DEF InFlight
    <2>2. Changes(t, op[t].c)
      BY <1>1, <1>7 DEF Changes
    <2>3. user' \cup InFlight(t)' \cup cache'[t][op[t].c] = Mine(t, op[t].c)
      BY <1>1, <2>1 DEF Mine
    <2>4. /\ user' \cap InFlight(t)' = {}
          /\ user' \cap cache'[t][op[t].c] = {}
          /\ InFlight(t)' \cap cache'[t][op[t].c] = {}
      BY <1>1, <1>4, <2>1 DEF IInv, OneOwner
    <2>5. /\ \A a \in cache'[t][op[t].c] : m_nObjSize[SpanOf(a)] = op[t].c
          /\ \A a \in InFlight(t)' : m_nObjSize[SpanOf(a)] = op'[t].c
          /\ \A a \in user' : a \in user \/ m_nObjSize[SpanOf(a)] \in Sizes
      BY <1>1, <1>2, <1>4, <2>1 DEF Filed
    <2> QED
      BY <1>1, <1>4, <1>8, <2>2, <2>3, <2>4, <2>5, Shuffle
  <1>10. Listed'
    BY <1>1, <1>2, <1>7, ListedKept
  <1>11. Limited'
    <2>1. ~ Fetching(t)'
      BY <1>7 DEF Fetching
    <2> QED
      BY <1>1, <1>2, <1>7, <2>1, SameLists DEF caches
  <1> QED
    BY <1>8, <1>9, <1>10, <1>11 DEF IInv

(* ... and gives it back when nothing is left to put.                      *)
LEMMA EndPutIInv ==
    ASSUME IInv, NEW t \in Threads, EndPut(t)
    PROVE  IInv'
  <1>1. /\ op[t].at = "put" /\ op[t].objs = {}
        /\ op' = [op EXCEPT ![t] = Idle]
        /\ lock' = [lock EXCEPT ![op[t].c] = Nobody]
        /\ UNCHANGED <<alloc, m_nObjSize, m_freeList, m_nUseCount, spanLists>>
        /\ UNCHANGED <<cache, size, maxSize, user, exiting>>
    BY DEF EndPut, spans, caches
  <1>2. Typed /\ Filed /\ Listed /\ Limited
    BY DEF IInv
  <1>3. op \in [Threads -> Ops]
    BY <1>2 DEF Typed
  <1>4. op[t].c \in Sizes
    BY <1>1, <1>3, OpShape
  <1>5. Idle \in Ops
    BY OpForms
  <1>6. /\ op' \in [Threads -> Ops] /\ op'[t] = Idle
        /\ \A u \in Threads : u # t => op'[u] = op[u]
    BY <1>1, <1>3, <1>5, Goes
  <1>7. Typed'
    <2>1. lock' \in [Sizes -> Threads \cup {Nobody}]
      BY <1>1, <1>2, <1>4 DEF Typed
    <2> QED
      BY <1>1, <1>2, <1>6, <2>1 DEF Typed
  <1>8. BlocksApart' /\ Counted' /\ OneOwner' /\ Filed'
    <2>1. InFlight(t) = {} /\ InFlight(t)' = {}
      BY <1>1, <1>6 DEF InFlight, Idle
    <2>2. \A u \in Threads : InFlight(u)' = InFlight(u) /\ (op'[u] = op[u] \/ InFlight(u) = {})
      BY <1>6, <2>1 DEF InFlight
    <2> QED
      BY <1>1, <1>7, <2>2, Untouched DEF spans
  <1>9. Listed'
    BY <1>1, <1>2, <1>6, ListedKept DEF Idle
  <1>10. Limited'
    <2>1. ~ Fetching(t)'
      BY <1>6 DEF Fetching, Idle
    <2> QED
      BY <1>1, <1>2, <1>6, <2>1, SameLists DEF caches
  <1> QED
    BY <1>7, <1>8, <1>9, <1>10 DEF IInv

(* A thread begins to end; or a step changes nothing.                      *)
LEMMA StaysIInv ==
    ASSUME IInv, exiting' \in [Threads -> BOOLEAN],
           UNCHANGED <<alloc, m_nObjSize, spans, lock, caches, user, op>>
    PROVE  IInv'
  <1>1. /\ UNCHANGED <<alloc, m_nObjSize, m_freeList, m_nUseCount, spanLists>>
        /\ UNCHANGED <<lock, cache, size, maxSize, user, op>>
    BY DEF spans, caches
  <1>2. Typed /\ Listed /\ Limited
    BY DEF IInv
  <1>3. Typed'
    BY <1>1, <1>2 DEF Typed
  <1>4. \A u \in Threads : InFlight(u)' = InFlight(u) /\ (op'[u] = op[u] \/ InFlight(u) = {})
    BY <1>1 DEF InFlight
  <1>5. BlocksApart' /\ Counted' /\ OneOwner' /\ Filed'
    BY <1>1, <1>3, <1>4, Untouched DEF spans
  <1>6. \A p, c : Cut(p, c)' = Cut(p, c)
    BY <1>1 DEF Cut, NumMovePage, NumMoveSize
  <1>7. Listed'
    BY <1>1, <1>2, <1>6 DEF Listed, Moving
  <1>8. Limited'
    BY <1>1, <1>2 DEF Limited, ListsWithinLimit, Fetching
  <1> QED
    BY <1>3, <1>5, <1>7, <1>8 DEF IInv

(* A new thread finds nothing in the lists it throws away.                 *)
LEMMA ThreadStartIInv ==
    ASSUME IInv, NEW t \in Threads, ThreadStart(t)
    PROVE  IInv'
  <1>1. /\ op[t] = Idle /\ op' = op
        /\ \A c \in Sizes : size[t][c] = 0
        /\ cache' = [cache EXCEPT ![t] = [c \in Sizes |-> {}]]
        /\ maxSize' = [maxSize EXCEPT ![t] = [c \in Sizes |-> 1]]
        /\ exiting' = [exiting EXCEPT ![t] = FALSE]
        /\ UNCHANGED <<alloc, m_nObjSize, m_freeList, m_nUseCount, spanLists>>
        /\ UNCHANGED <<lock, size, user>>
    BY DEF ThreadStart, spans
  <1>2. Typed /\ Listed /\ Limited
    BY DEF IInv
  <1>3. cache' = cache
    <2>1. \A c \in Sizes : cache[t][c] = {}
      <3> SUFFICES ASSUME NEW c \in Sizes PROVE cache[t][c] = {}
        OBVIOUS
      <3>1. cache[t][c] \subseteq Cells
        BY <1>2 DEF Typed
      <3>2. IsFiniteSet(cache[t][c]) /\ Cardinality(cache[t][c]) = 0
        BY <1>1, <1>2, <3>1, CellsFinite DEF Limited, ListsWithinLimit
      <3> QED
        BY <3>2, FS_EmptySet
    <2>2. cache \in [Threads -> [Sizes -> SUBSET Cells]]
      BY <1>2 DEF Typed
    <2>3. cache[t] = [c \in Sizes |-> {}]
      BY <2>1, <2>2
    <2> QED
      BY <1>1, <2>2, <2>3
  <1>4. /\ maxSize' \in [Threads -> [Sizes -> Nat]]
        /\ \A c \in Sizes : maxSize'[t][c] = 1
        /\ \A u \in Threads : u # t => maxSize'[u] = maxSize[u]
    BY <1>1, <1>2 DEF Typed
  <1>5. Typed'
    BY <1>1, <1>2, <1>3, <1>4 DEF Typed
  <1>6. \A u \in Threads : InFlight(u)' = InFlight(u) /\ (op'[u] = op[u] \/ InFlight(u) = {})
    BY <1>1 DEF InFlight
  <1>7. BlocksApart' /\ Counted' /\ OneOwner' /\ Filed'
    BY <1>1, <1>3, <1>5, <1>6, Untouched DEF spans
  <1>8. Listed'
    BY <1>1, <1>2, ListedKept DEF Idle
  <1>9. Limited'
    <2>1. \A d \in Sizes : size'[t][d] = Cardinality(cache'[t][d]) /\ size'[t][d] < maxSize'[t][d]
      <3> SUFFICES ASSUME NEW d \in Sizes
                   PROVE  size'[t][d] = Cardinality(cache'[t][d]) /\ size'[t][d] < maxSize'[t][d]
        OBVIOUS
      <3>1. size[t][d] = Cardinality(cache[t][d])
        BY <1>2 DEF Limited, ListsWithinLimit
      <3>2. size'[t][d] = 0 /\ maxSize'[t][d] = 1
        BY <1>1, <1>4
      <3> QED
        BY <1>1, <1>3, <3>1, <3>2
    <2>2. ~ Fetching(t)'
      BY <1>1 DEF Fetching, Idle
    <2> QED
      BY <1>1, <1>2, <1>3, <1>4, <2>1, <2>2, LimitedKept
  <1> QED
    BY <1>5, <1>7, <1>8, <1>9 DEF IInv

(* A whole list leaves the thread in a call.                               *)
LEMMA ReturnListIInv ==
    ASSUME IInv, NEW t \in Threads, NEW c \in Sizes, ReturnList(t, c)
    PROVE  IInv'
  <1> DEFINE o == [at |-> "release", c |-> c, objs |-> cache[t][c]]
  <1>1. /\ op[t] = Idle
        /\ op' = [op EXCEPT ![t] = o]
        /\ cache' = [cache EXCEPT ![t][c] = {}]
        /\ size' = [size EXCEPT ![t][c] = 0]
        /\ UNCHANGED <<alloc, m_nObjSize, m_freeList, m_nUseCount, spanLists>>
        /\ UNCHANGED <<lock, maxSize, user, exiting>>
    BY DEF ReturnList, spans
  <1>2. Typed /\ Filed /\ OneOwner /\ Listed /\ Limited
    BY DEF IInv
  <1>3. /\ op \in [Threads -> Ops] /\ cache[t][c] \in SUBSET Cells
        /\ cache \in [Threads -> [Sizes -> SUBSET Cells]]
        /\ size \in [Threads -> [Sizes -> Int]]
    BY <1>2 DEF Typed
  <1>4. o \in Ops
    BY <1>3, OpForms
  <1>5. /\ op' \in [Threads -> Ops] /\ op'[t] = o
        /\ \A u \in Threads : u # t => op'[u] = op[u]
    BY <1>1, <1>3, <1>4, Goes
  <1>6. /\ cache' \in [Threads -> [Sizes -> SUBSET Cells]]
        /\ cache'[t][c] = {}
        /\ \A u \in Threads : u # t => cache'[u] = cache[u]
        /\ \A d \in Sizes : d # c => cache'[t][d] = cache[t][d]
    <2>1. {} \in SUBSET Cells
      OBVIOUS
    <2> QED
      BY <1>1, <1>3, <2>1, Entry
  <1>7. /\ size' \in [Threads -> [Sizes -> Int]]
        /\ size'[t][c] = 0
        /\ \A u \in Threads : u # t => size'[u] = size[u]
        /\ \A d \in Sizes : d # c => size'[t][d] = size[t][d]
    BY <1>1, <1>3, Entry
  <1>8. Typed'
    BY <1>1, <1>2, <1>5, <1>6, <1>7 DEF Typed
  <1>9. BlocksApart' /\ Counted' /\ OneOwner' /\ Filed'
    <2>1. InFlight(t) = {} /\ InFlight(t)' = cache[t][c]
      BY <1>1, <1>5 DEF InFlight, Idle
    <2>2. Changes(t, c)
      BY <1>5, <1>6 DEF Changes
    <2>3. user' \cup InFlight(t)' \cup cache'[t][c] = Mine(t, c)
      BY <1>1, <1>6, <2>1 DEF Mine
    <2>4. /\ user' \cap InFlight(t)' = {}
          /\ user' \cap cache'[t][c] = {}
          /\ InFlight(t)' \cap cache'[t][c] = {}
      BY <1>1, <1>2, <1>6, <2>1 DEF OneOwner
    <2>5. /\ \A a \in cache'[t][c] : m_nObjSize[SpanOf(a)] = c
          /\ \A a \in InFlight(t)' : m_nObjSize[SpanOf(a)] = op'[t].c
          /\ \A a \in user' : a \in user \/ m_nObjSize[SpanOf(a)] \in Sizes
      BY <1>1, <1>2, <1>5, <1>6, <2>1 DEF Filed
    <2> QED
      BY <1>1, <1>8, <2>2, <2>3, <2>4, <2>5, Shuffle
  <1>10. Listed'
    BY <1>1, <1>2, <1>5, ListedKept
  <1>11. Limited'
    <2>1. size'[t][c] = Cardinality(cache'[t][c])
      BY <1>6, <1>7, FS_EmptySet
    <2>2. size'[t][c] < maxSize'[t][c]
      <3>1. size[t][c] < maxSize[t][c] /\ size[t][c] = Cardinality(cache[t][c])
        BY <1>2 DEF Limited, ListsWithinLimit
      <3>2. Cardinality(cache[t][c]) \in Nat
        BY <1>3, CellsFinite
      <3>3. maxSize[t][c] \in Nat
        BY <1>2 DEF Typed
      <3>4. 0 < maxSize[t][c]
        BY <3>1, <3>2, <3>3
      <3> QED
        BY <1>1, <1>7, <3>4
    <2>3. ~ Fetching(t)'
      BY <1>5 DEF Fetching
    <2>4. \A d \in Sizes : d # c =>
              /\ cache'[t][d] = cache[t][d] /\ size'[t][d] = size[t][d]
              /\ maxSize'[t][d] = maxSize[t][d]
      BY <1>1, <1>6, <1>7
    <2>5. \A d \in Sizes : size'[t][d] = Cardinality(cache'[t][d]) /\ size'[t][d] < maxSize'[t][d]
      BY <1>2, <2>1, <2>2, <2>4, OtherLists
    <2> QED
      BY <1>1, <1>2, <1>5, <1>6, <1>7, <2>3, <2>5, LimitedKept
  <1> QED
    BY <1>8, <1>9, <1>10, <1>11 DEF IInv

(* Deallocate: the list gains the object, or goes back whole.  A list that *)
(* reaches its limit has as many objects as the limit says, so none is     *)
(* lost when the list is cut there.                                        *)
LEMMA DeallocateIInv ==
    ASSUME IInv, NEW t \in Threads, NEW a \in user, Deallocate(t, a)
    PROVE  IInv'
  <1> DEFINE c == m_nObjSize[SpanOf(a)]
             list == cache[t][c] \cup {a}
             limit == maxSize[t][c]
  <1>1. /\ op[t] = Idle /\ c \in Sizes
        /\ \/ /\ TooLong(t, c)
              /\ \E objs \in SUBSET list :
                    /\ Cardinality(objs) = limit
                    /\ cache' = [cache EXCEPT ![t][c] = {}]
                    /\ size' = [size EXCEPT ![t][c] = @ + 1 - limit]
                    /\ op' = [op EXCEPT ![t] = [at |-> "release", c |-> c, objs |-> objs]]
           \/ /\ ~ TooLong(t, c)
              /\ cache' = [cache EXCEPT ![t][c] = list]
              /\ size' = [size EXCEPT ![t][c] = @ + 1]
              /\ op' = op
        /\ user' = user \ {a}
        /\ UNCHANGED <<alloc, m_nObjSize, m_freeList, m_nUseCount, spanLists>>
        /\ UNCHANGED <<lock, maxSize, exiting>>
    BY DEF Deallocate, spans
  <1>2. Typed /\ Filed /\ OneOwner /\ Listed /\ Limited
    BY DEF IInv
  <1>3. c = m_nObjSize[SpanOf(a)]
    OBVIOUS
  <1> HIDE DEF c
  <1>4. /\ op \in [Threads -> Ops] /\ a \in Cells
        /\ cache[t][c] \in SUBSET Cells
        /\ cache \in [Threads -> [Sizes -> SUBSET Cells]]
        /\ size \in [Threads -> [Sizes -> Int]]
        /\ maxSize[t][c] \in Nat
        /\ user \subseteq Cells
    BY <1>1, <1>2 DEF Typed
  <1>5. a \notin cache[t][c] /\ InFlight(t) = {}
    BY <1>1, <1>2 DEF OneOwner, InFlight, Idle
  <1>6. /\ IsFiniteSet(cache[t][c]) /\ Cardinality(cache[t][c]) \in Nat
        /\ list \subseteq Cells /\ IsFiniteSet(list)
    BY <1>4, CellsFinite
  <1>7. Cardinality(list) = Cardinality(cache[t][c]) + 1
    BY <1>5, <1>6, FS_AddElement
  <1>8. size[t][c] = Cardinality(cache[t][c]) /\ size[t][c] < limit
    BY <1>1, <1>2 DEF Limited, ListsWithinLimit
  <1>9. \A x \in list : m_nObjSize[SpanOf(x)] = c
    BY <1>1, <1>2, <1>3 DEF Filed
  <1>10. \/ /\ cache' = [cache EXCEPT ![t][c] = {}]
            /\ size' = [size EXCEPT ![t][c] = 0]
            /\ op' = [op EXCEPT ![t] = [at |-> "release", c |-> c, objs |-> list]]
         \/ /\ cache' = [cache EXCEPT ![t][c] = list]
            /\ size' = [size EXCEPT ![t][c] = size[t][c] + 1]
            /\ op' = op
            /\ size[t][c] + 1 < limit
    <2>1. CASE TooLong(t, c)
      <3>1. limit = size[t][c] + 1
        <4>1. limit <= size[t][c] + 1
          BY <2>1 DEF TooLong
        <4> DEFINE m == size[t][c]
        <4>2. m \in Nat /\ limit \in Nat /\ m < limit
          BY <1>4, <1>6, <1>8
        <4>3. limit <= m + 1
          BY <4>1
        <4> HIDE DEF limit, m
        <4>4. limit = m + 1
          BY <4>2, <4>3
        <4> QED
          BY <4>4 DEF m
      <3>2. PICK objs \in SUBSET list :
                    /\ Cardinality(objs) = limit
                    /\ cache' = [cache EXCEPT ![t][c] = {}]
                    /\ size' = [size EXCEPT ![t][c] = @ + 1 - limit]
                    /\ op' = [op EXCEPT ![t] = [at |-> "release", c |-> c, objs |-> objs]]
        BY <1>1, <2>1
      <3>3. Cardinality(list) = Cardinality(objs)
        BY <1>7, <1>8, <3>1, <3>2
      <3>4. objs = list
        BY <1>6, <3>3, FS_Subset
      <3>5. size[t][c] + 1 - limit = 0
        BY <1>6, <1>8, <3>1
      <3> QED
        BY <3>2, <3>4, <3>5
    <2>2. CASE ~ TooLong(t, c)
      <3>1. ~ (limit <= size[t][c] + 1)
        BY <2>2 DEF TooLong
      <3>2. size[t][c] + 1 < limit
        BY <1>4, <1>6, <1>8, <3>1
      <3> QED
        BY <1>1, <2>2, <3>2
    <2> QED
      BY <2>1, <2>2
  <1>11. CASE /\ cache' = [cache EXCEPT ![t][c] = {}]
              /\ size' = [size EXCEPT ![t][c] = 0]
              /\ op' = [op EXCEPT ![t] = [at |-> "release", c |-> c, objs |-> list]]
    <2> DEFINE o == [at |-> "release", c |-> c, objs |-> list]
    <2>1. o \in Ops
      BY <1>1, <1>6, OpForms
    <2>2. /\ op' \in [Threads -> Ops] /\ op'[t] = o
          /\ \A u \in Threads : u # t => op'[u] = op[u]
      BY <1>11, <1>4, <2>1, Goes
    <2>3. /\ cache' \in [Threads -> [Sizes -> SUBSET Cells]]
          /\ cache'[t][c] = {}
          /\ \A u \in Threads : u # t => cache'[u] = cache[u]
          /\ \A d \in Sizes : d # c => cache'[t][d] = cache[t][d]
      <3>1. {} \in SUBSET Cells
        OBVIOUS
      <3> QED
        BY <1>1, <1>4, <1>11, <3>1, Entry
    <2>4. /\ size' \in [Threads -> [Sizes -> Int]]
          /\ size'[t][c] = 0
          /\ \A u \in Threads : u # t => size'[u] = size[u]
          /\ \A d \in Sizes : d # c => size'[t][d] = size[t][d]
      BY <1>1, <1>4, <1>11, Entry
    <2>5. Typed'
      BY <1>1, <1>2, <2>2, <2>3, <2>4 DEF Typed
    <2>6. InFlight(t)' = list
      BY <2>2 DEF InFlight
    <2>7. BlocksApart' /\ Counted' /\ OneOwner' /\ Filed'
      <3>1. Changes(t, c)
        BY <2>2, <2>3 DEF Changes
      <3>2. user' \cup InFlight(t)' \cup cache'[t][c] = Mine(t, c)
        BY <1>1, <1>5, <2>3, <2>6 DEF Mine
      <3>3. user' \cap InFlight(t)' = {} /\ user' \cap cache'[t][c] = {}
            /\ InFlight(t)' \cap cache'[t][c] = {}
        BY <1>1, <1>2, <2>3, <2>6 DEF OneOwner
      <3>4. /\ \A x \in cache'[t][c] : m_nObjSize[SpanOf(x)] = c
            /\ \A x \in InFlight(t)' : m_nObjSize[SpanOf(x)] = op'[t].c
            /\ \A x \in user' : x \in user \/ m_nObjSize[SpanOf(x)] \in Sizes
        BY <1>1, <1>9, <2>2, <2>3, <2>6
      <3> QED
        BY <1>1, <2>5, <3>1, <3>2, <3>3, <3>4, Shuffle
    <2>8. Listed'
      BY <1>1, <1>2, <2>2, ListedKept
    <2>9. Limited'
      <3>1. size'[t][c] = Cardinality(cache'[t][c])
        BY <2>3, <2>4, FS_EmptySet
      <3>2. size'[t][c] < maxSize'[t][c]
        BY <1>1, <1>4, <1>6, <1>8, <2>4
      <3>3. \A d \in Sizes : d # c =>
              /\ cache'[t][d] = cache[t][d] /\ size'[t][d] = size[t][d]
              /\ maxSize'[t][d] = maxSize[t][d]
        BY <1>1, <2>3, <2>4
      <3>4. \A d \in Sizes : size'[t][d] = Cardinality(cache'[t][d]) /\ size'[t][d] < maxSize'[t][d]
        BY <1>1, <1>2, <3>1, <3>2, <3>3, OtherLists
      <3>5. ~ Fetching(t)'
        BY <2>2 DEF Fetching
      <3> QED
        BY <1>1, <1>2, <2>2, <2>3, <2>4, <3>4, <3>5, LimitedKept
    <2> QED
      BY <2>5, <2>7, <2>8, <2>9 DEF IInv
  <1>12. CASE /\ cache' = [cache EXCEPT ![t][c] = list]
              /\ size' = [size EXCEPT ![t][c] = size[t][c] + 1]
              /\ op' = op
              /\ size[t][c] + 1 < limit
    <2>1. /\ cache' \in [Threads -> [Sizes -> SUBSET Cells]]
          /\ cache'[t][c] = list
          /\ \A u \in Threads : u # t => cache'[u] = cache[u]
          /\ \A d \in Sizes : d # c => cache'[t][d] = cache[t][d]
      <3>1. list \in SUBSET Cells
        BY <1>6
      <3> QED
        BY <1>1, <1>4, <1>12, <3>1, Entry
    <2>2. /\ size' \in [Threads -> [Sizes -> Int]]
          /\ size'[t][c] = size[t][c] + 1
          /\ \A u \in Threads : u # t => size'[u] = size[u]
          /\ \A d \in Sizes : d # c => size'[t][d] = size[t][d]
      <3>1. size[t][c] + 1 \in Int
        BY <1>6, <1>8
      <3> QED
        BY <1>1, <1>4, <1>12, <3>1, Entry
    <2>3. Typed'
      BY <1>1, <1>2, <1>12, <2>1, <2>2 DEF Typed
    <2>4. InFlight(t)' = {}
      BY <1>5, <1>12 DEF InFlight
    <2>5. BlocksApart' /\ Counted' /\ OneOwner' /\ Filed'
      <3>1. Changes(t, c)
        BY <1>12, <2>1 DEF Changes
      <3>2. user' \cup InFlight(t)' \cup cache'[t][c] = Mine(t, c)
        BY <1>1, <1>5, <2>1, <2>4 DEF Mine
      <3>3. user' \cap InFlight(t)' = {} /\ user' \cap cache'[t][c] = {}
            /\ InFlight(t)' \cap cache'[t][c] = {}
        BY <1>1, <1>2, <2>1, <2>4 DEF OneOwner
      <3>4. /\ \A x \in cache'[t][c] : m_nObjSize[SpanOf(x)] = c
            /\ \A x \in InFlight(t)' : m_nObjSize[SpanOf(x)] = op'[t].c
            /\ \A x \in user' : x \in user \/ m_nObjSize[SpanOf(x)] \in Sizes
        BY <1>1, <1>9, <2>1, <2>4
      <3> QED
        BY <1>1, <2>3, <3>1, <3>2, <3>3, <3>4, Shuffle
    <2>6. Listed'
      BY <1>1, <1>2, <1>12, ListedKept DEF Idle
    <2>7. Limited'
      <3>1. size'[t][c] = Cardinality(cache'[t][c])
        BY <1>7, <1>8, <2>1, <2>2
      <3>2. size'[t][c] < maxSize'[t][c]
        BY <1>1, <1>12, <2>2
      <3>3. \A d \in Sizes : d # c =>
              /\ cache'[t][d] = cache[t][d] /\ size'[t][d] = size[t][d]
              /\ maxSize'[t][d] = maxSize[t][d]
        BY <1>1, <2>1, <2>2
      <3>4. \A d \in Sizes : size'[t][d] = Cardinality(cache'[t][d]) /\ size'[t][d] < maxSize'[t][d]
        BY <1>1, <1>2, <3>1, <3>2, <3>3, OtherLists
      <3>5. ~ Fetching(t)'
        BY <1>1, <1>12 DEF Fetching, Idle
      <3> QED
        BY <1>1, <1>2, <1>12, <2>1, <2>2, <3>4, <3>5, LimitedKept
    <2> QED
      BY <2>3, <2>5, <2>6, <2>7 DEF IInv
  <1> QED
    BY <1>10, <1>11, <1>12

-----------------------------------------------------------------------------
(* What is known of a span cut for class c.                                *)
LEMMA SpanFacts ==
    ASSUME IInv, NEW c \in Sizes, NEW p \in Pages, Cut(p, c)
    PROVE  /\ m_freeList[p] \cup Away(p) = Carve(p, NumMovePage(c), c)
           /\ m_freeList[p] \cap Away(p) = {}
           /\ m_nUseCount[p] = Cardinality(Away(p))
           /\ IsFiniteSet(Away(p)) /\ Cardinality(Away(p)) \in Nat
           /\ Away(p) \subseteq Cells
           /\ \A a \in Carve(p, NumMovePage(c), c) :
                 a \in Cells /\ In(<<p, NumMovePage(c)>>, a)
                 /\ BlockOf(a) = <<p, NumMovePage(c)>> /\ SpanOf(a) = p
           /\ \A a \in m_freeList[p] : a \notin Placed
           /\ \A b \in alloc : b[1] = p => b = <<p, NumMovePage(c)>>
  <1> DEFINE b == <<p, NumMovePage(c)>>
  <1>1. b \in alloc /\ b[1] = p /\ b[2] = NumMovePage(c) /\ m_nObjSize[p] = c
    BY DEF Cut
  <1>2. b \in SmallBlocks
    BY <1>1 DEF SmallBlocks
  <1> HIDE DEF b
  <1>3. /\ m_freeList[p] \cup Away(p) = Carve(p, NumMovePage(c), c)
        /\ m_freeList[p] \cap Away(p) = {}
        /\ m_nUseCount[p] = Cardinality(Away(p))
    BY <1>1, <1>2 DEF IInv, Counted, AccountedFor
  <1>4. Away(p) \subseteq Cells
    BY DEF Away
  <1>5. Apart(alloc)
    BY ApartNow DEF IInv
  <1>6. ASSUME NEW a \in Carve(p, NumMovePage(c), c)
        PROVE  a \in Cells /\ In(b, a) /\ BlockOf(a) = b /\ SpanOf(a) = p
    <2>1. a \in Cells /\ In(b, a)
      BY <1>1 DEF Carve, In
    <2>2. a \in Int
      BY <2>1, MemPoolAssumption DEF Cells
    <2> QED
      BY <1>1, <1>5, <2>1, <2>2, Found
  <1>7. \A a \in m_freeList[p] : a \notin Placed
    <2> SUFFICES ASSUME NEW a \in m_freeList[p], a \in Placed PROVE FALSE
      OBVIOUS
    <2>1. SpanOf(a) = p
      BY <1>3, <1>6
    <2>2. a \in Away(p)
      BY <2>1, AwayPlaced
    <2> QED
      BY <1>3, <2>2
  <1>8. \A d \in alloc : d[1] = p => d = b
    BY <1>1, <1>5, SameStart
  <1>9. IsFiniteSet(Away(p)) /\ Cardinality(Away(p)) \in Nat
    BY <1>4, CellsFinite
  <1> QED
    BY <1>3, <1>4, <1>6, <1>7, <1>8, <1>9 DEF b

(* The books of one span change, those of the others do not.               *)
LEMMA CountedOne ==
    ASSUME IInv, UNCHANGED <<alloc, m_nObjSize>>, NEW c \in Sizes, NEW p \in Pages, Cut(p, c),
           m_nUseCount' \in [Pages -> Int], m_freeList' \in [Pages -> SUBSET Cells],
           \A q \in Pages : q # p =>
              m_freeList'[q] = m_freeList[q] /\ m_nUseCount'[q] = m_nUseCount[q],
           \A a : a \in Placed' /\ SpanOf(a) # p <=> a \in Placed /\ SpanOf(a) # p,
           m_freeList'[p] \cup Away(p)' = m_freeList[p] \cup Away(p),
           m_freeList'[p] \cap Away(p)' = {},
           m_nUseCount'[p] = Cardinality(Away(p)')
    PROVE  Counted'
  <1>1. \A q : q # p => Away(q)' = Away(q)
    BY SameBlocks, AwayPlaced, AwayPlacedNext
  <1>2. SmallBlocks' = SmallBlocks
    BY DEF SmallBlocks
  <1>3. \A q, n, d : Carve(q, n, d)' = Carve(q, n, d)
    BY DEF Carve, Cells
  <1>4. ASSUME NEW b \in SmallBlocks
        PROVE  /\ m_freeList'[b[1]] \cup Away(b[1])' = Carve(b[1], b[2], m_nObjSize[b[1]])
               /\ m_freeList'[b[1]] \cap Away(b[1])' = {}
               /\ m_nUseCount'[b[1]] = Cardinality(Away(b[1])')
    <2>1. b \in alloc /\ b[1] \in Pages
      BY DEF SmallBlocks, IInv, BlocksApart
    <2>2. /\ m_freeList[b[1]] \cup Away(b[1]) = Carve(b[1], b[2], m_nObjSize[b[1]])
          /\ m_freeList[b[1]] \cap Away(b[1]) = {}
          /\ m_nUseCount[b[1]] = Cardinality(Away(b[1]))
      BY DEF IInv, Counted, AccountedFor
    <2>3. CASE b[1] = p
      BY <2>2, <2>3
    <2>4. CASE b[1] # p
      BY <1>1, <2>1, <2>2, <2>4
    <2> QED
      BY <2>3, <2>4
  <1>5. AccountedFor'
    BY <1>2, <1>3, <1>4 DEF AccountedFor
  <1>6. \A q, d : Cut(q, d)' = Cut(q, d)
    BY DEF Cut, NumMovePage, NumMoveSize
  <1>7. \A q \in Pages : m_nUseCount'[q] # 0 => \E d \in Sizes : Cut(q, d)'
    BY <1>6 DEF IInv, Counted
  <1> QED
    BY <1>5, <1>7 DEF Counted

(* Objects leave a span of the class: one for the caller, the rest for the *)
(* list of the thread, which was empty.                                    *)
LEMMA TakeKeeps ==
    ASSUME IInv, NEW t \in Threads, NEW p \in Pages, Fetching(t), Cut(p, op[t].c), Take(t, p),
           UNCHANGED <<alloc, m_nObjSize, lock, maxSize, exiting>>,
           spanLists' \in [Sizes -> SUBSET Pages]
    PROVE  /\ Typed' /\ BlocksApart' /\ Counted' /\ OneOwner' /\ Filed' /\ Limited'
           /\ op'[t] = Idle /\ \A u \in Threads : u # t => op'[u] = op[u]
           /\ \A q \in Pages : q # p => m_nUseCount'[q] = m_nUseCount[q]
           /\ m_nUseCount'[p] > 0
  <1> DEFINE c == op[t].c
             n == Lesser(op[t].n, Cardinality(m_freeList[p]))
  <1>1. Typed /\ Filed /\ OneOwner /\ Limited
    BY DEF IInv
  <1>2. op \in [Threads -> Ops] /\ m_freeList \in [Pages -> SUBSET Cells]
        /\ m_nUseCount \in [Pages -> Int] /\ user \subseteq Cells
        /\ cache \in [Threads -> [Sizes -> SUBSET Cells]] /\ size \in [Threads -> [Sizes -> Int]]
        /\ maxSize \in [Threads -> [Sizes -> Nat]]
    BY <1>1 DEF Typed
  <1>3. c \in Sizes /\ op[t].n \in Nat /\ op[t].at \in {"fetch", "newspan", "link"}
    BY <1>2, OpShape DEF Fetching
  <1>4. 1 <= op[t].n /\ op[t].n < maxSize[t][c] /\ size[t][c] = 0
    BY <1>1 DEF Limited
  <1>5. PICK objs \in SUBSET m_freeList[p] :
            /\ Cardinality(objs) = n
            /\ m_freeList' = [m_freeList EXCEPT ![p] = @ \ objs]
            /\ \E a \in objs :
                /\ user' = user \union {a}
                /\ cache' = [cache EXCEPT ![t][c] = @ \union Surplus(objs, a)]
    BY DEF Take
  <1>6. PICK a \in objs :
                /\ user' = user \union {a}
                /\ cache' = [cache EXCEPT ![t][c] = @ \union Surplus(objs, a)]
    BY <1>5
  <1>7. /\ m_nUseCount' = CountTaken(p, n)
        /\ size' = [size EXCEPT ![t][c] = @ + n - 1]
        /\ op' = [op EXCEPT ![t] = Idle]
    BY DEF Take
  <1>8. Cut(p, c)
    OBVIOUS
  <1>9. Cardinality(objs) = n /\ n <= op[t].n
    <2>1. m_freeList[p] \subseteq Cells
      BY <1>2
    <2>2. Cardinality(m_freeList[p]) \in Nat
      BY <2>1, CellsFinite
    <2> QED
      BY <1>3, <1>5, <2>2 DEF Lesser
  <1> HIDE DEF c, n
  <1>10. objs \subseteq Cells /\ IsFiniteSet(objs) /\ n \in Nat /\ n >= 1
    <2>1. objs \subseteq Cells
      BY <1>2
    <2>2. IsFiniteSet(objs) /\ Cardinality(objs) \in Nat
      BY <2>1, CellsFinite
    <2>3. Cardinality(objs) # 0
      BY <2>2, FS_EmptySet
    <2> QED
      BY <1>9, <2>1, <2>2, <2>3
  <1>11. cache[t][c] = {}
    <2>1. cache[t][c] \subseteq Cells
      BY <1>2, <1>3
    <2>2. IsFiniteSet(cache[t][c]) /\ Cardinality(cache[t][c]) = 0
      BY <1>1, <1>3, <1>4, <2>1, CellsFinite DEF Limited, ListsWithinLimit
    <2> QED
      BY <2>2, FS_EmptySet
  <1>12. /\ m_freeList' = [m_freeList EXCEPT ![p] = m_freeList[p] \ objs]
         /\ m_nUseCount' = [m_nUseCount EXCEPT ![p] = m_nUseCount[p] + n]
         /\ size' = [size EXCEPT ![t][c] = n - 1]
         /\ cache' = [cache EXCEPT ![t][c] = objs \ {a}]
    <2>1. size[t][c] + n - 1 = n - 1
      BY <1>4, <1>10 DEF c
    <2>2. cache[t][c] \cup Surplus(objs, a) = objs \ {a}
      BY <1>11 DEF Surplus
    <2> QED
      BY <1>5, <1>6, <1>7, <2>1, <2>2 DEF CountTaken
  <1>13. /\ cache' \in [Threads -> [Sizes -> SUBSET Cells]]
         /\ cache'[t][c] = objs \ {a}
         /\ \A u \in Threads : u # t => cache'[u] = cache[u]
         /\ \A d \in Sizes : d # c => cache'[t][d] = cache[t][d]
    <2>1. objs \ {a} \in SUBSET Cells
      BY <1>10
    <2> QED
      BY <1>2, <1>3, <1>12, <2>1, Entry
  <1>14. /\ size' \in [Threads -> [Sizes -> Int]]
         /\ size'[t][c] = n - 1
         /\ \A u \in Threads : u # t => size'[u] = size[u]
         /\ \A d \in Sizes : d # c => size'[t][d] = size[t][d]
    <2>1. n - 1 \in Int
      BY <1>10
    <2> QED
      BY <1>2, <1>3, <1>12, <2>1, Entry
  <1>15. /\ op' \in [Threads -> Ops] /\ op'[t] = Idle
         /\ \A u \in Threads : u # t => op'[u] = op[u]
    BY <1>2, <1>7, OpForms, Goes
  <1>16. /\ m_freeList' \in [Pages -> SUBSET Cells] /\ m_freeList'[p] = m_freeList[p] \ objs
         /\ m_nUseCount' \in [Pages -> Int] /\ m_nUseCount'[p] = m_nUseCount[p] + n
         /\ \A q \in Pages : q # p =>
               m_freeList'[q] = m_freeList[q] /\ m_nUseCount'[q] = m_nUseCount[q]
    BY <1>2, <1>10, <1>12
  <1>17. Typed'
    BY <1>1, <1>2, <1>6, <1>10, <1>13, <1>14, <1>15, <1>16 DEF Typed
  <1>18. Changes(t, c)
    BY <1>13, <1>15 DEF Changes
  <1>19. InFlight(t) = {} /\ InFlight(t)' = {}
    BY <1>3, <1>15 DEF InFlight, Idle
  <1>20. user' \cup InFlight(t)' \cup cache'[t][c] = Mine(t, c) \cup objs
    BY <1>6, <1>11, <1>13, <1>19 DEF Mine
  <1>21. Placed' = Placed \cup objs
    BY <1>1, <1>3, <1>17, <1>18, <1>20, PlacedMoved
  <1>22. /\ m_freeList[p] \cup Away(p) = Carve(p, NumMovePage(c), c)
         /\ m_freeList[p] \cap Away(p) = {}
         /\ m_nUseCount[p] = Cardinality(Away(p))
         /\ IsFiniteSet(Away(p)) /\ Cardinality(Away(p)) \in Nat
    BY <1>3, <1>8, SpanFacts
  <1>23. /\ \A x \in objs : x \notin Placed
         /\ \A x \in objs : x \in Carve(p, NumMovePage(c), c)
    BY <1>3, <1>8, <1>22, SpanFacts
  <1>24. \A x \in objs : /\ BlockOf(x) \in alloc /\ In(BlockOf(x), x)
                         /\ SpanOf(x) = p /\ m_nObjSize[SpanOf(x)] = c
    BY <1>3, <1>8, <1>23, SpanFacts DEF Cut
  <1>25. Away(p)' = Away(p) \cup objs
    BY <1>21, <1>24, SameBlocks, AwayPlaced, AwayPlacedNext
  <1>26. m_nUseCount'[p] = Cardinality(Away(p)')
    <2>1. Away(p) \cap objs = {}
      BY <1>22
    <2>2. Cardinality(Away(p) \cup objs) =
             Cardinality(Away(p)) + Cardinality(objs) - Cardinality(Away(p) \cap objs)
      BY <1>10, <1>22, FS_Union
    <2>3. Cardinality(Away(p) \cap objs) = 0
      BY <2>1, FS_EmptySet
    <2> QED
      BY <1>9, <1>10, <1>16, <1>22, <1>25, <2>2, <2>3
  <1>27. Counted'
    <2>1. m_freeList'[p] \cup Away(p)' = m_freeList[p] \cup Away(p)
      BY <1>16, <1>25
    <2>2. m_freeList'[p] \cap Away(p)' = {}
      BY <1>16, <1>22, <1>25
    <2>3. \A x : x \in Placed' /\ SpanOf(x) # p <=> x \in Placed /\ SpanOf(x) # p
      BY <1>21, <1>24
    <2> QED
      BY <1>3, <1>8, <1>16, <1>26, <2>1, <2>2, <2>3, CountedOne
  <1>28. BlocksApart'
    BY DEF IInv, BlocksApart, NumMovePage, NumMoveSize
  <1>29. OneOwner'
    <2>1. objs \cap Placed = {}
      BY <1>23
    <2>2. user' \cap cache'[t][c] = {}
      <3>1. user \subseteq Placed
        BY <1>1, HeldPlaced
      <3> QED
        BY <1>6, <1>13, <1>23, <3>1
    <2>3. /\ user' \subseteq Mine(t, c) \cup objs
          /\ InFlight(t)' \subseteq Mine(t, c) \cup objs
          /\ cache'[t][c] \subseteq Mine(t, c) \cup objs
      BY <1>20
    <2> QED
      BY <1>1, <1>3, <1>18, <1>19, <2>1, <2>2, <2>3, Exchange
  <1>30. Filed'
    <2>1. \A x \in Placed' : BlockOf(x) \in alloc /\ In(BlockOf(x), x)
      BY <1>1, <1>21, <1>24 DEF Filed
    <2>2. \A x \in cache'[t][c] : m_nObjSize[SpanOf(x)] = c
      BY <1>13, <1>24
    <2>3. \A x \in user' : x \in user \/ m_nObjSize[SpanOf(x)] \in Sizes
      BY <1>3, <1>6, <1>24
    <2> QED
      BY <1>1, <1>3, <1>18, <1>19, <2>1, <2>2, <2>3, FiledKept
  <1>31. Limited'
    <2>1. Cardinality(objs \ {a}) = n - 1
      BY <1>9, <1>10, FS_RemoveElement
    <2>2. size'[t][c] = Cardinality(cache'[t][c])
      BY <1>13, <1>14, <2>1
    <2>3. n - 1 < maxSize[t][c]
      <3>1. maxSize[t][c] \in Nat
        BY <1>2, <1>3
      <3>2. op[t].n < maxSize[t][c]
        BY <1>4 DEF c
      <3> QED
        BY <1>3, <1>9, <1>10, <3>1, <3>2
    <2>4. size'[t][c] < maxSize'[t][c]
      BY <1>14, <2>3
    <2>5. \A d \in Sizes : d # c =>
              /\ cache'[t][d] = cache[t][d] /\ size'[t][d] = size[t][d]
              /\ maxSize'[t][d] = maxSize[t][d]
      BY <1>13, <1>14
    <2>6. \A d \in Sizes : size'[t][d] = Cardinality(cache'[t][d]) /\ size'[t][d] < maxSize'[t][d]
      BY <1>1, <1>3, <2>2, <2>4, <2>5, OtherLists
    <2>7. ~ Fetching(t)'
      BY <1>15 DEF Fetching, Idle
    <2> QED
      BY <1>1, <1>13, <1>14, <1>15, <2>6, <2>7, LimitedKept
  <1>32. m_nUseCount'[p] > 0
    BY <1>10, <1>16, <1>22
  <1> QED
    BY <1>15, <1>16, <1>17, <1>27, <1>28, <1>29, <1>30, <1>31, <1>32

(* A span that is cut for a class is at a page.                            *)
LEMMA CutAtPage ==
    ASSUME IInv, NEW p, NEW c, Cut(p, c)
    PROVE  p \in Pages
  BY DEF IInv, BlocksApart, Cut

(* FetchRangeObj takes from a span of the list.                            *)
LEMMA FetchRangeIInv ==
    ASSUME IInv, NEW t \in Threads, FetchRange(t)
    PROVE  IInv'
  <1>1. PICK p \in Stocked(op[t].c) : Take(t, p)
    BY DEF FetchRange
  <1>2. op[t].at = "fetch" /\ UNCHANGED <<alloc, m_nObjSize, spanLists, lock, maxSize, exiting>>
    BY DEF FetchRange
  <1>3. op[t].c \in Sizes
    BY <1>2, OpShape DEF IInv, Typed
  <1>4. p \in spanLists[op[t].c]
    BY <1>1 DEF Stocked
  <1>5. Cut(p, op[t].c) /\ p \in Pages
    BY <1>3, <1>4, CutAtPage DEF IInv, Listed
  <1>6. Fetching(t)
    BY <1>2 DEF Fetching
  <1>7. spanLists' \in [Sizes -> SUBSET Pages]
    BY <1>2 DEF IInv, Typed
  <1>8. /\ Typed' /\ BlocksApart' /\ Counted' /\ OneOwner' /\ Filed' /\ Limited'
        /\ op'[t] = Idle /\ \A u \in Threads : u # t => op'[u] = op[u]
        /\ \A q \in Pages : q # p => m_nUseCount'[q] = m_nUseCount[q]
        /\ m_nUseCount'[p] > 0
    BY <1>1, <1>2, <1>5, <1>6, <1>7, TakeKeeps
  <1>9. Listed'
    <2>1. \A q, d : Cut(q, d)' = Cut(q, d)
      BY <1>2 DEF Cut, NumMovePage, NumMoveSize
    <2>2. \A u \in Threads : Moving(u)' => u # t /\ Moving(u)
      BY <1>8 DEF Moving, Idle
    <2>3. \A d \in Sizes : \A q \in spanLists'[d] : Cut(q, d)' /\ m_nUseCount'[q] > 0
      BY <1>2, <1>8, <2>1, CutAtPage DEF IInv, Listed
    <2>4. \A u \in Threads : Moving(u)' =>
             Cut(op[u].s, op[u].c)' /\ m_nUseCount'[op'[u].s] = 0
      <3> SUFFICES ASSUME NEW u \in Threads, Moving(u)'
                   PROVE  Cut(op[u].s, op[u].c)' /\ m_nUseCount'[op'[u].s] = 0
        OBVIOUS
      <3>1. op'[u] = op[u] /\ Cut(op[u].s, op[u].c) /\ m_nUseCount[op[u].s] = 0
        BY <1>8, <2>2 DEF IInv, Listed
      <3>2. op[u].s # p
        <4>1. m_nUseCount[p] > 0
          BY <1>3, <1>4 DEF IInv, Listed
        <4> QED
          BY <3>1, <4>1
      <3>3. op[u].s \in Pages
        BY <3>1, CutAtPage
      <3> QED
        BY <1>8, <2>1, <3>1, <3>2, <3>3
    <2>5. \A u, v \in Threads : u # v /\ Moving(u)' /\ Moving(v)' => op'[u].s # op'[v].s
      BY <1>8, <2>2 DEF IInv, Listed
    <2> QED
      BY <2>3, <2>4, <2>5 DEF Listed
  <1> QED
    BY <1>8, <1>9 DEF IInv

(* GetOneSpan links its new span and takes from it.                        *)
LEMMA LinkSpanIInv ==
    ASSUME IInv, NEW t \in Threads, LinkSpan(t)
    PROVE  IInv'
  <1> DEFINE c == op[t].c
             p == op[t].s
  <1>1. /\ op[t].at = "link" /\ Take(t, p)
        /\ spanLists' = [spanLists EXCEPT ![c] = @ \cup {p}]
        /\ UNCHANGED <<alloc, m_nObjSize, lock, maxSize, exiting>>
    BY DEF LinkSpan
  <1>2. c \in Sizes /\ p \in Pages
    BY <1>1, OpShape DEF IInv, Typed
  <1>3. Moving(t) /\ Fetching(t)
    BY <1>1 DEF Moving, Fetching
  <1>4. Cut(p, c)
    BY <1>3 DEF IInv, Listed
  <1>5. /\ spanLists' \in [Sizes -> SUBSET Pages]
        /\ \A d \in Sizes : spanLists'[d] = IF d = c THEN spanLists[c] \cup {p} ELSE spanLists[d]
    BY <1>1, <1>2 DEF IInv, Typed
  <1>6. /\ Typed' /\ BlocksApart' /\ Counted' /\ OneOwner' /\ Filed' /\ Limited'
        /\ op'[t] = Idle /\ \A u \in Threads : u # t => op'[u] = op[u]
        /\ \A q \in Pages : q # p => m_nUseCount'[q] = m_nUseCount[q]
        /\ m_nUseCount'[p] > 0
    BY <1>1, <1>2, <1>3, <1>4, <1>5, TakeKeeps
  <1>7. Listed'
    <2>1. \A q, d : Cut(q, d)' = Cut(q, d)
      BY <1>1 DEF Cut, NumMovePage, NumMoveSize
    <2>2. \A u \in Threads : Moving(u)' => u # t /\ Moving(u)
      BY <1>6 DEF Moving, Idle
    <2>3. \A d \in Sizes : \A q \in spanLists'[d] : Cut(q, d)' /\ m_nUseCount'[q] > 0
      <3> SUFFICES ASSUME NEW d \in Sizes, NEW q \in spanLists'[d]
                   PROVE  Cut(q, d)' /\ m_nUseCount'[q] > 0
        OBVIOUS
      <3>1. CASE q = p /\ d = c
        BY <1>4, <1>6, <2>1, <3>1
      <3>2. CASE q \in spanLists[d]
        <4>1. Cut(q, d) /\ m_nUseCount[q] > 0
          BY <3>2 DEF IInv, Listed
        <4>2. q \in Pages
          BY <4>1, CutAtPage
        <4> QED
          BY <1>6, <2>1, <4>1, <4>2
      <3> QED
        BY <1>5, <3>1, <3>2
    <2>4. \A u \in Threads : Moving(u)' =>
             Cut(op[u].s, op[u].c)' /\ m_nUseCount'[op'[u].s] = 0
      <3> SUFFICES ASSUME NEW u \in Threads, Moving(u)'
                   PROVE  Cut(op[u].s, op[u].c)' /\ m_nUseCount'[op'[u].s] = 0
        OBVIOUS
      <3>1. op'[u] = op[u] /\ Cut(op[u].s, op[u].c) /\ m_nUseCount[op[u].s] = 0
        BY <1>6, <2>2 DEF IInv, Listed
      <3>2. op[u].s # p
        BY <1>3, <2>2 DEF IInv, Listed
      <3>3. op[u].s \in Pages
        BY <3>1, CutAtPage
      <3> QED
        BY <1>6, <2>1, <3>1, <3>2, <3>3
    <2>5. \A u, v \in Threads : u # v /\ Moving(u)' /\ Moving(v)' => op'[u].s # op'[v].s
      BY <1>6, <2>2 DEF IInv, Listed
    <2> QED
      BY <2>3, <2>4, <2>5 DEF Listed
  <1> QED
    BY <1>6, <1>7 DEF IInv

(* An object returns to its span; a span that has all of its objects again *)
(* leaves the list of its class.                                           *)
LEMMA PutObjectIInv ==
    ASSUME IInv, NEW t \in Threads, PutObject(t)
    PROVE  IInv'
  <1>c. PICK c : c = op[t].c
    OBVIOUS
  <1>1. PICK a \in op[t].objs :
            LET p == SpanOf(a)
                rest == op[t].objs \ {a}
            IN  /\ m_freeList' = [m_freeList EXCEPT ![p] = @ \union {a}]
                /\ m_nUseCount' = [m_nUseCount EXCEPT ![p] = @ - 1]
                /\ IF m_nUseCount'[p] = 0
                   THEN /\ spanLists' = [spanLists EXCEPT ![c] = @ \ {p}]
                        /\ lock' = [lock EXCEPT ![c] = Nobody]
                        /\ op' = [op EXCEPT ![t] =
                                   [at |-> "giveback", c |-> c, objs |-> rest, s |-> p]]
                   ELSE /\ op' = [op EXCEPT ![t].objs = rest]
                        /\ UNCHANGED <<spanLists, lock>>
    BY <1>c DEF PutObject
  <1>p. PICK p : p = SpanOf(a)
    OBVIOUS
  <1> DEFINE rest == op[t].objs \ {a}
             g == [at |-> "giveback", c |-> c, objs |-> rest, s |-> p]
             o == [at |-> "put", c |-> c, objs |-> rest]
  <1>2. /\ op[t].at = "put"
        /\ UNCHANGED <<alloc, m_nObjSize, cache, size, maxSize, user, exiting>>
    BY DEF PutObject, caches
  <1>3. Typed /\ BlocksApart /\ Filed /\ OneOwner /\ Listed /\ Limited
    BY DEF IInv
  <1>4. /\ op \in [Threads -> Ops] /\ m_freeList \in [Pages -> SUBSET Cells]
        /\ m_nUseCount \in [Pages -> Int] /\ spanLists \in [Sizes -> SUBSET Pages]
        /\ lock \in [Sizes -> Threads \cup {Nobody}]
    BY <1>3 DEF Typed
  <1>5. /\ c \in Sizes /\ op[t].objs \subseteq Cells /\ a \in op[t].objs
        /\ op[t] = [at |-> "put", c |-> c, objs |-> op[t].objs]
    BY <1>2, <1>4, <1>c, OpShape
  <1>6. InFlight(t) = op[t].objs /\ a \in Placed
    <2>1. InFlight(t) = op[t].objs
      BY <1>2 DEF InFlight
    <2> QED
      BY <1>3, <2>1, HeldPlaced
  <1>7. Cut(p, c) /\ p \in Pages
    <2>1. BlockOf(a) \in alloc /\ m_nObjSize[p] = c
      BY <1>3, <1>6, <1>c, <1>p DEF Filed
    <2>2. c <= MAX_BYTES /\ c \in Nat /\ MAX_BYTES \in Nat
      BY <1>5, MovesSome, MemPoolAssumption
    <2>3. BlockOf(a)[1] = p
      BY <1>p DEF SpanOf
    <2>4. BlockOf(a)[2] = NumMovePage(c)
      BY <1>3, <2>1, <2>2, <2>3 DEF BlocksApart
    <2>5. BlockOf(a) = <<p, NumMovePage(c)>>
      BY <1>3, <2>1, <2>3, <2>4 DEF BlocksApart
    <2>6. Cut(p, c)
      BY <2>1, <2>5 DEF Cut
    <2> QED
      BY <2>6, CutAtPage
  <1>8. /\ m_freeList[p] \cup Away(p) = Carve(p, NumMovePage(c), c)
        /\ m_freeList[p] \cap Away(p) = {}
        /\ m_nUseCount[p] = Cardinality(Away(p))
        /\ IsFiniteSet(Away(p)) /\ Cardinality(Away(p)) \in Nat
    BY <1>5, <1>7, SpanFacts
  <1>9. a \in Away(p)
    BY <1>6, <1>p, AwayPlaced
  <1>10. /\ m_freeList' = [m_freeList EXCEPT ![p] = m_freeList[p] \cup {a}]
         /\ m_nUseCount' = [m_nUseCount EXCEPT ![p] = m_nUseCount[p] - 1]
    BY <1>1, <1>p
  <1>11. \/ /\ m_nUseCount'[p] = 0
            /\ spanLists' = [spanLists EXCEPT ![c] = @ \ {p}]
            /\ lock' = [lock EXCEPT ![c] = Nobody]
            /\ op' = [op EXCEPT ![t] = g]
         \/ /\ m_nUseCount'[p] # 0
            /\ op' = [op EXCEPT ![t] = o]
            /\ UNCHANGED <<spanLists, lock>>
    <2>1. CASE m_nUseCount'[p] = 0
      BY <1>1, <1>p, <2>1
    <2>2. CASE m_nUseCount'[p] # 0
      <3>1. op' = [op EXCEPT ![t].objs = rest] /\ UNCHANGED <<spanLists, lock>>
        BY <1>1, <1>p, <2>2
      <3>2. op' = [op EXCEPT ![t] = [op[t] EXCEPT !.objs = rest]]
        BY <3>1
      <3>3. [op[t] EXCEPT !.objs = rest] = o
        <4>1. ASSUME NEW x, NEW d, NEW r, NEW e, x = [at |-> "put", c |-> d, objs |-> r]
              PROVE  [x EXCEPT !.objs = e] = [at |-> "put", c |-> d, objs |-> e]
          BY <4>1
        <4> HIDE DEF rest
        <4> QED
          BY <1>5, <4>1
      <3> QED
        BY <2>2, <3>1, <3>2, <3>3
    <2> QED
      BY <2>1, <2>2
  <1>12. g \in Ops /\ o \in Ops
    <2>1. rest \in SUBSET Cells
      BY <1>5
    <2> QED
      BY <1>5, <1>7, <2>1, OpForms
  <1>13. /\ op' \in [Threads -> Ops] /\ (op'[t] = g \/ op'[t] = o)
         /\ \A u \in Threads : u # t => op'[u] = op[u]
    BY <1>4, <1>11, <1>12, Goes
  <1>14. InFlight(t)' = op[t].objs \ {a} /\ op'[t].c = c
    BY <1>13 DEF InFlight
  <1>15. /\ m_freeList' \in [Pages -> SUBSET Cells] /\ m_freeList'[p] = m_freeList[p] \cup {a}
         /\ m_nUseCount' \in [Pages -> Int] /\ m_nUseCount'[p] = m_nUseCount[p] - 1
         /\ \A q \in Pages : q # p =>
               m_freeList'[q] = m_freeList[q] /\ m_nUseCount'[q] = m_nUseCount[q]
    BY <1>4, <1>5, <1>7, <1>8, <1>10
  <1>16. /\ spanLists' \in [Sizes -> SUBSET Pages]
         /\ \A d \in Sizes : spanLists'[d] \subseteq spanLists[d]
         /\ m_nUseCount'[p] = 0 => spanLists'[c] = spanLists[c] \ {p}
    BY <1>4, <1>5, <1>11
  <1>17. Typed'
    <2>1. lock' \in [Sizes -> Threads \cup {Nobody}]
      BY <1>4, <1>5, <1>11
    <2> QED
      BY <1>2, <1>3, <1>13, <1>15, <1>16, <2>1 DEF Typed
  <1>18. Changes(t, c)
    BY <1>2, <1>13 DEF Changes
  <1>19. a \in Mine(t, c) /\ user' \cup InFlight(t)' \cup cache'[t][c] = Mine(t, c) \ {a}
    <2>1. a \notin user /\ a \notin cache[t][c]
      BY <1>3, <1>5, <1>6 DEF OneOwner
    <2> QED
      BY <1>2, <1>5, <1>6, <1>14, <2>1 DEF Mine
  <1>20. Placed' = Placed \ {a}
    BY <1>3, <1>5, <1>17, <1>18, <1>19, PlacedDropped
  <1>21. Away(p)' = Away(p) \ {a}
    BY <1>2, <1>20, SameBlocks, AwayPlaced, AwayPlacedNext
  <1>22. m_nUseCount'[p] = Cardinality(Away(p)') /\ m_nUseCount'[p] \in Nat
    <2>1. Cardinality(Away(p) \ {a}) = Cardinality(Away(p)) - 1 /\ IsFiniteSet(Away(p) \ {a})
      BY <1>8, <1>9, FS_RemoveElement
    <2>2. Cardinality(Away(p) \ {a}) \in Nat
      BY <2>1, FS_CardinalityType
    <2> QED
      BY <1>8, <1>15, <1>21, <2>1, <2>2
  <1>23. Counted'
    <2>1. m_freeList'[p] \cup Away(p)' = m_freeList[p] \cup Away(p)
      BY <1>9, <1>15, <1>21
    <2>2. m_freeList'[p] \cap Away(p)' = {}
      BY <1>8, <1>15, <1>21
    <2>3. \A x : x \in Placed' /\ SpanOf(x) # p <=> x \in Placed /\ SpanOf(x) # p
      BY <1>20, <1>p
    <2> QED
      BY <1>2, <1>5, <1>7, <1>15, <1>22, <2>1, <2>2, <2>3, CountedOne
  <1>24. BlocksApart'
    BY <1>2, <1>3 DEF BlocksApart, NumMovePage, NumMoveSize
  <1>25. OneOwner'
    <2>1. {} \cap Placed = {}
      OBVIOUS
    <2>2. /\ user' \subseteq Mine(t, c) \cup {}
          /\ InFlight(t)' \subseteq Mine(t, c) \cup {}
          /\ cache'[t][c] \subseteq Mine(t, c) \cup {}
      BY <1>19
    <2>3. /\ user' \cap InFlight(t)' = {} /\ user' \cap cache'[t][c] = {}
          /\ InFlight(t)' \cap cache'[t][c] = {}
      BY <1>2, <1>3, <1>5, <1>6, <1>14 DEF OneOwner
    <2> QED
      BY <1>3, <1>5, <1>18, <2>1, <2>2, <2>3, Exchange
  <1>26. Filed'
    <2>1. \A x \in Placed' : BlockOf(x) \in alloc /\ In(BlockOf(x), x)
      BY <1>3, <1>20 DEF Filed
    <2>2. \A x \in InFlight(t)' : m_nObjSize[SpanOf(x)] = op'[t].c
      BY <1>3, <1>6, <1>14, <1>c DEF Filed
    <2>3. /\ \A x \in cache'[t][c] : m_nObjSize[SpanOf(x)] = c
          /\ \A x \in user' : x \in user \/ m_nObjSize[SpanOf(x)] \in Sizes
      BY <1>2, <1>3, <1>5 DEF Filed
    <2> QED
      BY <1>2, <1>3, <1>5, <1>18, <2>1, <2>2, <2>3, FiledKept
  <1>27. Limited'
    <2>1. ~ Fetching(t)'
      BY <1>13 DEF Fetching
    <2> QED
      BY <1>2, <1>3, <1>13, <2>1, SameLists DEF caches
  <1>28. Listed'
    <2>1. \A q, d : Cut(q, d)' = Cut(q, d)
      BY <1>2 DEF Cut, NumMovePage, NumMoveSize
    <2>2. m_nUseCount[p] > 0
      <3>1. m_nUseCount[p] = m_nUseCount'[p] + 1
        BY <1>8, <1>15
      <3> QED
        BY <1>22, <3>1
    <2>3. \A d \in Sizes : \A q \in spanLists'[d] : Cut(q, d)' /\ m_nUseCount'[q] > 0
      <3> SUFFICES ASSUME NEW d \in Sizes, NEW q \in spanLists'[d]
                   PROVE  Cut(q, d)' /\ m_nUseCount'[q] > 0
        OBVIOUS
      <3>1. Cut(q, d) /\ m_nUseCount[q] > 0 /\ q \in Pages
        BY <1>3, <1>16, CutAtPage DEF Listed
      <3>2. CASE q # p
        BY <1>15, <2>1, <3>1, <3>2
      <3>3. CASE q = p
        <4>1. d = c
          BY <1>7, <3>1, <3>3 DEF Cut
        <4>2. m_nUseCount'[p] # 0
          BY <1>16, <3>3, <4>1
        <4> QED
          BY <1>22, <2>1, <3>1, <3>3, <4>2
      <3> QED
        BY <3>2, <3>3
    <2>4. \A u \in Threads : u # t /\ Moving(u)' =>
             /\ Moving(u) /\ op'[u] = op[u]
             /\ Cut(op[u].s, op[u].c) /\ m_nUseCount[op[u].s] = 0
             /\ op[u].s # p /\ op[u].s \in Pages
      <3> SUFFICES ASSUME NEW u \in Threads, u # t, Moving(u)'
                   PROVE  /\ Moving(u) /\ op'[u] = op[u]
                          /\ Cut(op[u].s, op[u].c) /\ m_nUseCount[op[u].s] = 0
                          /\ op[u].s # p /\ op[u].s \in Pages
        OBVIOUS
      <3>1. Moving(u) /\ op'[u] = op[u]
        BY <1>13 DEF Moving
      <3>2. Cut(op[u].s, op[u].c) /\ m_nUseCount[op[u].s] = 0
        BY <1>3, <3>1 DEF Listed
      <3> QED
        BY <2>2, <3>1, <3>2, CutAtPage
    <2>5. Moving(t)' => op'[t] = g /\ m_nUseCount'[p] = 0
      <3>1. g # o
        OBVIOUS
      <3>2. op[t] \in Ops /\ op'[t] = o => ~ Moving(t)'
        BY DEF Moving
      <3>3. m_nUseCount'[p] # 0 => op'[t] = o
        BY <1>4, <1>11, <1>12, Goes
      <3> QED
        BY <1>4, <1>13, <3>2, <3>3
    <2>6. \A u \in Threads : Moving(u)' =>
             Cut(op[u].s, op[u].c)' /\ m_nUseCount'[op'[u].s] = 0
      <3> SUFFICES ASSUME NEW u \in Threads, Moving(u)'
                   PROVE  Cut(op[u].s, op[u].c)' /\ m_nUseCount'[op'[u].s] = 0
        OBVIOUS
      <3>1. CASE u = t
        <4>1. op'[u].s = p /\ op'[u].c = c /\ m_nUseCount'[p] = 0
          BY <2>5, <3>1
        <4>2. Cut(p, c)'
          BY <1>7, <2>1
        <4>3. Cut(op[u].s, op[u].c)' <=> Cut(p, c)'
          BY <4>1 DEF Cut
        <4> QED
          BY <4>1, <4>2, <4>3
      <3>2. CASE u # t
        BY <1>15, <2>1, <2>4, <3>2
      <3> QED
        BY <3>1, <3>2
    <2>7. \A u, v \in Threads : u # v /\ Moving(u)' /\ Moving(v)' => op'[u].s # op'[v].s
      BY <1>3, <2>4, <2>5 DEF Listed
    <2> QED
      BY <2>3, <2>6, <2>7 DEF Listed
  <1> QED
    BY <1>17, <1>23, <1>24, <1>25, <1>26, <1>27, <1>28 DEF IInv

-----------------------------------------------------------------------------
(* A block of pages that nobody had: no object lies in it, and no span     *)
(* begins where it begins.                                                 *)
LEMMA NewBlock ==
    ASSUME IInv, NEW k \in Nat, k >= 1, PageCache!Acquire(k),
           NEW p \in Pages, <<p, k>> \in alloc' \ alloc,
           NEW v \in Nat, m_nObjSize' = [m_nObjSize EXCEPT ![p] = v],
           \/ v \in Sizes /\ k = NumMovePage(v)
           \/ v > MAX_BYTES /\ v = k * PageCells
    PROVE  /\ alloc' = alloc \cup {<<p, k>>} /\ BlocksApart'
           /\ \A b \in alloc : b[1] # p
           /\ \A a \in Placed : /\ ~ In(<<p, k>>, a) /\ SpanOf(a) # p
                                /\ BlockOf(a)' = BlockOf(a) /\ SpanOf(a)' = SpanOf(a)
                                /\ m_nObjSize'[SpanOf(a)] = m_nObjSize[SpanOf(a)]
           /\ \A q, c : Cut(q, c) => Cut(q, c)' /\ q # p
           /\ m_nUseCount[p] = 0
  <1> DEFINE b == <<p, k>>
  <1>1. PICK q \in 0 .. (NumPages - k) :
           /\ \A d \in alloc : ~ PageCache!Overlap(d, <<q, k>>)
           /\ alloc' = alloc \union {<<q, k>>}
    BY DEF PageCache!Acquire, PageCache!Overlap
  <1>2. q = p
    BY <1>1
  <1>3. alloc' = alloc \cup {b} /\ p + k <= NumPages /\ p \in Nat /\ k <= NumPages
    BY <1>1, <1>2, MemPoolAssumption
  <1>4. /\ BlocksApart /\ Filed /\ Typed /\ Counted
    BY DEF IInv
  <1>5. /\ b[1] = p /\ b[2] = k /\ b \notin alloc /\ b \in Pages \X (1 .. NumPages)
    BY <1>3, MemPoolAssumption
  <1>6. \A d \in alloc : d[1] \in Nat /\ d[2] \in Nat /\ d[2] >= 1
    BY <1>4 DEF BlocksApart, Pages
  <1>7. \A d \in alloc : ~ PageCache!Overlap(d, b) /\ ~ PageCache!Overlap(b, d) /\ d[1] # p
    <2> SUFFICES ASSUME NEW d \in alloc
                 PROVE  ~ PageCache!Overlap(d, b) /\ ~ PageCache!Overlap(b, d) /\ d[1] # p
      OBVIOUS
    <2>1. ~ (d[1] < p + k /\ p < d[1] + d[2])
      BY <1>1, <1>2 DEF PageCache!Overlap
    <2> QED
      BY <1>3, <1>5, <1>6, <2>1 DEF PageCache!Overlap
  <1> HIDE DEF b
  <1>8. \A d, e \in alloc' : d # e => ~ PageCache!Overlap(d, e)
    BY <1>3, <1>4, <1>7 DEF BlocksApart
  <1>9. \A n : n # p => m_nObjSize'[n] = m_nObjSize[n]
    BY <1>4 DEF Typed
  <1>10. m_nObjSize'[p] = v
    BY <1>4 DEF Typed
  <1>11. BlocksApart'
    <2>1. alloc' \subseteq Pages \X (1 .. NumPages)
      BY <1>3, <1>4, <1>5 DEF BlocksApart
    <2>2. \A d \in alloc' : d[1] + d[2] <= NumPages
      BY <1>3, <1>4, <1>5 DEF BlocksApart
    <2>3. ASSUME NEW d \in alloc'
          PROVE  \/ m_nObjSize'[d[1]] \in Sizes /\ d[2] = NumMovePage(m_nObjSize'[d[1]])
                 \/ m_nObjSize'[d[1]] > MAX_BYTES /\ m_nObjSize'[d[1]] = d[2] * PageCells
      <3>1. CASE d = b
        BY <1>5, <1>10, <3>1
      <3>2. CASE d \in alloc
        BY <1>4, <1>7, <1>9, <3>2 DEF BlocksApart
      <3> QED
        BY <1>3, <3>1, <3>2
    <2> QED
      BY <2>1, <2>2, <1>8, <2>3 DEF BlocksApart, NumMovePage, NumMoveSize
  <1>12. Apart(alloc')
    BY <1>11, ApartNext
  <1>13. ASSUME NEW a \in Placed
         PROVE  /\ ~ In(b, a) /\ SpanOf(a) # p
                /\ BlockOf(a)' = BlockOf(a) /\ SpanOf(a)' = SpanOf(a)
                /\ m_nObjSize'[SpanOf(a)] = m_nObjSize[SpanOf(a)]
    <2>1. BlockOf(a) \in alloc /\ In(BlockOf(a), a)
      BY <1>4 DEF Filed
    <2>2. a \in Int
      BY <1>4, HeldPlaced, MemPoolAssumption DEF Cells
    <2>3. PICK d \in alloc : d = BlockOf(a)
      BY <2>1
    <2>4. d \in alloc' /\ b \in alloc' /\ d # b /\ In(d, a)
      BY <1>3, <1>5, <2>1, <2>3
    <2>5. BlockOf(a)' = d /\ SpanOf(a)' = d[1]
      BY <1>12, <2>2, <2>4, FoundNext
    <2>6. ~ In(b, a)
      <3>1. SUFFICES ASSUME In(b, a) PROVE FALSE
        OBVIOUS
      <3>2. BlockOf(a)' = b
        BY <1>12, <2>2, <2>4, <3>1, FoundNext
      <3> QED
        BY <2>4, <2>5, <3>2
    <2>7. SpanOf(a) = d[1] /\ d[1] # p
      BY <1>7, <2>3 DEF SpanOf
    <2> QED
      BY <1>9, <2>3, <2>5, <2>6, <2>7
  <1>14. ASSUME NEW n, NEW c, Cut(n, c)
         PROVE  Cut(n, c)' /\ n # p
    <2>1. <<n, NumMovePage(c)>> \in alloc /\ m_nObjSize[n] = c
      BY <1>14 DEF Cut
    <2>2. n # p
      BY <1>7, <2>1
    <2> QED
      BY <1>3, <1>9, <2>1, <2>2 DEF Cut, NumMovePage, NumMoveSize
  <1>15. m_nUseCount[p] = 0
    BY <1>4, <1>14 DEF Counted
  <1> QED
    BY <1>3, <1>7, <1>11, <1>13, <1>14, <1>15 DEF b

(* A block goes back that holds no object: the rest stays.                 *)
LEMMA GoneBlock ==
    ASSUME IInv, NEW b \in alloc, alloc' = alloc \ {b},
           \A q : q # b[1] => m_nObjSize'[q] = m_nObjSize[q]
    PROVE  /\ BlocksApart'
           /\ \A d \in alloc' : d \in alloc /\ d[1] # b[1]
           /\ \A a \in Placed : BlockOf(a) # b =>
                 /\ BlockOf(a) \in alloc' /\ In(BlockOf(a), a) /\ SpanOf(a) # b[1]
                 /\ BlockOf(a)' = BlockOf(a) /\ SpanOf(a)' = SpanOf(a)
                 /\ m_nObjSize'[SpanOf(a)] = m_nObjSize[SpanOf(a)]
           /\ \A q, c : Cut(q, c) /\ q # b[1] => Cut(q, c)'
  <1>1. /\ BlocksApart /\ Filed /\ Typed /\ Apart(alloc)
    BY ApartNow DEF IInv
  <1>2. \A d \in alloc' : d \in alloc /\ d[1] # b[1]
    BY <1>1, SameStart
  <1>3. BlocksApart'
    BY <1>1, <1>2 DEF BlocksApart, NumMovePage, NumMoveSize
  <1>4. Apart(alloc')
    BY <1>3, ApartNext
  <1>5. ASSUME NEW a \in Placed, BlockOf(a) # b
        PROVE  /\ BlockOf(a) \in alloc' /\ In(BlockOf(a), a) /\ SpanOf(a) # b[1]
               /\ BlockOf(a)' = BlockOf(a) /\ SpanOf(a)' = SpanOf(a)
               /\ m_nObjSize'[SpanOf(a)] = m_nObjSize[SpanOf(a)]
    <2>1. PICK d \in alloc' : d = BlockOf(a) /\ In(d, a)
      BY <1>1, <1>5 DEF Filed
    <2>2. a \in Int
      BY <1>1, HeldPlaced, MemPoolAssumption DEF Cells
    <2>3. BlockOf(a)' = d /\ SpanOf(a)' = d[1]
      BY <1>4, <2>1, <2>2, FoundNext
    <2>4. SpanOf(a) = d[1] /\ d[1] # b[1]
      BY <1>2, <2>1 DEF SpanOf
    <2> QED
      BY <2>1, <2>3, <2>4
  <1>6. ASSUME NEW q, NEW c, Cut(q, c), q # b[1]
        PROVE  Cut(q, c)'
    <2>1. <<q, NumMovePage(c)>> \in alloc' /\ m_nObjSize'[q] = c
      BY <1>6 DEF Cut
    <2> QED
      BY <2>1 DEF Cut, NumMovePage, NumMoveSize
  <1> QED
    BY <1>2, <1>3, <1>5, <1>6

(* GetOneSpan cuts a new span, which only this call knows of.              *)
LEMMA NewSpanIInv ==
    ASSUME IInv, NEW t \in Threads, NewSpan(t)
    PROVE  IInv' /\ SameLengths
  <1>c. PICK c : c = op[t].c
    OBVIOUS
  <1>k. PICK k : k = NumMovePage(c)
    OBVIOUS
  <1>1. /\ op[t].at = "newspan" /\ PageCache!Acquire(k)
        /\ UNCHANGED <<m_nUseCount, spanLists, lock, cache, size, maxSize, user, exiting>>
    BY <1>c, <1>k DEF NewSpan, caches
  <1>2. PICK p \in Pages :
               /\ <<p, k>> \in alloc' \ alloc
               /\ m_freeList' = [m_freeList EXCEPT ![p] = Carve(p, k, c)]
               /\ m_nObjSize' = [m_nObjSize EXCEPT ![p] = c]
               /\ op' = [op EXCEPT ![t] = [at |-> "link", c |-> c, n |-> op[t].n, s |-> p]]
    BY <1>c, <1>k DEF NewSpan
  <1> DEFINE o == [at |-> "link", c |-> c, n |-> op[t].n, s |-> p]
  <1>3. Typed /\ Filed /\ Counted /\ OneOwner /\ Listed /\ Limited
    BY DEF IInv
  <1>4. /\ op \in [Threads -> Ops] /\ m_freeList \in [Pages -> SUBSET Cells]
        /\ m_nObjSize \in [Pages -> Nat]
    BY <1>3 DEF Typed
  <1>5. c \in Sizes /\ op[t].n \in Nat /\ c \in Nat /\ k \in Nat /\ k >= 1
    BY <1>1, <1>4, <1>c, <1>k, OpShape, MovesSome
  <1>6. /\ op' \in [Threads -> Ops] /\ op'[t] = o
        /\ \A u \in Threads : u # t => op'[u] = op[u]
    <2>1. o \in Ops
      BY <1>5, OpForms
    <2> QED
      BY <1>2, <1>4, <2>1, Goes
  <1>7. /\ alloc' = alloc \cup {<<p, k>>} /\ BlocksApart'
        /\ \A b \in alloc : b[1] # p
        /\ \A a \in Placed : /\ ~ In(<<p, k>>, a) /\ SpanOf(a) # p
                             /\ BlockOf(a)' = BlockOf(a) /\ SpanOf(a)' = SpanOf(a)
                             /\ m_nObjSize'[SpanOf(a)] = m_nObjSize[SpanOf(a)]
        /\ \A q, d : Cut(q, d) => Cut(q, d)' /\ q # p
        /\ m_nUseCount[p] = 0
    BY <1>1, <1>2, <1>5, <1>k, NewBlock
  <1>8. /\ m_freeList' \in [Pages -> SUBSET Cells] /\ m_freeList'[p] = Carve(p, k, c)
        /\ m_nObjSize' \in [Pages -> Nat] /\ m_nObjSize'[p] = c
        /\ \A q \in Pages : q # p => m_freeList'[q] = m_freeList[q] /\ m_nObjSize'[q] = m_nObjSize[q]
    <2>1. Carve(p, k, c) \in SUBSET Cells
      BY DEF Carve
    <2> QED
      BY <1>2, <1>4, <1>5, <2>1
  <1>9. Typed'
    BY <1>1, <1>3, <1>6, <1>8 DEF Typed
  <1>10. \A u \in Threads : InFlight(u)' = InFlight(u) /\ (op'[u] = op[u] \/ InFlight(u) = {})
    <2>1. InFlight(t) = {} /\ InFlight(t)' = {}
      BY <1>1, <1>6 DEF InFlight
    <2> QED
      BY <1>6, <2>1 DEF InFlight
  <1>11. Placed' = Placed
    BY <1>1, <1>10 DEF Placed, Cells
  <1>12. OneOwner'
    BY <1>1, <1>3, <1>10 DEF OneOwner
  <1>13. Filed'
    <2>1. \A a \in Placed' : BlockOf(a)' \in alloc' /\ In(BlockOf(a), a)'
      BY <1>3, <1>7, <1>11 DEF In, Filed
    <2>2. \A u \in Threads : \A a \in InFlight(u)' : m_nObjSize'[SpanOf(a)'] = op'[u].c
      BY <1>3, <1>7, <1>10, HeldPlaced DEF Filed
    <2>3. \A u \in Threads, d \in Sizes : \A a \in cache'[u][d] : m_nObjSize'[SpanOf(a)'] = d
      BY <1>1, <1>3, <1>7, HeldPlaced DEF Filed
    <2>4. \A a \in user' : m_nObjSize'[SpanOf(a)'] \in Sizes \/ a = SpanOf(a)' * PageCells
      BY <1>1, <1>3, <1>7, HeldPlaced DEF Filed
    <2> QED
      BY <2>1, <2>2, <2>3, <2>4 DEF Filed
  <1>14. Counted'
    <2>1. \A q : q # p => Away(q)' = Away(q)
      BY <1>7, <1>11, AwayPlaced, AwayPlacedNext
    <2>2. Away(p)' = {}
      BY <1>7, <1>11, AwayPlacedNext
    <2>3. \A q, n, d : Carve(q, n, d)' = Carve(q, n, d)
      BY DEF Carve, Cells
    <2>4. ASSUME NEW b \in SmallBlocks'
          PROVE  /\ m_freeList'[b[1]] \cup Away(b[1])' = Carve(b[1], b[2], m_nObjSize'[b[1]])
                 /\ m_freeList'[b[1]] \cap Away(b[1])' = {}
                 /\ m_nUseCount'[b[1]] = Cardinality(Away(b[1])')
      <3>1. CASE b = <<p, k>>
        <4>1. b[1] = p /\ b[2] = k
          BY <3>1
        <4> QED
          BY <1>1, <1>7, <1>8, <2>2, <4>1, FS_EmptySet
      <3>2. CASE b \in alloc
        <4>1. b[1] # p /\ b[1] \in Pages
          BY <1>7, <3>2 DEF IInv, BlocksApart
        <4>2. b \in SmallBlocks
          BY <1>8, <3>2, <4>1 DEF SmallBlocks
        <4>3. /\ m_freeList[b[1]] \cup Away(b[1]) = Carve(b[1], b[2], m_nObjSize[b[1]])
              /\ m_freeList[b[1]] \cap Away(b[1]) = {}
              /\ m_nUseCount[b[1]] = Cardinality(Away(b[1]))
          BY <1>3, <4>2 DEF Counted, AccountedFor
        <4> QED
          BY <1>1, <1>8, <2>1, <4>1, <4>3
      <3> QED
        BY <1>7, <3>1, <3>2 DEF SmallBlocks
    <2>5. AccountedFor'
      BY <2>3, <2>4 DEF AccountedFor
    <2>6. \A q \in Pages : m_nUseCount'[q] # 0 => \E d \in Sizes : Cut(q, d)'
      BY <1>1, <1>3, <1>7 DEF Counted
    <2> QED
      BY <2>5, <2>6 DEF Counted
  <1>15. Cut(p, c)'
    BY <1>7, <1>8, <1>k DEF Cut, NumMovePage, NumMoveSize
  <1>16. Listed'
    <2>1. \A d \in Sizes : \A q \in spanLists'[d] : Cut(q, d)' /\ m_nUseCount'[q] > 0
      BY <1>1, <1>3, <1>7 DEF Listed
    <2>2. \A u \in Threads : u # t /\ Moving(u)' =>
             /\ Moving(u) /\ op'[u] = op[u]
             /\ Cut(op[u].s, op[u].c)' /\ m_nUseCount[op[u].s] = 0 /\ op[u].s # p
      <3> SUFFICES ASSUME NEW u \in Threads, u # t, Moving(u)'
                   PROVE  /\ Moving(u) /\ op'[u] = op[u]
                          /\ Cut(op[u].s, op[u].c)' /\ m_nUseCount[op[u].s] = 0 /\ op[u].s # p
        OBVIOUS
      <3>1. Moving(u) /\ op'[u] = op[u]
        BY <1>6 DEF Moving
      <3>2. Cut(op[u].s, op[u].c) /\ m_nUseCount[op[u].s] = 0
        BY <1>3, <3>1 DEF Listed
      <3>3. /\ <<op[u].s, NumMovePage(op[u].c)>> \in alloc /\ m_nObjSize[op[u].s] = op[u].c
            /\ op[u].s # p /\ op[u].s \in Pages
        BY <1>7, <3>2, CutAtPage DEF Cut
      <3>4. Cut(op[u].s, op[u].c)'
        BY <1>7, <1>8, <3>1, <3>3 DEF Cut, NumMovePage, NumMoveSize
      <3> QED
        BY <3>1, <3>2, <3>3, <3>4
    <2>3. op'[t].s = p /\ op'[t].c = c
      BY <1>6
    <2>4. Cut(op[t].s, op[t].c)' /\ m_nUseCount'[op'[t].s] = 0
      BY <1>1, <1>7, <1>15, <2>3 DEF Cut, NumMovePage, NumMoveSize
    <2>5. \A u \in Threads : Moving(u)' =>
             Cut(op[u].s, op[u].c)' /\ m_nUseCount'[op'[u].s] = 0
      BY <1>1, <2>2, <2>4
    <2>6. \A u, v \in Threads : u # v /\ Moving(u)' /\ Moving(v)' => op'[u].s # op'[v].s
      BY <1>3, <2>2, <2>3 DEF Listed
    <2> QED
      BY <2>1, <2>5, <2>6 DEF Listed
  <1>17. Limited'
    <2>1. Fetching(t) /\ op'[t].n = op[t].n /\ op'[t].c = op[t].c
      BY <1>1, <1>6, <1>c DEF Fetching
    <2> QED
      BY <1>1, <1>3, <1>6, <2>1, SameLists DEF caches
  <1>18. SameLengths
    BY <1>3, <1>7, HeldPlaced DEF SameLengths
  <1> QED
    BY <1>18, <1>7, <1>9, <1>12, <1>13, <1>14, <1>16, <1>17 DEF IInv

(* A large block is the caller's; no span and no list knows of it.         *)
LEMMA AllocateLargeIInv ==
    ASSUME IInv, NEW t \in Threads, NEW k \in LargePages, AllocateLarge(t, k)
    PROVE  IInv' /\ SameLengths
  <1>1. /\ PageCache!Acquire(k)
        /\ UNCHANGED <<m_freeList, m_nUseCount, spanLists, lock, cache, size, maxSize, op, exiting>>
    BY DEF AllocateLarge, spans, caches
  <1>v. PICK v : v = k * PageCells
    OBVIOUS
  <1>2. PICK p \in Pages :
               /\ <<p, k>> \in alloc' \ alloc
               /\ m_nObjSize' = [m_nObjSize EXCEPT ![p] = v]
               /\ user' = user \union {p * PageCells}
    BY <1>v DEF AllocateLarge
  <1>a. PICK a : a = p * PageCells
    OBVIOUS
  <1>3. Typed /\ Filed /\ Counted /\ OneOwner /\ Listed /\ Limited
    BY DEF IInv
  <1>4. /\ k \in Nat /\ v > MAX_BYTES /\ PageCells \in Nat /\ PageCells >= 1 /\ MAX_BYTES \in Nat
    BY <1>v, MemPoolAssumption
  <1>5. k >= 1 /\ v \in Nat /\ v \notin Sizes
    <2>1. k # 0
      BY <1>4, <1>v
    <2>2. \A c \in Sizes : c <= MAX_BYTES /\ c \in Nat
      BY MemPoolAssumption
    <2>3. v \in Nat
      BY <1>4, <1>v
    <2>4. v \notin Sizes
      BY <1>4, <2>2, <2>3
    <2> QED
      BY <1>4, <2>1, <2>3, <2>4
  <1>6. /\ alloc' = alloc \cup {<<p, k>>} /\ BlocksApart'
        /\ \A b \in alloc : b[1] # p
        /\ \A x \in Placed : /\ ~ In(<<p, k>>, x) /\ SpanOf(x) # p
                             /\ BlockOf(x)' = BlockOf(x) /\ SpanOf(x)' = SpanOf(x)
                             /\ m_nObjSize'[SpanOf(x)] = m_nObjSize[SpanOf(x)]
        /\ \A q, d : Cut(q, d) => Cut(q, d)' /\ q # p
        /\ m_nUseCount[p] = 0
    BY <1>1, <1>2, <1>4, <1>5, <1>v, NewBlock
  <1>7. /\ m_nObjSize' \in [Pages -> Nat] /\ m_nObjSize'[p] = v
        /\ \A q \in Pages : q # p => m_nObjSize'[q] = m_nObjSize[q]
    BY <1>2, <1>3, <1>5 DEF Typed
  <1>8. a \in Int /\ In(<<p, k>>, a) /\ a \in Cells
    <2>1. p \in Int /\ p >= 0 /\ p + 1 <= NumPages /\ NumPages \in Int /\ p + k \in Int
      BY <1>4, MemPoolAssumption DEF Pages
    <2>2. p < NumPages /\ p < p + k /\ 0 <= p
      BY <1>4, <1>5, <2>1 DEF Pages
    <2>3. /\ p * PageCells \in Int /\ p * PageCells + PageCells <= NumPages * PageCells
          /\ p * PageCells + PageCells <= (p + k) * PageCells
          /\ 0 * PageCells <= p * PageCells
          /\ NumPages * PageCells \in Int /\ (p + k) * PageCells \in Int
      BY <2>1, <2>2, Ordered
    <2>4. 0 * PageCells = 0
      BY <1>4
    <2>5. In(<<p, k>>, a)
      BY <1>4, <1>a, <2>3 DEF In
    <2>6. 0 <= a /\ a <= NumPages * PageCells - 1 /\ a \in Int
      BY <1>4, <1>a, <2>3, <2>4
    <2> QED
      BY <2>3, <2>5, <2>6 DEF Cells
  <1>9. BlockOf(a)' = <<p, k>> /\ SpanOf(a)' = p /\ a \notin Placed
    <2>1. Apart(alloc') /\ <<p, k>> \in alloc'
      BY <1>6, ApartNext
    <2>2. BlockOf(a)' = <<p, k>> /\ SpanOf(a)' = <<p, k>>[1]
      BY <1>8, <2>1, FoundNext
    <2> QED
      BY <1>6, <1>8, <2>2
  <1>10. user' = user \cup {a} /\ Placed' = Placed \cup {a}
    <2>1. user' = user \cup {a}
      BY <1>2, <1>a
    <2>2. \A u \in Threads : InFlight(u)' = InFlight(u)
      BY <1>1 DEF InFlight
    <2> QED
      BY <1>1, <1>8, <2>1, <2>2 DEF Placed, Cells
  <1>11. Typed'
    BY <1>1, <1>3, <1>7, <1>8, <1>10 DEF Typed
  <1>12. OneOwner'
    <2>1. \A u \in Threads : InFlight(u)' = InFlight(u) /\ a \notin InFlight(u)
      BY <1>1, <1>3, <1>9, HeldPlaced DEF InFlight
    <2>2. \A u \in Threads, d \in Sizes : a \notin cache[u][d]
      BY <1>3, <1>9, HeldPlaced
    <2>3. \A u \in Threads : InFlight(u)' \cap user' = {}
      BY <1>3, <1>10, <2>1 DEF OneOwner
    <2>4. \A u \in Threads, d \in Sizes : cache'[u][d] \cap user' = {}
      BY <1>1, <1>3, <1>10, <2>2 DEF OneOwner
    <2> QED
      BY <1>1, <1>3, <2>1, <2>3, <2>4 DEF OneOwner
  <1>13. Filed'
    <2>1. \A x \in Placed' : BlockOf(x)' \in alloc' /\ In(BlockOf(x), x)'
      BY <1>3, <1>6, <1>8, <1>9, <1>10 DEF In, Filed
    <2>2. \A u \in Threads : \A x \in InFlight(u)' : m_nObjSize'[SpanOf(x)'] = op'[u].c
      BY <1>1, <1>3, <1>6, HeldPlaced DEF Filed, InFlight
    <2>3. \A u \in Threads, d \in Sizes : \A x \in cache'[u][d] : m_nObjSize'[SpanOf(x)'] = d
      BY <1>1, <1>3, <1>6, HeldPlaced DEF Filed
    <2>4. \A x \in user' : m_nObjSize'[SpanOf(x)'] \in Sizes \/ x = SpanOf(x)' * PageCells
      BY <1>3, <1>6, <1>9, <1>10, <1>a, HeldPlaced DEF Filed
    <2> QED
      BY <2>1, <2>2, <2>3, <2>4 DEF Filed
  <1>14. Counted'
    <2>1. \A q : q # p => Away(q)' = Away(q)
      BY <1>6, <1>9, <1>10, AwayPlaced, AwayPlacedNext
    <2>2. \A q, n, d : Carve(q, n, d)' = Carve(q, n, d)
      BY DEF Carve, Cells
    <2>3. ASSUME NEW b \in SmallBlocks'
          PROVE  /\ m_freeList'[b[1]] \cup Away(b[1])' = Carve(b[1], b[2], m_nObjSize'[b[1]])
                 /\ m_freeList'[b[1]] \cap Away(b[1])' = {}
                 /\ m_nUseCount'[b[1]] = Cardinality(Away(b[1])')
      <3>1. b \in alloc
        BY <1>5, <1>6, <1>7 DEF SmallBlocks
      <3>2. b[1] # p /\ b[1] \in Pages
        BY <1>6, <3>1 DEF IInv, BlocksApart
      <3>3. b \in SmallBlocks
        BY <1>7, <3>1, <3>2 DEF SmallBlocks
      <3>4. /\ m_freeList[b[1]] \cup Away(b[1]) = Carve(b[1], b[2], m_nObjSize[b[1]])
            /\ m_freeList[b[1]] \cap Away(b[1]) = {}
            /\ m_nUseCount[b[1]] = Cardinality(Away(b[1]))
        BY <1>3, <3>3 DEF Counted, AccountedFor
      <3> QED
        BY <1>1, <1>7, <2>1, <3>2, <3>4
    <2>4. AccountedFor'
      BY <2>2, <2>3 DEF AccountedFor
    <2>5. \A q \in Pages : m_nUseCount'[q] # 0 => \E d \in Sizes : Cut(q, d)'
      BY <1>1, <1>3, <1>6 DEF Counted
    <2> QED
      BY <2>4, <2>5 DEF Counted
  <1>15. Listed'
    <2>1. \A d \in Sizes : \A q \in spanLists'[d] : Cut(q, d)' /\ m_nUseCount'[q] > 0
      BY <1>1, <1>3, <1>6 DEF Listed
    <2>2. ASSUME NEW u \in Threads, Moving(u)'
          PROVE  Moving(u) /\ Cut(op[u].s, op[u].c)' /\ m_nUseCount'[op'[u].s] = 0
      <3>1. Moving(u)
        BY <1>1, <2>2 DEF Moving
      <3>2. Cut(op[u].s, op[u].c) /\ m_nUseCount[op[u].s] = 0
        BY <1>3, <3>1 DEF Listed
      <3>3. /\ <<op[u].s, NumMovePage(op[u].c)>> \in alloc /\ m_nObjSize[op[u].s] = op[u].c
            /\ op[u].s # p /\ op[u].s \in Pages
        BY <1>6, <3>2, CutAtPage DEF Cut
      <3>4. Cut(op[u].s, op[u].c)'
        BY <1>1, <1>6, <1>7, <3>3 DEF Cut, NumMovePage, NumMoveSize
      <3> QED
        BY <1>1, <3>1, <3>2, <3>4
    <2>3. \A u, w \in Threads : u # w /\ Moving(u)' /\ Moving(w)' => op'[u].s # op'[w].s
      BY <1>1, <1>3, <2>2 DEF Listed
    <2> QED
      BY <2>1, <2>2, <2>3 DEF Listed
  <1>16. Limited'
    BY <1>1, <1>3 DEF Limited, ListsWithinLimit, Fetching
  <1>17. SameLengths
    BY <1>3, <1>6, HeldPlaced DEF SameLengths
  <1> QED
    BY <1>17, <1>6, <1>11, <1>12, <1>13, <1>14, <1>15, <1>16 DEF IInv

(* When a block without objects of a class goes, the books of the spans    *)
(* that stay are kept.                                                     *)
LEMMA CountedLess ==
    ASSUME IInv, NEW b \in alloc, alloc' = alloc \ {b}, BlocksApart',
           \A q \in Pages : q # b[1] =>
              m_nObjSize'[q] = m_nObjSize[q] /\ m_freeList'[q] = m_freeList[q],
           m_nUseCount' = m_nUseCount, m_nUseCount[b[1]] = 0,
           \A q : q # b[1] => Away(q)' = Away(q),
           \A q, c : Cut(q, c) /\ q # b[1] => Cut(q, c)'
    PROVE  Counted'
  <1>1. Apart(alloc)
    BY ApartNow DEF IInv
  <1>2. \A q, n, d : Carve(q, n, d)' = Carve(q, n, d)
    BY DEF Carve, Cells
  <1>3. ASSUME NEW d \in SmallBlocks'
        PROVE  /\ m_freeList'[d[1]] \cup Away(d[1])' = Carve(d[1], d[2], m_nObjSize'[d[1]])
               /\ m_freeList'[d[1]] \cap Away(d[1])' = {}
               /\ m_nUseCount'[d[1]] = Cardinality(Away(d[1])')
    <2>1. d \in alloc /\ d # b
      BY DEF SmallBlocks
    <2>2. d[1] # b[1] /\ d[1] \in Pages
      BY <1>1, <2>1, SameStart DEF IInv, BlocksApart
    <2>3. d \in SmallBlocks
      BY <2>1, <2>2 DEF SmallBlocks
    <2>4. /\ m_freeList[d[1]] \cup Away(d[1]) = Carve(d[1], d[2], m_nObjSize[d[1]])
          /\ m_freeList[d[1]] \cap Away(d[1]) = {}
          /\ m_nUseCount[d[1]] = Cardinality(Away(d[1]))
      BY <2>3 DEF IInv, Counted, AccountedFor
    <2> QED
      BY <2>2, <2>4
  <1>4. AccountedFor'
    BY <1>2, <1>3 DEF AccountedFor
  <1>5. \A q \in Pages : m_nUseCount'[q] # 0 => \E d \in Sizes : Cut(q, d)'
    BY DEF IInv, Counted
  <1> QED
    BY <1>4, <1>5 DEF Counted

(* A span that has all of its objects goes back to the page cache.         *)
LEMMA GiveBackIInv ==
    ASSUME IInv, NEW t \in Threads, GiveBack(t)
    PROVE  IInv' /\ SameLengths
  <1>c. PICK c : c = op[t].c
    OBVIOUS
  <1>s. PICK s : s = op[t].s
    OBVIOUS
  <1>1. /\ op[t].at = "giveback" /\ PageCache!Release(BlockOf(s * PageCells))
        /\ m_freeList' = [m_freeList EXCEPT ![s] = {}]
        /\ m_nObjSize' = [m_nObjSize EXCEPT ![s] = 0]
        /\ op' = [op EXCEPT ![t] = [at |-> "release", c |-> c, objs |-> op[t].objs]]
        /\ UNCHANGED <<m_nUseCount, spanLists, lock, cache, size, maxSize, user, exiting>>
    BY <1>c, <1>s DEF GiveBack, caches
  <1> DEFINE o == [at |-> "release", c |-> c, objs |-> op[t].objs]
  <1>2. Typed /\ BlocksApart /\ Filed /\ Counted /\ OneOwner /\ Listed /\ Limited
    BY DEF IInv
  <1>3. /\ op \in [Threads -> Ops] /\ m_freeList \in [Pages -> SUBSET Cells]
        /\ m_nObjSize \in [Pages -> Nat]
    BY <1>2 DEF Typed
  <1>4. c \in Sizes /\ s \in Pages /\ op[t].objs \subseteq Cells
    BY <1>1, <1>3, <1>c, <1>s, OpShape
  <1>b. PICK b : b = <<s, NumMovePage(c)>>
    OBVIOUS
  <1>5. Moving(t) /\ Cut(s, c) /\ m_nUseCount[s] = 0 /\ b \in alloc /\ b[1] = s
        /\ b[2] = NumMovePage(c)
    <2>1. Moving(t)
      BY <1>1 DEF Moving
    <2>2. Cut(s, c) /\ m_nUseCount[s] = 0
      BY <1>2, <1>c, <1>s, <2>1 DEF Listed
    <2> QED
      BY <1>b, <2>1, <2>2 DEF Cut
  <1>6. BlockOf(s * PageCells) = b
    <2>1. s \in Int /\ NumMovePage(c) \in Nat /\ NumMovePage(c) >= 1
      BY <1>4, MovesSome DEF Pages
    <2>2. s + NumMovePage(c) \in Int /\ s < s + NumMovePage(c)
      BY <2>1
    <2>3. /\ s * PageCells \in Int /\ (s + NumMovePage(c)) * PageCells \in Int
          /\ s * PageCells + PageCells <= (s + NumMovePage(c)) * PageCells
      BY <2>1, <2>2, Ordered
    <2>4. s * PageCells < (s + NumMovePage(c)) * PageCells
      BY <2>3, MemPoolAssumption
    <2>5. In(b, s * PageCells)
      BY <1>5, <2>3, <2>4 DEF In
    <2>6. Apart(alloc)
      BY <1>2, ApartNow
    <2> QED
      BY <1>5, <2>3, <2>5, <2>6, Found
  <1>7. alloc' = alloc \ {b}
    BY <1>1, <1>6 DEF PageCache!Release
  <1>8. \A q : q # b[1] => m_nObjSize'[q] = m_nObjSize[q]
    BY <1>1, <1>3, <1>5
  <1>9. /\ BlocksApart'
        /\ \A d \in alloc' : d \in alloc /\ d[1] # b[1]
        /\ \A a \in Placed : BlockOf(a) # b =>
              /\ BlockOf(a) \in alloc' /\ In(BlockOf(a), a) /\ SpanOf(a) # b[1]
              /\ BlockOf(a)' = BlockOf(a) /\ SpanOf(a)' = SpanOf(a)
              /\ m_nObjSize'[SpanOf(a)] = m_nObjSize[SpanOf(a)]
        /\ \A q, d : Cut(q, d) /\ q # b[1] => Cut(q, d)'
    BY <1>5, <1>7, <1>8, GoneBlock
  <1>10. \A a \in Placed : BlockOf(a) # b
    <2>1. Away(s) = {}
      <3>1. IsFiniteSet(Away(s)) /\ Cardinality(Away(s)) = 0
        BY <1>4, <1>5, SpanFacts
      <3> QED
        BY <3>1, FS_EmptySet
    <2> QED
      BY <1>5, <2>1, AwayPlaced DEF SpanOf
  <1>11. /\ op' \in [Threads -> Ops] /\ op'[t] = o
         /\ \A u \in Threads : u # t => op'[u] = op[u]
    <2>1. o \in Ops
      BY <1>4, OpForms
    <2> QED
      BY <1>1, <1>3, <2>1, Goes
  <1>12. /\ m_freeList' \in [Pages -> SUBSET Cells] /\ m_nObjSize' \in [Pages -> Nat]
         /\ \A q \in Pages : q # s => m_freeList'[q] = m_freeList[q] /\ m_nObjSize'[q] = m_nObjSize[q]
    <2>1. {} \in SUBSET Cells
      OBVIOUS
    <2> QED
      BY <1>1, <1>3, <1>4, <2>1
  <1>13. Typed'
    BY <1>1, <1>2, <1>11, <1>12 DEF Typed
  <1>14. \A u \in Threads : InFlight(u)' = InFlight(u) /\ op'[u].c = op[u].c
    <2>1. InFlight(t) = op[t].objs /\ InFlight(t)' = op[t].objs /\ op'[t].c = op[t].c
      BY <1>1, <1>11, <1>c DEF InFlight
    <2> QED
      BY <1>11, <2>1 DEF InFlight
  <1>15. Placed' = Placed
    BY <1>1, <1>14 DEF Placed, Cells
  <1>16. OneOwner'
    BY <1>1, <1>2, <1>14 DEF OneOwner
  <1>17. Filed'
    <2>1. \A x \in Placed' : BlockOf(x)' \in alloc' /\ In(BlockOf(x), x)'
      BY <1>9, <1>10, <1>15 DEF In
    <2>2. \A u \in Threads : \A x \in InFlight(u)' : m_nObjSize'[SpanOf(x)'] = op'[u].c
      BY <1>2, <1>9, <1>10, <1>14, HeldPlaced DEF Filed
    <2>3. \A u \in Threads, d \in Sizes : \A x \in cache'[u][d] : m_nObjSize'[SpanOf(x)'] = d
      BY <1>1, <1>2, <1>9, <1>10, HeldPlaced DEF Filed
    <2>4. \A x \in user' : m_nObjSize'[SpanOf(x)'] \in Sizes \/ x = SpanOf(x)' * PageCells
      BY <1>1, <1>2, <1>9, <1>10, HeldPlaced DEF Filed
    <2> QED
      BY <2>1, <2>2, <2>3, <2>4 DEF Filed
  <1>18. Counted'
    <2>1. \A q : q # s => Away(q)' = Away(q)
      BY <1>9, <1>10, <1>15, AwayPlaced, AwayPlacedNext
    <2> QED
      BY <1>1, <1>5, <1>7, <1>9, <1>12, <2>1, CountedLess
  <1>19. Listed'
    <2>1. \A d \in Sizes : \A q \in spanLists'[d] : Cut(q, d)' /\ m_nUseCount'[q] > 0
      BY <1>1, <1>2, <1>5, <1>9 DEF Listed
    <2>2. ASSUME NEW u \in Threads, Moving(u)'
          PROVE  /\ Moving(u) /\ op'[u] = op[u]
                 /\ Cut(op[u].s, op[u].c)' /\ m_nUseCount'[op'[u].s] = 0
      <3>1. u # t /\ Moving(u) /\ op'[u] = op[u]
        BY <1>11, <2>2 DEF Moving
      <3>2. Cut(op[u].s, op[u].c) /\ m_nUseCount[op[u].s] = 0 /\ op[u].s # s
        BY <1>2, <1>5, <1>s, <3>1 DEF Listed
      <3>3. Cut(op[u].s, op[u].c)'
        <4>1. <<op[u].s, NumMovePage(op[u].c)>> \in alloc' /\ m_nObjSize'[op[u].s] = op[u].c
          BY <1>5, <1>7, <1>8, <3>2 DEF Cut
        <4> QED
          BY <3>1, <4>1 DEF Cut, NumMovePage, NumMoveSize
      <3> QED
        BY <1>1, <3>1, <3>2, <3>3
    <2>3. \A u, w \in Threads : u # w /\ Moving(u)' /\ Moving(w)' => op'[u].s # op'[w].s
      BY <1>2, <2>2 DEF Listed
    <2> QED
      BY <2>1, <2>2, <2>3 DEF Listed
  <1>20. Limited'
    <2>1. ~ Fetching(t)'
      BY <1>11 DEF Fetching
    <2> QED
      BY <1>1, <1>2, <1>11, <2>1, SameLists DEF caches
  <1>21. SameLengths
    BY <1>2, <1>9, <1>10, HeldPlaced DEF SameLengths
  <1> QED
    BY <1>21, <1>9, <1>13, <1>16, <1>17, <1>18, <1>19, <1>20 DEF IInv

(* A large block goes back: the address given up was the only one in it.   *)
LEMMA DeallocateLargeIInv ==
    ASSUME IInv, NEW t \in Threads, NEW a \in user, DeallocateLarge(t, a)
    PROVE  IInv' /\ SameLengths
  <1>b. PICK b : b = BlockOf(a)
    OBVIOUS
  <1>1. /\ m_nObjSize[b[1]] > MAX_BYTES
        /\ b \in alloc /\ alloc' = alloc \ {b}
        /\ user' = user \ {a}
        /\ UNCHANGED <<m_nObjSize, m_freeList, m_nUseCount, spanLists>>
        /\ UNCHANGED <<lock, cache, size, maxSize, op, exiting>>
    BY <1>b DEF DeallocateLarge, PageCache!Release, spans, caches, SpanOf
  <1>2. Typed /\ BlocksApart /\ Filed /\ Counted /\ OneOwner /\ Listed /\ Limited
    BY DEF IInv
  <1>3. b[1] \in Pages /\ m_nObjSize[b[1]] \notin Sizes /\ m_nUseCount[b[1]] = 0
    <2>1. b[1] \in Pages
      BY <1>1, <1>2 DEF BlocksApart
    <2>2. \A c \in Sizes : c <= MAX_BYTES /\ c \in Nat /\ MAX_BYTES \in Nat
      BY MemPoolAssumption
    <2>3. m_nObjSize[b[1]] \notin Sizes
      BY <1>1, <2>2
    <2> QED
      BY <1>2, <2>1, <2>3 DEF Counted, Cut
  <1>4. /\ BlocksApart'
        /\ \A d \in alloc' : d \in alloc /\ d[1] # b[1]
        /\ \A x \in Placed : BlockOf(x) # b =>
              /\ BlockOf(x) \in alloc' /\ In(BlockOf(x), x) /\ SpanOf(x) # b[1]
              /\ BlockOf(x)' = BlockOf(x) /\ SpanOf(x)' = SpanOf(x)
              /\ m_nObjSize'[SpanOf(x)] = m_nObjSize[SpanOf(x)]
        /\ \A q, d : Cut(q, d) /\ q # b[1] => Cut(q, d)'
    BY <1>1, GoneBlock
  <1>5. \A u \in Threads : InFlight(u)' = InFlight(u)
    BY <1>1 DEF InFlight
  <1>6. Typed'
    BY <1>1, <1>2 DEF Typed
  <1>7. Placed' \subseteq Placed \ {a} /\ Placed \subseteq Placed' \cup {a}
    <2>1. a \notin user' /\ \A u \in Threads : a \notin InFlight(u)
      BY <1>1, <1>2 DEF OneOwner
    <2>2. \A u \in Threads, c \in Sizes : a \notin cache[u][c]
      BY <1>2 DEF OneOwner
    <2>3. a \notin Placed'
      BY <1>1, <1>5, <2>1, <2>2 DEF Placed
    <2>4. Placed' \subseteq Placed
      BY <1>1, <1>5 DEF Placed, Cells
    <2>5. Placed \subseteq Placed' \cup {a}
      BY <1>1, <1>5 DEF Placed, Cells
    <2> QED
      BY <2>3, <2>4, <2>5
  <1>8. \A x \in Placed' : x \in Placed /\ BlockOf(x) # b
    <2> SUFFICES ASSUME NEW x \in Placed', BlockOf(x) = b PROVE FALSE
      BY <1>7
    <2>1. x \in Placed /\ x # a /\ SpanOf(x) = b[1]
      BY <1>7 DEF SpanOf
    <2>2. m_nObjSize[SpanOf(x)] \notin Sizes
      BY <1>3, <2>1
    <2>3. CASE x \in user
      <3>1. x = SpanOf(x) * PageCells
        BY <1>2, <2>2, <2>3 DEF Filed
      <3>2. a = SpanOf(a) * PageCells
        BY <1>2, <1>3, <1>b DEF Filed, SpanOf
      <3> QED
        BY <2>1, <3>1, <3>2, <1>b DEF SpanOf
    <2>4. ASSUME NEW u \in Threads, x \in InFlight(u) PROVE FALSE
      <3>1. m_nObjSize[SpanOf(x)] = op[u].c
        BY <1>2, <2>4 DEF Filed
      <3>2. op[u].at \in {"release", "put", "giveback"}
        BY <2>4 DEF InFlight
      <3>3. op[u].c \in Sizes
        BY <1>2, <3>2, OpShape DEF Typed
      <3> QED
        BY <2>2, <3>1, <3>3
    <2>5. ASSUME NEW u \in Threads, NEW c \in Sizes, x \in cache[u][c] PROVE FALSE
      BY <1>2, <2>2, <2>5 DEF Filed
    <2> QED
      BY <2>1, <2>3, <2>4, <2>5 DEF Placed
  <1>9. OneOwner'
    BY <1>1, <1>2, <1>5 DEF OneOwner
  <1>10. Filed'
    <2>1. \A x \in Placed' : BlockOf(x)' \in alloc' /\ In(BlockOf(x), x)'
      BY <1>4, <1>8 DEF In
    <2>2. \A u \in Threads : \A x \in InFlight(u)' : m_nObjSize'[SpanOf(x)'] = op'[u].c
      BY <1>1, <1>2, <1>4, <1>5, <1>6, <1>8, HeldPlacedNext DEF Filed
    <2>3. \A u \in Threads, d \in Sizes : \A x \in cache'[u][d] : m_nObjSize'[SpanOf(x)'] = d
      BY <1>1, <1>2, <1>4, <1>6, <1>8, HeldPlacedNext DEF Filed
    <2>4. \A x \in user' : m_nObjSize'[SpanOf(x)'] \in Sizes \/ x = SpanOf(x)' * PageCells
      BY <1>1, <1>2, <1>4, <1>6, <1>8, HeldPlacedNext DEF Filed
    <2> QED
      BY <2>1, <2>2, <2>3, <2>4 DEF Filed
  <1>11. Counted'
    <2>1. \A q : q # b[1] => Away(q)' = Away(q)
      <3> SUFFICES ASSUME NEW q, q # b[1] PROVE Away(q)' = Away(q)
        OBVIOUS
      <3>1. SpanOf(a) = b[1]
        BY <1>b DEF SpanOf
      <3>2. \A x \in Placed' : SpanOf(x)' = SpanOf(x)
        BY <1>4, <1>8
      <3> QED
        BY <1>7, <3>1, <3>2, AwayPlaced, AwayPlacedNext
    <2> QED
      BY <1>1, <1>3, <1>4, <2>1, CountedLess
  <1>12. Listed'
    <2>1. \A d \in Sizes : \A q \in spanLists'[d] : Cut(q, d)' /\ m_nUseCount'[q] > 0
      BY <1>1, <1>2, <1>3, <1>4 DEF Listed
    <2>2. ASSUME NEW u \in Threads, Moving(u)'
          PROVE  Moving(u) /\ Cut(op[u].s, op[u].c)' /\ m_nUseCount'[op'[u].s] = 0
      <3>1. Moving(u) /\ op[u].c \in Sizes
        BY <1>1, <1>2, <2>2, OpShape DEF Moving, Typed
      <3>2. Cut(op[u].s, op[u].c) /\ m_nUseCount[op[u].s] = 0
        BY <1>2, <3>1 DEF Listed
      <3>3. op[u].s # b[1]
        BY <1>3, <3>1, <3>2 DEF Cut
      <3>4. Cut(op[u].s, op[u].c)'
        <4>1. <<op[u].s, NumMovePage(op[u].c)>> \in alloc' /\ m_nObjSize'[op[u].s] = op[u].c
          BY <1>1, <3>2, <3>3 DEF Cut
        <4> QED
          BY <1>1, <4>1 DEF Cut, NumMovePage, NumMoveSize
      <3> QED
        BY <1>1, <3>1, <3>2, <3>4
    <2>3. \A u, w \in Threads : u # w /\ Moving(u)' /\ Moving(w)' => op'[u].s # op'[w].s
      BY <1>1, <1>2, <2>2 DEF Listed
    <2> QED
      BY <2>1, <2>2, <2>3 DEF Listed
  <1>13. Limited'
    BY <1>1, <1>2 DEF Limited, ListsWithinLimit, Fetching
  <1>14. SameLengths
    BY <1>1, <1>4, <1>6, <1>8, HeldPlacedNext DEF SameLengths
  <1> QED
    BY <1>14, <1>4, <1>6, <1>9, <1>10, <1>11, <1>12, <1>13 DEF IInv

-----------------------------------------------------------------------------
(* At first nothing is there.                                              *)
LEMMA InitIInv == Init => IInv
  <1> SUFFICES ASSUME Init PROVE IInv
    OBVIOUS
  <1>1. /\ alloc = {} /\ user = {} /\ op = [t \in Threads |-> Idle]
        /\ m_nObjSize = [p \in Pages |-> 0] /\ m_freeList = [p \in Pages |-> {}]
        /\ m_nUseCount = [p \in Pages |-> 0] /\ spanLists = [c \in Sizes |-> {}]
        /\ lock = [c \in Sizes |-> Nobody]
        /\ cache = [t \in Threads |-> [c \in Sizes |-> {}]]
        /\ size = [t \in Threads |-> [c \in Sizes |-> 0]]
        /\ maxSize = [t \in Threads |-> [c \in Sizes |-> 1]]
        /\ exiting = [t \in Threads |-> FALSE]
    BY DEF Init, PageCache!Init
  <1>2. Typed
    BY <1>1, OpForms DEF Typed
  <1>3. \A t \in Threads : InFlight(t) = {}
    BY <1>1 DEF InFlight, Idle
  <1>4. Placed = {}
    BY <1>1, <1>3 DEF Placed
  <1>5. BlocksApart /\ Counted
    BY <1>1 DEF BlocksApart, Counted, AccountedFor, SmallBlocks
  <1>6. Filed
    BY <1>1, <1>3, <1>4 DEF Filed
  <1>7. OneOwner
    BY <1>1, <1>3 DEF OneOwner
  <1>8. Listed
    BY <1>1 DEF Listed, Moving, Idle
  <1>9. Limited
    BY <1>1, FS_EmptySet DEF Limited, ListsWithinLimit, Fetching, Idle
  <1> QED
    BY <1>2, <1>5, <1>6, <1>7, <1>8, <1>9 DEF IInv

(* Every step keeps the invariant.                                         *)
LEMMA StepIInv == IInv /\ [Next]_vars => IInv'
  <1> SUFFICES ASSUME IInv, [Next]_vars PROVE IInv'
    OBVIOUS
  <1>1. CASE UNCHANGED vars
    <2>1. exiting' \in [Threads -> BOOLEAN]
      BY <1>1 DEF vars, IInv, Typed
    <2> QED
      BY <1>1, <2>1, StaysIInv DEF vars
  <1>2. ASSUME NEW t \in Threads, NEW c \in Sizes,
               AllocateCached(t, c) \/ AllocateMiss(t, c) \/ ReturnList(t, c)
        PROVE  IInv'
    BY <1>2, AllocateCachedIInv, AllocateMissIInv, ReturnListIInv
  <1>3. ASSUME NEW t \in Threads, NEW k \in LargePages, AllocateLarge(t, k)
        PROVE  IInv'
    BY <1>3, AllocateLargeIInv
  <1>4. ASSUME NEW t \in Threads, NEW a \in user, Deallocate(t, a) \/ DeallocateLarge(t, a)
        PROVE  IInv'
    BY <1>4, DeallocateIInv, DeallocateLargeIInv
  <1>5. ASSUME NEW t \in Threads, ThreadExit(t)
        PROVE  IInv'
    <2>1. exiting' \in [Threads -> BOOLEAN]
      BY <1>5 DEF ThreadExit, IInv, Typed
    <2> QED
      BY <1>5, <2>1, StaysIInv DEF ThreadExit
  <1>6. ASSUME NEW t \in Threads, FetchRange(t) \/ NeedSpan(t) \/ NewSpan(t) \/ LinkSpan(t)
        PROVE  IInv'
    BY <1>6, FetchRangeIInv, NeedSpanIInv, NewSpanIInv, LinkSpanIInv
  <1>7. ASSUME NEW t \in Threads, LockClass(t) \/ PutObject(t) \/ GiveBack(t) \/ EndPut(t)
        PROVE  IInv'
    BY <1>7, LockClassIInv, PutObjectIInv, GiveBackIInv, EndPutIInv
  <1>8. ASSUME NEW t \in Threads, ThreadStart(t)
        PROVE  IInv'
    BY <1>8, ThreadStartIInv
  <1> QED
    BY <1>1, <1>2, <1>3, <1>4, <1>5, <1>6, <1>7, <1>8 DEF Next, Step

LEMMA Invariance == Spec => []IInv
  BY InitIInv, StepIInv, PTL DEF Spec

(* Allocate, Deallocate and the calls that move objects in batches between *)
(* the threads' lists and the spans, interleaved in any way, lose no object*)
(* and give none to two owners, and m_nUseCount is right all the time.     *)
THEOREM Conserved == Spec => []ObjectsConserved
  <1>1. IInv => ObjectsConserved
    BY DEF IInv, Counted, ObjectsConserved
  <1> QED
    BY <1>1, Invariance, PTL

(* A thread's list is shorter than its limit whenever the thread is about  *)
(* to add to it, so PopRangeFront(maxSize) never leaves objects behind.    *)
THEOREM WithinLimit == Spec => []ListsWithinLimit
  <1>1. IInv => ListsWithinLimit
    BY DEF IInv, Limited
  <1> QED
    BY <1>1, Invariance, PTL

(* The last object that comes back takes its span out of the list, so the  *)
(* central cache keeps no span that is not in use.                         *)
THEOREM NoIdleSpanKept == Spec => []NoIdleSpan
  <1>1. IInv => NoIdleSpan
    BY DEF IInv, Listed, NoIdleSpan
  <1> QED
    BY <1>1, Invariance, PTL

(* Every variable of the pool stays in its range: the counters that the    *)
(* code keeps as size_t never fall below zero.                             *)
THEOREM TypeCorrect == Spec => []TypeOK
  <1>1. ASSUME IInv PROVE TypeOK
    <2>1. Typed /\ BlocksApart /\ Counted /\ Limited
      BY <1>1 DEF IInv
    <2>2. PageCache!TypeOK
      BY <2>1, MemPoolAssumption DEF BlocksApart, PageCache!TypeOK, PageCache!Blocks, Pages
    <2>3. \A p \in Pages : m_nUseCount[p] \in Nat
      <3> SUFFICES ASSUME NEW p \in Pages, m_nUseCount[p] # 0 PROVE m_nUseCount[p] \in Nat
        OBVIOUS
      <3>1. PICK c \in Sizes : Cut(p, c)
        BY <2>1 DEF Counted
      <3>2. m_nUseCount[p] = Cardinality(Away(p)) /\ Cardinality(Away(p)) \in Nat
        BY <1>1, <3>1, SpanFacts
      <3> QED
        BY <3>2
    <2>4. \A t \in Threads, c \in Sizes : size[t][c] \in Nat
      <3> SUFFICES ASSUME NEW t \in Threads, NEW c \in Sizes PROVE size[t][c] \in Nat
        OBVIOUS
      <3>1. cache[t][c] \subseteq Cells
        BY <2>1 DEF Typed
      <3> QED
        BY <2>1, <3>1, CellsFinite DEF Limited, ListsWithinLimit
    <2>5. m_nUseCount \in [Pages -> Nat]
      BY <2>1, <2>3 DEF Typed
    <2>6. size \in [Threads -> [Sizes -> Nat]]
      BY <2>1, <2>4 DEF Typed
    <2> QED
      BY <2>1, <2>2, <2>5, <2>6 DEF Typed, TypeOK
  <1> QED
    BY <1>1, Invariance, PTL

-----------------------------------------------------------------------------
(* The spans of every class are a whole number of objects long.            *)
WholeSpans == \A c \in Sizes : (NumMovePage(c) * PageCells) % c = 0

(* One multiple of c and the next.                                         *)
LEMMA Multiples ==
    ASSUME NEW c \in Nat, c >= 1, NEW d \in Nat, NEW e \in Nat, d % c = 0, e % c = 0, d < e
    PROVE  d + c <= e
  <1>1. PICK i \in Int : d = c * i
    BY SMT
  <1>2. PICK j \in Int : e = c * j
    BY SMT
  <1>3. i < j
    <2>1. j <= i => c * j <= c * i
      BY SMT
    <2> QED
      BY <1>1, <1>2, <2>1
  <1>4. c * (i + 1) <= c * j
    BY <1>3, SMT
  <1>5. c * (i + 1) = c * i + c
    BY SMT
  <1> QED
    BY <1>1, <1>2, <1>4, <1>5

Length(x) == m_nObjSize[SpanOf(x)]

(* What callers hold is in range, and no two pieces of it overlap.         *)
Separate ==
    /\ \A x \in user : x \in Nat /\ Length(x) \in Nat /\ x + Length(x) <= NumPages * PageCells
    /\ \A x, y \in user : x < y => x + Length(x) <= y

(* An object begins on a multiple of its size in its span, and ends in it. *)
LEMMA InItsBlock ==
    ASSUME IInv, WholeSpans, NEW x \in user, NEW b, b = BlockOf(x)
    PROVE  /\ b \in alloc /\ x \in Nat /\ Length(x) \in Nat
           /\ b[1] \in Nat /\ b[2] \in Nat /\ b[1] + b[2] <= NumPages
           /\ b[1] * PageCells <= x
           /\ x + Length(x) <= (b[1] + b[2]) * PageCells
           /\ \/ x = b[1] * PageCells /\ Length(x) = b[2] * PageCells
              \/ /\ Length(x) \in Sizes /\ Length(x) >= 1 /\ x - b[1] * PageCells \in Nat
                 /\ (x - b[1] * PageCells) % Length(x) = 0
  <1>1. Typed /\ Filed /\ BlocksApart /\ x \in Placed /\ x \in Cells
    BY HeldPlaced DEF IInv, Typed
  <1>2. b \in alloc /\ In(b, x) /\ SpanOf(x) = b[1] /\ Length(x) = m_nObjSize[b[1]]
    BY <1>1 DEF Filed, SpanOf, Length
  <1>3. b[1] \in Pages /\ b[2] \in 1 .. NumPages /\ b[1] + b[2] <= NumPages
    BY <1>1, <1>2 DEF BlocksApart
  <1>4. /\ b[1] \in Nat /\ b[2] \in Nat /\ b[2] >= 1 /\ x \in Nat /\ Length(x) \in Nat
        /\ PageCells \in Nat
    BY <1>1, <1>2, <1>3, MemPoolAssumption DEF Typed, Pages, Cells
  <1> DEFINE s == b[1] * PageCells
             e == b[2] * PageCells
             z == (b[1] + b[2]) * PageCells
  <1>5. s \in Nat /\ e \in Nat /\ z = s + e
    BY <1>4
  <1>6. s <= x /\ x < z
    BY <1>2 DEF In
  <1>7. CASE Length(x) \notin Sizes
    <2>1. Length(x) = e
      BY <1>1, <1>2, <1>7 DEF BlocksApart
    <2>2. x = s
      BY <1>1, <1>2, <1>7 DEF Filed, Length
    <2> HIDE DEF s, e, z
    <2>3. x + Length(x) <= z
      BY <1>4, <1>5, <2>1, <2>2
    <2> QED
      BY <1>2, <1>3, <1>4, <1>6, <2>1, <2>2, <2>3 DEF s, e, z
  <1>8. CASE Length(x) \in Sizes
    <2>1. PICK c \in Sizes : c = Length(x)
      BY <1>8
    <2>2. c \in Nat /\ 1 <= c /\ c <= MAX_BYTES
      BY MovesSome
    <2>3. b[2] = NumMovePage(c)
      BY <1>1, <1>2, <2>1, <2>2, MemPoolAssumption DEF BlocksApart
    <2>4. Cut(b[1], c)
      BY <1>1, <1>2, <2>1, <2>3 DEF Cut, BlocksApart
    <2>5. x \in Away(b[1])
      BY <1>1, <1>2, AwayPlaced
    <2>6. x \in Carve(b[1], b[2], c)
      <3>1. m_freeList[b[1]] \cup Away(b[1]) = Carve(b[1], NumMovePage(c), c)
        BY <1>3, <2>4, SpanFacts
      <3> QED
        BY <2>3, <2>5, <3>1
    <2>7. (x - s) % c = 0
      BY <2>6 DEF Carve
    <2>8. e % c = 0
      BY <2>3 DEF WholeSpans
    <2> HIDE DEF s, e, z
    <2>9. x - s \in Nat /\ x - s < e
      BY <1>4, <1>5, <1>6
    <2>10. x - s + c <= e
      BY <1>5, <2>2, <2>7, <2>8, <2>9, Multiples
    <2>11. x + c <= z
      BY <1>4, <1>5, <2>2, <2>10
    <2> QED
      BY <1>2, <1>3, <1>4, <1>6, <2>1, <2>2, <2>7, <2>9, <2>11 DEF s, e, z
  <1> QED
    BY <1>7, <1>8

LEMMA HeldApart == IInv /\ WholeSpans => Separate
  <1> SUFFICES ASSUME IInv, WholeSpans PROVE Separate
    OBVIOUS
  <1>1. ASSUME NEW x \in user
        PROVE  x \in Nat /\ Length(x) \in Nat /\ x + Length(x) <= NumPages * PageCells
    <2>1. PICK b : b = BlockOf(x)
      OBVIOUS
    <2>2. /\ x \in Nat /\ Length(x) \in Nat
          /\ b[1] \in Nat /\ b[2] \in Nat /\ b[1] + b[2] <= NumPages
          /\ x + Length(x) <= (b[1] + b[2]) * PageCells
      BY <2>1, InItsBlock
    <2>3. b[1] + b[2] \in Int /\ NumPages \in Int
      BY <2>2, MemPoolAssumption
    <2>4. /\ (b[1] + b[2]) * PageCells <= NumPages * PageCells
          /\ (b[1] + b[2]) * PageCells \in Int /\ NumPages * PageCells \in Int
      BY <2>2, <2>3, Ordered
    <2> QED
      BY <2>2, <2>4
  <1>2. ASSUME NEW x \in user, NEW y \in user, x < y
        PROVE  x + Length(x) <= y
    <2>1. PICK b : b = BlockOf(x)
      OBVIOUS
    <2>2. PICK d : d = BlockOf(y)
      OBVIOUS
    <2>3. /\ b \in alloc /\ x \in Nat /\ Length(x) \in Nat
          /\ b[1] \in Nat /\ b[2] \in Nat
          /\ b[1] * PageCells <= x
          /\ x + Length(x) <= (b[1] + b[2]) * PageCells
          /\ \/ x = b[1] * PageCells /\ Length(x) = b[2] * PageCells
             \/ /\ Length(x) \in Sizes /\ Length(x) >= 1 /\ x - b[1] * PageCells \in Nat
                /\ (x - b[1] * PageCells) % Length(x) = 0
      BY <2>1, InItsBlock
    <2>4. /\ d \in alloc /\ y \in Nat /\ Length(y) \in Nat
          /\ d[1] \in Nat /\ d[2] \in Nat
          /\ d[1] * PageCells <= y
          /\ y + Length(y) <= (d[1] + d[2]) * PageCells
          /\ \/ y = d[1] * PageCells /\ Length(y) = d[2] * PageCells
             \/ /\ Length(y) \in Sizes /\ Length(y) >= 1 /\ y - d[1] * PageCells \in Nat
                /\ (y - d[1] * PageCells) % Length(y) = 0
      BY <2>2, InItsBlock
    <2>5. CASE b = d
      <3>1. Length(x) = Length(y)
        BY <2>1, <2>2, <2>5 DEF Length, SpanOf
      <3> DEFINE s == b[1] * PageCells
                 m == Length(x)
      <3>2. s \in Int
        BY <2>3, Ordered
      <3>3. CASE x - s \in Nat /\ y - s \in Nat /\ (x - s) % m = 0 /\ (y - s) % m = 0 /\ m >= 1
        <4>1. m \in Nat
          BY <2>3
        <4> HIDE DEF s, m
        <4>2. x - s < y - s
          BY <1>2, <2>3, <2>4, <3>2
        <4>3. x - s + m <= y - s
          BY <3>3, <4>1, <4>2, Multiples
        <4>4. x + m <= y
          BY <2>3, <2>4, <3>2, <4>1, <4>3
        <4> QED
          BY <4>4 DEF m
      <3>4. CASE x = s /\ m = b[2] * PageCells
        <4>1. y + m <= (b[1] + b[2]) * PageCells
          BY <2>4, <2>5, <3>1
        <4>2. (b[1] + b[2]) * PageCells = s + m
          BY <2>3, <3>4, MemPoolAssumption
        <4>3. m \in Nat
          BY <2>3
        <4> HIDE DEF s, m
        <4> QED
          BY <1>2, <2>3, <2>4, <3>2, <3>4, <4>1, <4>2, <4>3
      <3>5. CASE y = s
        BY <1>2, <2>3, <2>4, <3>2, <3>5
      <3> QED
        BY <2>3, <2>4, <2>5, <3>1, <3>3, <3>4, <3>5
    <2>6. CASE b # d
      <3>1. ~ (b[1] < d[1] + d[2] /\ d[1] < b[1] + b[2])
        BY <2>3, <2>4, <2>6 DEF IInv, BlocksApart, PageCache!Overlap
      <3>2. b[1] + b[2] <= d[1] \/ d[1] + d[2] <= b[1]
        BY <2>3, <2>4, <3>1
      <3>3. b[1] + b[2] \in Int /\ d[1] + d[2] \in Int /\ b[1] \in Int /\ d[1] \in Int
        BY <2>3, <2>4
      <3>4. /\ (b[1] + b[2]) * PageCells \in Int /\ (d[1] + d[2]) * PageCells \in Int
            /\ b[1] * PageCells \in Int /\ d[1] * PageCells \in Int
            /\ b[1] + b[2] <= d[1] => (b[1] + b[2]) * PageCells <= d[1] * PageCells
            /\ d[1] + d[2] <= b[1] => (d[1] + d[2]) * PageCells <= b[1] * PageCells
        BY <3>3, Ordered
      <3> QED
        BY <1>2, <2>3, <2>4, <3>2, <3>4
    <2> QED
      BY <2>5, <2>6
  <1> QED
    BY <1>1, <1>2 DEF Separate

LEMMA HeldApartNext == (IInv /\ WholeSpans => Separate)'
  BY HeldApart, PTL

(* What a step makes of the blocks that callers hold.                      *)
LEMMA HeldSame ==
    ASSUME user' = user, SameLengths
    PROVE  Held' = Held
  BY DEF Held, SameLengths

LEMMA HeldMore ==
    ASSUME SameLengths, Separate', NEW a, a \notin user, user' = user \cup {a},
           \/ Length(a)' \in Sizes
           \/ \E k \in LargePages : Length(a)' = k * PageCells
    PROVE  Promise!Next
  <1>1. PICK n : n = Length(a)'
    OBVIOUS
  <1>2. n \in Sizes \cup {k * PageCells : k \in LargePages}
    BY <1>1
  <1>3. \A y \in user : Length(y)' = Length(y)
    BY DEF SameLengths, Length
  <1>4. /\ a \in Nat /\ n \in Nat /\ a + n <= NumPages * PageCells
        /\ \A y \in user : y \in Nat /\ Length(y) \in Nat
        /\ \A y \in user : (y < a => y + Length(y) <= a) /\ (a < y => a + n <= y)
    BY <1>1, <1>3 DEF Separate
  <1>5. Held' = Held \cup {<<a, n>>}
    BY <1>1, <1>3 DEF Held, Length
  <1>6. \A b \in Held : ~ Promise!Overlap(b, <<a, n>>)
    <2> SUFFICES ASSUME NEW y \in user PROVE ~ Promise!Overlap(<<y, Length(y)>>, <<a, n>>)
      BY DEF Held, Length
    <2>1. y \in Nat /\ Length(y) \in Nat /\ y # a
          /\ (y < a => y + Length(y) <= a) /\ (a < y => a + n <= y)
      BY <1>4
    <2>2. ~ (y < a + n /\ a < y + Length(y))
      BY <1>4, <2>1
    <2> QED
      BY <2>2 DEF Promise!Overlap
  <1>7. NumPages * PageCells \in Int
    BY MemPoolAssumption
  <1>8. a \in 0 .. (NumPages * PageCells - n)
    BY <1>4, <1>7
  <1>9. Promise!Allocate(n)
    BY <1>5, <1>6, <1>8 DEF Promise!Allocate, Promise!Overlap
  <1> QED
    BY <1>2, <1>9 DEF Promise!Next

LEMMA HeldLess ==
    ASSUME SameLengths, NEW a \in user, user' = user \ {a}
    PROVE  Promise!Next
  <1>1. \A y \in user' : Length(y)' = Length(y)
    BY DEF SameLengths, Length
  <1>2. Held' = Held \ {<<a, Length(a)>>} /\ <<a, Length(a)>> \in Held
    BY <1>1 DEF Held, Length
  <1> QED
    BY <1>2 DEF Promise!Next, Promise!Free

(* Lengths stay while blocks and sizes do.                                 *)
LEMMA LengthsStay ==
    ASSUME UNCHANGED <<alloc, m_nObjSize>>
    PROVE  SameLengths /\ \A x : Length(x)' = Length(x)
  BY SameBlocks DEF SameLengths, Length

(* Objects that a span or a list of class c gives to the caller.           *)
LEMMA TakeAllocates ==
    ASSUME IInv, Separate', NEW t \in Threads, NEW p \in Pages, Fetching(t), Cut(p, op[t].c),
           Take(t, p), UNCHANGED <<alloc, m_nObjSize>>
    PROVE  Promise!Next
  <1>1. PICK a \in m_freeList[p] : user' = user \cup {a}
    BY DEF Take
  <1>2. op[t].c \in Sizes
    BY OpShape DEF IInv, Typed, Fetching
  <1>3. a \notin Placed /\ a \in Carve(p, NumMovePage(op[t].c), op[t].c)
    <2>1. m_freeList[p] \cup Away(p) = Carve(p, NumMovePage(op[t].c), op[t].c)
      BY <1>2, SpanFacts
    <2>2. \A x \in m_freeList[p] : x \notin Placed
      BY <1>2, SpanFacts
    <2> QED
      BY <2>1, <2>2
  <1>4. a \notin user
    BY <1>3, HeldPlaced DEF IInv
  <1>5. Length(a) = op[t].c
    <2>1. SpanOf(a) = p
      BY <1>2, <1>3, SpanFacts
    <2> QED
      BY <2>1 DEF Length, Cut
  <1>6. Length(a)' \in Sizes
    BY <1>2, <1>5, LengthsStay
  <1> QED
    BY <1>1, <1>4, <1>6, LengthsStay, HeldMore

(* Every step of the pool is a step of the promise, or none.               *)
LEMMA StepHeld ==
    ASSUME IInv, Separate', [Next]_vars
    PROVE  [Promise!Next]_Held
  <1>1. CASE UNCHANGED <<alloc, m_nObjSize, user>>
    BY <1>1, LengthsStay, HeldSame
  <1>2. ASSUME NEW t \in Threads, NEW c \in Sizes, AllocateCached(t, c)
        PROVE  Promise!Next
    <2>1. PICK a \in cache[t][c] : user' = user \cup {a}
      BY <1>2 DEF AllocateCached
    <2>2. a \notin user /\ Length(a) = c
      BY DEF IInv, OneOwner, Filed, Length
    <2>3. UNCHANGED <<alloc, m_nObjSize>>
      BY <1>2 DEF AllocateCached
    <2>4. Length(a)' \in Sizes
      BY <2>2, <2>3, LengthsStay
    <2> QED
      BY <2>1, <2>2, <2>3, <2>4, LengthsStay, HeldMore
  <1>3. ASSUME NEW t \in Threads, FetchRange(t)
        PROVE  Promise!Next
    <2>1. PICK p \in Stocked(op[t].c) : Take(t, p)
      BY <1>3 DEF FetchRange
    <2>2. op[t].at = "fetch" /\ UNCHANGED <<alloc, m_nObjSize>>
      BY <1>3 DEF FetchRange
    <2>3. op[t].c \in Sizes
      BY <2>2, OpShape DEF IInv, Typed
    <2>4. Cut(p, op[t].c) /\ p \in Pages
      BY <2>1, <2>3, CutAtPage DEF IInv, Listed, Stocked
    <2> QED
      BY <2>1, <2>2, <2>4, TakeAllocates DEF Fetching
  <1>4. ASSUME NEW t \in Threads, LinkSpan(t)
        PROVE  Promise!Next
    <2>1. op[t].at = "link" /\ Take(t, op[t].s) /\ UNCHANGED <<alloc, m_nObjSize>>
      BY <1>4 DEF LinkSpan
    <2>2. Moving(t)
      BY <2>1 DEF Moving
    <2>3. Cut(op[t].s, op[t].c)
      BY <2>2 DEF IInv, Listed
    <2>4. op[t].s \in Pages
      BY <2>3, CutAtPage
    <2> QED
      BY <2>1, <2>3, <2>4, TakeAllocates DEF Fetching
  <1>5. ASSUME NEW t \in Threads, NEW k \in LargePages, AllocateLarge(t, k)
        PROVE  Promise!Next
    <2>1. IInv' /\ SameLengths
      BY <1>5, AllocateLargeIInv
    <2>2. PICK p \in Pages :
               /\ <<p, k>> \in alloc' \ alloc
               /\ m_nObjSize' = [m_nObjSize EXCEPT ![p] = k * PageCells]
               /\ user' = user \union {p * PageCells}
      BY <1>5 DEF AllocateLarge
    <2>a. PICK a : a = p * PageCells
      OBVIOUS
    <2>3. p \in Int /\ k \in Nat /\ k >= 1 /\ p + k \in Int /\ p < p + k
      <3>1. k \in Nat /\ k * PageCells > MAX_BYTES /\ MAX_BYTES \in Nat /\ PageCells \in Nat
        BY MemPoolAssumption
      <3>2. k # 0
        BY <3>1
      <3> QED
        BY <3>1, <3>2 DEF Pages
    <2>4. /\ a \in Int /\ (p + k) * PageCells \in Int /\ a + PageCells <= (p + k) * PageCells
          /\ PageCells \in Nat /\ PageCells >= 1
      BY <2>3, <2>a, Ordered, MemPoolAssumption
    <2>5. a < (p + k) * PageCells
      BY <2>4
    <2>6. In(<<p, k>>, a)
      BY <2>a, <2>4, <2>5 DEF In
    <2>7. Apart(alloc') /\ Apart(alloc)
      BY <2>1, ApartNow, ApartNext DEF IInv
    <2>8. BlockOf(a)' = <<p, k>> /\ SpanOf(a)' = <<p, k>>[1]
      BY <2>2, <2>4, <2>6, <2>7, FoundNext
    <2>9. Length(a)' = k * PageCells
      BY <2>2, <2>8 DEF Length, IInv, Typed
    <2>10. a \notin user
      <3>1. SUFFICES ASSUME a \in user PROVE FALSE
        OBVIOUS
      <3>2. PICK b \in alloc : In(b, a)
        BY <3>1, HeldPlaced DEF IInv, Filed
      <3>3. alloc \subseteq alloc'
        BY <1>5 DEF AllocateLarge, PageCache!Acquire
      <3>4. BlockOf(a)' = b
        BY <2>4, <2>7, <3>2, <3>3, FoundNext
      <3> QED
        BY <2>2, <2>8, <3>2, <3>4
    <2>11. user' = user \cup {a}
      BY <2>2, <2>a
    <2> QED
      BY <2>1, <2>9, <2>10, <2>11, HeldMore
  <1>6. ASSUME NEW t \in Threads, NEW a \in user, Deallocate(t, a) \/ DeallocateLarge(t, a)
        PROVE  Promise!Next
    <2>1. user' = user \ {a}
      BY <1>6 DEF Deallocate, DeallocateLarge
    <2>2. CASE Deallocate(t, a)
      <3>1. SameLengths
        BY <2>2, LengthsStay DEF Deallocate
      <3> QED
        BY <2>1, <3>1, HeldLess
    <2>3. CASE DeallocateLarge(t, a)
      <3>1. SameLengths
        BY <2>3, DeallocateLargeIInv
      <3> QED
        BY <2>1, <3>1, HeldLess
    <2> QED
      BY <1>6, <2>2, <2>3
  <1>7. ASSUME NEW t \in Threads, NewSpan(t) \/ GiveBack(t)
        PROVE  Held' = Held
    <2>1. SameLengths
      BY <1>7, NewSpanIInv, GiveBackIInv
    <2>2. user' = user
      BY <1>7 DEF NewSpan, GiveBack
    <2> QED
      BY <2>1, <2>2, HeldSame
  <1>8. ASSUME NEW t \in Threads, NEW c \in Sizes, AllocateMiss(t, c) \/ ReturnList(t, c)
        PROVE  UNCHANGED <<alloc, m_nObjSize, user>>
    BY <1>8 DEF AllocateMiss, ReturnList
  <1>9. ASSUME NEW t \in Threads,
               ThreadExit(t) \/ NeedSpan(t) \/ LockClass(t) \/ PutObject(t)
                  \/ EndPut(t) \/ ThreadStart(t)
        PROVE  UNCHANGED <<alloc, m_nObjSize, user>>
    BY <1>9 DEF ThreadExit, NeedSpan, LockClass, PutObject, EndPut, ThreadStart
  <1>10. CASE UNCHANGED vars
    BY <1>1, <1>10 DEF vars
  <1> QED
    BY <1>1, <1>2, <1>3, <1>4, <1>5, <1>6, <1>7, <1>8, <1>9, <1>10 DEF Next, Step

(* When the spans of every class are a whole number of objects long, a     *)
(* block that Allocate hands out shares nothing with a block some caller   *)
(* still holds, through every interleaving of the threads' calls.  (When   *)
(* they are not, the last object of a span reaches into the next block.)   *)
THEOREM Implements ==
    ASSUME WholeSpans
    PROVE  Spec => ImplementsHeap
  <1>1. Init => Promise!Init
    BY DEF Init, Promise!Init, Held
  <1>2. WholeSpans'
    BY DEF WholeSpans, NumMovePage, NumMoveSize
  <1>3. IInv /\ [Next]_vars => [Promise!Next]_Held
    <2> SUFFICES ASSUME IInv, [Next]_vars PROVE [Promise!Next]_Held
      OBVIOUS
    <2>1. IInv'
      BY StepIInv
    <2>2. Separate'
      BY <1>2, <2>1, HeldApartNext
    <2> QED
      BY <2>2, StepHeld
  <1> QED
    BY <1>1, <1>3, Invariance, PTL DEF Spec, ImplementsHeap, Promise!Spec
=============================================================================
