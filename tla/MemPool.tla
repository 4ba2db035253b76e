------------------------------- MODULE MemPool -------------------------------
(***************************************************************************)
(* The memory pool seen by its threads (libSdk/mem: ThreadCache and        *)
(* CentralCache in CentralCache.cpp, FreeList in MemPoolCommon.h) on top   *)
(* of the page allocator.                                                  *)
(*                                                                         *)
(* Each thread has a cache of free objects per size class; the central     *)
(* cache has, per class, a list of spans and a lock.  A step is what a     *)
(* thread does between two points where another thread can interfere: the  *)
(* acquisitions of a class lock or of the page mutex.  The walk of         *)
(* ReleaseListToSpans is one step per object.  A span is named by its      *)
(* first page; an object by its address, in cells; a free list is a set    *)
(* (which of its members comes first is left open).                        *)
(***************************************************************************)
EXTENDS Integers, FiniteSetsExt

CONSTANTS
    Threads,
    Nobody,      \* no thread holds the lock
    Sizes,       \* the object sizes of the size classes, in cells
    MAX_BYTES,   \* the largest size a class serves, in cells
    MoveCap,     \* the most objects moved at once (512 in the code)
    PageCells,   \* cells per page (1 << PAGE_SHIFT bytes in the code)
    NumPages,    \* bound: pages the system can provide
    LargePages   \* page counts of the large requests

ASSUME MemPoolAssumption ==
    /\ Nobody \notin Threads
    /\ PageCells \in Nat \ {0} /\ NumPages \in Nat /\ MoveCap \in Nat \ {0}
    /\ MAX_BYTES \in Nat /\ Sizes \subseteq 1 .. MAX_BYTES
    /\ \A k \in LargePages : k \in Nat /\ k * PageCells > MAX_BYTES

VARIABLES
    alloc,      \* the blocks of pages taken from the page cache
    m_nObjSize, \* object size of the span at each page
    m_freeList, \* free objects of the span at each page
    m_nUseCount,\* objects of the span at each page that are elsewhere
    spanLists,  \* m_spanLists: the spans of each class
    lock,       \* the thread that holds the lock of each class
    cache,      \* m_freeLists[c] of each thread: the objects in it
    size,       \* ... its _size
    maxSize,    \* ... its _maxSize
    user,       \* addresses that callers hold
    op,         \* what each thread is doing, with the locals of the call
    exiting     \* its thread-local cache is being destroyed

spans == <<m_freeList, m_nUseCount, spanLists>>
caches == <<cache, size, maxSize>>
vars == <<alloc, m_nObjSize, spans, lock, caches, user, op, exiting>>

Pages == 0 .. (NumPages - 1)
Cells == 0 .. (NumPages * PageCells - 1)

PageCache == INSTANCE PageAllocator WITH MaxRequest <- NumPages

(* A call in progress: "fetch" and "link" are about to lock class c to     *)
(* take up to n objects, "newspan" to lock the page cache; "release" is    *)
(* about to lock class c to put objs back, "put" does so under the lock,   *)
(* "giveback" has an unused span s for the page cache.                     *)
Idle == [at |-> "idle"]
Ops ==
    {Idle}
      \union [at : {"fetch", "newspan"}, c : Sizes, n : Nat]
      \union [at : {"link"}, c : Sizes, n : Nat, s : Pages]
      \union [at : {"release", "put"}, c : Sizes, objs : SUBSET Cells]
      \union [at : {"giveback"}, c : Sizes, objs : SUBSET Cells, s : Pages]

Lesser(a, b) == IF a < b THEN a ELSE b
Greater(a, b) == IF a < b THEN b ELSE a

(* How many objects of size c move at once, and how many pages hold them.  *)
NumMoveSize(c) == Lesser(Greater(MAX_BYTES \div c, 2), MoveCap)
NumMovePage(c) == Greater((NumMoveSize(c) * c) \div PageCells, 1)

(* The objects that GetOneSpan cuts out of the n pages from page p on: as  *)
(* long as the next object begins before the end of the span.              *)
CarveTight(p, n, c) ==   \* mutant: start advances by less than an object
    {a \in Cells : p * PageCells <= a /\ a < (p + n) * PageCells}
Carve(p, n, c) ==
    {a \in Cells : /\ p * PageCells <= a /\ a < (p + n) * PageCells
                   /\ (a - p * PageCells) % c = 0}

(* MapObjToSpan.                                                           *)
BlockOf(a) == CHOOSE b \in alloc :
                  b[1] * PageCells <= a /\ a < (b[1] + b[2]) * PageCells
SpanOf(a) == BlockOf(a)[1]

TypeOK ==
    /\ PageCache!TypeOK
    /\ m_nObjSize \in [Pages -> Nat]
    /\ m_freeList \in [Pages -> SUBSET Cells]
    /\ m_nUseCount \in [Pages -> Nat]
    /\ spanLists \in [Sizes -> SUBSET Pages]
    /\ lock \in [Sizes -> Threads \union {Nobody}]
    /\ cache \in [Threads -> [Sizes -> SUBSET Cells]]
    /\ size \in [Threads -> [Sizes -> Nat]]
    /\ maxSize \in [Threads -> [Sizes -> Nat]]
    /\ user \subseteq Cells
    /\ op \in [Threads -> Ops]
    /\ exiting \in [Threads -> BOOLEAN]

Init ==
    /\ PageCache!Init
    /\ m_nObjSize = [p \in Pages |-> 0]
    /\ m_freeList = [p \in Pages |-> {}]
    /\ m_nUseCount = [p \in Pages |-> 0]
    /\ spanLists = [c \in Sizes |-> {}]
    /\ lock = [c \in Sizes |-> Nobody]
    /\ cache = [t \in Threads |-> [c \in Sizes |-> {}]]
    /\ size = [t \in Threads |-> [c \in Sizes |-> 0]]
    /\ maxSize = [t \in Threads |-> [c \in Sizes |-> 1]]
    /\ user = {}
    /\ op = [t \in Threads |-> Idle]
    /\ exiting = [t \in Threads |-> FALSE]

-----------------------------------------------------------------------------
(* Bounds.  A call starts only if the pages it and the calls in progress   *)
(* may need are there: the code would map more instead.                    *)
Pending == {t \in Threads : op[t].at \in {"fetch", "newspan"}}

PagesTaken == UNION {b[1] .. (b[1] + b[2] - 1) : b \in alloc}

Spare(k) ==
    k + MapThenSumSet(LAMBDA t : NumMovePage(op[t].c), Pending)
        <= Cardinality(Pages \ PagesTaken)

-----------------------------------------------------------------------------
(* ThreadCache::Allocate, the thread has an object of the class: PopFront. *)
AllocateCached(t, c) ==
    /\ op[t] = Idle /\ ~ exiting[t]
    /\ size[t][c] # 0
    /\ \E a \in cache[t][c] :
        /\ cache' = [cache EXCEPT ![t][c] = @ \ {a}]
        /\ user' = user \union {a}
    /\ size' = [size EXCEPT ![t][c] = @ - 1]
    /\ UNCHANGED <<alloc, m_nObjSize, spans, lock, maxSize, op, exiting>>

(* ... it has none: FetchFromCentralCache chooses how many objects to ask  *)
(* for, one more each time up to NumMoveSize.                              *)
AllocateMiss(t, c) ==
    /\ op[t] = Idle /\ ~ exiting[t]
    /\ size[t][c] = 0
    /\ Spare(NumMovePage(c))
    /\ LET n == Lesser(maxSize[t][c], NumMoveSize(c))
       IN  /\ op' = [op EXCEPT ![t] = [at |-> "fetch", c |-> c, n |-> n]]
           /\ maxSize' = [maxSize EXCEPT ![t][c] = IF n = @ THEN @ + 1 ELSE @]
    /\ UNCHANGED <<alloc, m_nObjSize, spans, lock, cache, size, user, exiting>>

(* m_nUseCount of span p after n of its objects were taken.                *)
CountTakenShort(p, n) == [m_nUseCount EXCEPT ![p] = @ + n - 1]   \* mutant: off by one
CountTaken(p, n) == [m_nUseCount EXCEPT ![p] = @ + n]

(* What joins the thread's list when objs were fetched and a is returned.  *)
SurplusAll(objs, a) == objs   \* mutant: the returned object is filed as well
Surplus(objs, a) == objs \ {a}

(* The end of FetchRangeObj under the lock of class c, and of Allocate: up *)
(* to n objects leave span p; one goes to the caller, the rest into the    *)
(* cache of thread t.                                                      *)
Take(t, p) ==
    LET c == op[t].c
        n == Lesser(op[t].n, Cardinality(m_freeList[p]))
    IN  /\ \E objs \in SUBSET m_freeList[p] :
            /\ Cardinality(objs) = n
            /\ m_freeList' = [m_freeList EXCEPT ![p] = @ \ objs]
            /\ \E a \in objs :
                /\ user' = user \union {a}
                /\ cache' = [cache EXCEPT ![t][c] = @ \union Surplus(objs, a)]
        /\ m_nUseCount' = CountTaken(p, n)
        /\ size' = [size EXCEPT ![t][c] = @ + n - 1]
        /\ op' = [op EXCEPT ![t] = Idle]

(* The spans of class c that have a free object.                           *)
Stocked(c) == {p \in spanLists[c] : m_freeList[p] # {}}

(* FetchRangeObj, a span of the class has a free object.                   *)
FetchRange(t) ==
    /\ op[t].at = "fetch"
    /\ lock[op[t].c] = Nobody
    /\ \E p \in Stocked(op[t].c) : Take(t, p)
    /\ UNCHANGED <<alloc, m_nObjSize, spanLists, lock, maxSize, exiting>>

(* GetOneSpan, no span has one: the lock is dropped.                       *)
NeedSpan(t) ==
    /\ op[t].at = "fetch"
    /\ lock[op[t].c] = Nobody
    /\ Stocked(op[t].c) = {}
    /\ op' = [op EXCEPT ![t].at = "newspan"]
    /\ UNCHANGED <<alloc, m_nObjSize, spans, lock, caches, user, exiting>>

(* GetOneSpan under the page mutex, and the carving of the new span, which *)
(* nobody else can see yet.                                                *)
NewSpan(t) ==
    /\ op[t].at = "newspan"
    /\ LET c == op[t].c
           k == NumMovePage(c)
       IN  /\ PageCache!Acquire(k)
           /\ \E p \in Pages :
               /\ <<p, k>> \in alloc' \ alloc
               /\ m_freeList' = [m_freeList EXCEPT ![p] = Carve(p, k, c)]
               /\ m_nObjSize' = [m_nObjSize EXCEPT ![p] = c]
               /\ op' = [op EXCEPT ![t] = [at |-> "link", c |-> c, n |-> op[t].n, s |-> p]]
    /\ UNCHANGED <<m_nUseCount, spanLists, lock, caches, user, exiting>>

(* GetOneSpan locks the class again and links the span; FetchRangeObj      *)
(* takes from it.                                                          *)
LinkSpan(t) ==
    /\ op[t].at = "link"
    /\ lock[op[t].c] = Nobody
    /\ spanLists' = [spanLists EXCEPT ![op[t].c] = @ \union {op[t].s}]
    /\ Take(t, op[t].s)
    /\ UNCHANGED <<alloc, m_nObjSize, lock, maxSize, exiting>>

(* GetLargeMem(k pages).                                                   *)
AllocateLarge(t, k) ==
    /\ op[t] = Idle /\ ~ exiting[t]
    /\ Spare(k)
    /\ PageCache!Acquire(k)
    /\ \E p \in Pages :
        /\ <<p, k>> \in alloc' \ alloc
        /\ m_nObjSize' = [m_nObjSize EXCEPT ![p] = k * PageCells]
        /\ user' = user \union {p * PageCells}
    /\ UNCHANGED <<spans, lock, caches, op, exiting>>

(* ThreadCache::Deallocate of a large block: ReleaseLargeMem.              *)
DeallocateLarge(t, a) ==
    /\ op[t] = Idle /\ ~ exiting[t]
    /\ m_nObjSize[SpanOf(a)] > MAX_BYTES
    /\ PageCache!Release(BlockOf(a))
    /\ user' = user \ {a}
    /\ UNCHANGED <<m_nObjSize, spans, lock, caches, op, exiting>>

(* One more object makes the list of class c too long.                     *)
TooLongLate(t, c) == maxSize[t][c] < size[t][c] + 1   \* mutant: < for <=
TooLong(t, c) == maxSize[t][c] <= size[t][c] + 1

(* ThreadCache::Deallocate of an object, by any thread: it joins this      *)
(* thread's cache, and a list that has reached its limit goes back to the  *)
(* central cache.  PopRangeFront(n) clears the link of the n-th object     *)
(* before it reads it, so the list is empty afterwards whatever n was.     *)
Deallocate(t, a) ==
    /\ op[t] = Idle /\ ~ exiting[t]
    /\ LET c == m_nObjSize[SpanOf(a)]
           list == cache[t][c] \union {a}
           limit == maxSize[t][c]
       IN  /\ c \in Sizes
           /\ IF TooLong(t, c)
              THEN \E objs \in SUBSET list :
                    /\ Cardinality(objs) = limit
                    /\ cache' = [cache EXCEPT ![t][c] = {}]
                    /\ size' = [size EXCEPT ![t][c] = @ + 1 - limit]
                    /\ op' = [op EXCEPT ![t] = [at |-> "release", c |-> c, objs |-> objs]]
              ELSE /\ cache' = [cache EXCEPT ![t][c] = list]
                   /\ size' = [size EXCEPT ![t][c] = @ + 1]
                   /\ op' = op
    /\ user' = user \ {a}
    /\ UNCHANGED <<alloc, m_nObjSize, spans, lock, maxSize, exiting>>

(* ReleaseListToSpans locks the class: at its start, and again after each  *)
(* span it gave back.                                                      *)
LockClass(t) ==
    /\ op[t].at = "release"
    /\ lock[op[t].c] = Nobody
    /\ lock' = [lock EXCEPT ![op[t].c] = t]
    /\ op' = [op EXCEPT ![t].at = "put"]
    /\ UNCHANGED <<alloc, m_nObjSize, spans, caches, user, exiting>>

(* One turn of its loop: an object returns to its span; a span that has    *)
(* all its objects again leaves the list and the lock is dropped.          *)
PutObject(t) ==
    /\ op[t].at = "put"
    /\ \E a \in op[t].objs :
        LET c == op[t].c
            p == SpanOf(a)
            rest == op[t].objs \ {a}
        IN  /\ m_freeList' = [m_freeList EXCEPT ![p] = @ \union {a}]
            /\ m_nUseCount' = [m_nUseCount EXCEPT ![p] = @ - 1]
            /\ IF m_nUseCount'[p] = 0
               THEN /\ spanLists' = [spanLists EXCEPT ![c] = @ \ {p}]
                    /\ lock' = [lock EXCEPT ![c] = Nobody]
                    /\ op' = [op EXCEPT ![t] =
                               [at |-> "giveback", c |-> c, objs |-> rest, s |-> p]]
               ELSE /\ op' = [op EXCEPT ![t].objs = rest]
                    /\ UNCHANGED <<spanLists, lock>>
    /\ UNCHANGED <<alloc, m_nObjSize, caches, user, exiting>>

(* ReleaseSpan under the page mutex.  What the span's fields held is never *)
(* read again and is forgotten here.                                       *)
GiveBack(t) ==
    /\ op[t].at = "giveback"
    /\ PageCache!Release(BlockOf(op[t].s * PageCells))
    /\ m_freeList' = [m_freeList EXCEPT ![op[t].s] = {}]
    /\ m_nObjSize' = [m_nObjSize EXCEPT ![op[t].s] = 0]
    /\ op' = [op EXCEPT ![t] = [at |-> "release", c |-> op[t].c, objs |-> op[t].objs]]
    /\ UNCHANGED <<m_nUseCount, spanLists, lock, caches, user, exiting>>

(* The loop is done.                                                       *)
EndPutAgain(t) ==   \* mutant: the loop starts over
    /\ op[t].at = "put"
    /\ op[t].objs = {}
    /\ lock' = [lock EXCEPT ![op[t].c] = Nobody]
    /\ op' = [op EXCEPT ![t].at = "release"]
    /\ UNCHANGED <<alloc, m_nObjSize, spans, caches, user, exiting>>
EndPut(t) ==
    /\ op[t].at = "put"
    /\ op[t].objs = {}
    /\ lock' = [lock EXCEPT ![op[t].c] = Nobody]
    /\ op' = [op EXCEPT ![t] = Idle]
    /\ UNCHANGED <<alloc, m_nObjSize, spans, caches, user, exiting>>

(* The thread ends: ~ThreadCache returns the list of each class.  It pops  *)
(* one object and passes it on with everything that is linked behind it.   *)
ThreadExit(t) ==
    /\ op[t] = Idle /\ ~ exiting[t]
    /\ exiting' = [exiting EXCEPT ![t] = TRUE]
    /\ UNCHANGED <<alloc, m_nObjSize, spans, lock, caches, user, op>>

ReturnList(t, c) ==
    /\ op[t] = Idle /\ exiting[t]
    /\ size[t][c] # 0
    /\ op' = [op EXCEPT ![t] = [at |-> "release", c |-> c, objs |-> cache[t][c]]]
    /\ cache' = [cache EXCEPT ![t][c] = {}]
    /\ size' = [size EXCEPT ![t][c] = 0]
    /\ UNCHANGED <<alloc, m_nObjSize, spans, lock, maxSize, user, exiting>>

(* A new thread, with a new cache, takes the place of one that has ended.  *)
ThreadStart(t) ==
    /\ op[t] = Idle /\ exiting[t]
    /\ \A c \in Sizes : size[t][c] = 0
    /\ cache' = [cache EXCEPT ![t] = [c \in Sizes |-> {}]]
    /\ maxSize' = [maxSize EXCEPT ![t] = [c \in Sizes |-> 1]]
    /\ exiting' = [exiting EXCEPT ![t] = FALSE]
    /\ UNCHANGED <<alloc, m_nObjSize, spans, lock, size, user, op>>

Step(t) ==
    \/ FetchRange(t) \/ NeedSpan(t) \/ NewSpan(t) \/ LinkSpan(t)
    \/ LockClass(t) \/ PutObject(t) \/ GiveBack(t) \/ EndPut(t)
    \/ \E c \in Sizes : ReturnList(t, c)
    \/ ThreadStart(t)

Next ==
    \E t \in Threads :
        \/ \E c \in Sizes : AllocateCached(t, c) \/ AllocateMiss(t, c)
        \/ \E k \in LargePages : AllocateLarge(t, k)
        \/ \E a \in user : Deallocate(t, a) \/ DeallocateLarge(t, a)
        \/ ThreadExit(t)
        \/ Step(t)

Spec == Init /\ [][Next]_vars

(* A thread inside a call keeps running; nothing is assumed of which       *)
(* waiting thread a mutex lets in.                                         *)
FairSpec == Spec /\ \A t \in Threads : WF_vars(Step(t))

-----------------------------------------------------------------------------
(* The objects a thread has in its call.                                   *)
InFlight(t) == IF op[t].at \in {"release", "put", "giveback"} THEN op[t].objs ELSE {}

Away(p) ==
    {a \in Cells : /\ a \in user \/ \E t \in Threads : a \in InFlight(t)
                                     \/ \E c \in Sizes : a \in cache[t][c]
                   /\ SpanOf(a) = p}

SmallBlocks == {b \in alloc : m_nObjSize[b[1]] \in Sizes}

AccountedFor ==
    \A b \in SmallBlocks :
        LET p == b[1]
        IN  /\ m_freeList[p] \union Away(p) = Carve(p, b[2], m_nObjSize[p])
            /\ m_freeList[p] \intersect Away(p) = {}
            /\ m_nUseCount[p] = Cardinality(Away(p))

OneOwner ==
    /\ \A t \in Threads : InFlight(t) \intersect user = {}
    /\ \A t \in Threads, c \in Sizes :
        /\ cache[t][c] \intersect user = {}
        /\ \A u \in Threads : cache[t][c] \intersect InFlight(u) = {}
        /\ \A u \in Threads, d \in Sizes :
            <<t, c>> # <<u, d>> => cache[t][c] \intersect cache[u][d] = {}
    /\ \A t, u \in Threads : t # u => InFlight(t) \intersect InFlight(u) = {}

(* Every object that was carved is in exactly one place: free in its span, *)
(* in one thread's cache, on its way back in one thread's call, or with a  *)
(* caller; and m_nUseCount counts the ones that are not in their span.     *)
ObjectsConserved == AccountedFor /\ OneOwner

(* The counter of a thread's list is its length, and a list at rest is     *)
(* shorter than its limit: then PopRangeFront always takes the whole list, *)
(* and the objects it would lose do not exist.                             *)
ListsWithinLimit ==
    \A t \in Threads, c \in Sizes :
        /\ size[t][c] = Cardinality(cache[t][c])
        /\ size[t][c] < maxSize[t][c]

(* A span that all its objects have returned to does not stay in the       *)
(* central cache: it is on its way to the page cache.                      *)
NoIdleSpan == \A c \in Sizes : \A p \in spanLists[c] : m_nUseCount[p] > 0

(* When callers start nothing new, every call in progress comes to an end: *)
(* no circle of locks, and no loop that feeds itself.                      *)
CallsFinish ==
    <>[][\E t \in Threads : Step(t)]_vars => <>[](\A t \in Threads : op[t] = Idle)

(* No block that a caller holds overlaps another.                          *)
Held == {<<a, m_nObjSize[SpanOf(a)]>> : a \in user}

BlocksDisjoint ==
    \A b, c \in Held : b # c => b[1] + b[2] <= c[1] \/ c[1] + c[2] <= b[1]

(* The pool implements its promise.                                        *)
Promise == INSTANCE Heap
               WITH Top <- NumPages * PageCells,
                    Lengths <- Sizes \union {k * PageCells : k \in LargePages},
                    blocks <- Held

ImplementsHeap == Promise!Spec
==============================================================================
