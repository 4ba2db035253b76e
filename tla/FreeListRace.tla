---------------------------- MODULE FreeListRace ----------------------------
(***************************************************************************)
(* The free list of a thread cache, one memory access per step (FreeList   *)
(* in MemPoolCommon.h, used without a lock by ThreadCache::Allocate and    *)
(* Deallocate).  Which cache a thread uses is a constant: with MSVC        *)
(* THREAD_LOCAL gives every thread its own; GCC and Clang ignore           *)
(* __attribute__((thread)), so that the static m_TLSThreadCache is one     *)
(* object for all threads.                                                 *)
(*                                                                         *)
(* One size class; lists stay shorter than their limit, and a thread that  *)
(* finds its list empty takes nothing here (FetchFromCentralCache is in    *)
(* MemPool).                                                               *)
(***************************************************************************)
EXTENDS Integers, FiniteSets

CONSTANTS
    Threads,
    Caches,
    CacheOf,  \* the cache that m_TLSThreadCache names in each thread
    Objects,
    Null

ASSUME FreeListAssumption ==
    /\ IsFiniteSet(Objects) /\ Null \notin Objects
    /\ CacheOf \in [Threads -> Caches]

(* A cache for every thread, as THREAD_LOCAL means it.                     *)
OwnCache == \A t, u \in Threads : CacheOf[t] = CacheOf[u] => t = u

VARIABLES
    m_freeList,  \* first object of each cache's list
    next,        \* NextObj: the link stored in each object
    size,        \* _size of each list
    hold,        \* the objects that each thread's callers hold
    op           \* the call each thread is in, with its registers

cacheVars == <<m_freeList, next, size, hold, op>>

Idle == [at |-> "idle"]

Ops ==
    {Idle, [at |-> "load"]}
      \union [at : {"next", "popSize", "push", "pushSize"}, obj : Objects]
      \union [at : {"pop"}, obj : Objects, to : Objects \union {Null}]
      \union [at : {"popCount", "pushCount"}, obj : Objects, n : Int]

CacheTypeOK ==
    /\ m_freeList \in [Caches -> Objects \union {Null}]
    /\ next \in [Objects -> Objects \union {Null}]
    /\ size \in [Caches -> Nat]
    /\ hold \in [Threads -> SUBSET Objects]
    /\ op \in [Threads -> Ops]

(* The objects were fetched from the central cache before; each is with    *)
(* some caller and the lists are empty.                                    *)
CacheInit ==
    /\ m_freeList = [c \in Caches |-> Null]
    /\ next = [o \in Objects |-> Null]
    /\ size = [c \in Caches |-> 0]
    /\ \E owner \in [Objects -> Threads] :
           hold = [t \in Threads |-> {o \in Objects : owner[o] = t}]
    /\ op = [t \in Threads |-> Idle]

MyCacheShared(t) == CHOOSE c \in Caches : TRUE   \* mutant: one cache for all
MyCache(t) == CacheOf[t]

(* Allocate finds the list not empty and calls PopFront.                   *)
BeginPop(t) ==
    /\ op[t] = Idle
    /\ size[MyCache(t)] # 0
    /\ op' = [op EXCEPT ![t] = [at |-> "load"]]
    /\ UNCHANGED <<m_freeList, next, size, hold>>

(* obj = m_freeList.                                                       *)
PopLoad(t) ==
    /\ op[t].at = "load"
    /\ m_freeList[MyCache(t)] # Null
    /\ op' = [op EXCEPT ![t] = [at |-> "next", obj |-> m_freeList[MyCache(t)]]]
    /\ UNCHANGED <<m_freeList, next, size, hold>>

(* NextObj(m_freeList) is read ...                                         *)
PopNext(t) ==
    /\ op[t].at = "next"
    /\ op' = [op EXCEPT ![t] = [at |-> "pop", obj |-> op[t].obj, to |-> next[op[t].obj]]]
    /\ UNCHANGED <<m_freeList, next, size, hold>>

(* ... and stored in m_freeList.                                           *)
PopStore(t) ==
    /\ op[t].at = "pop"
    /\ m_freeList' = [m_freeList EXCEPT ![MyCache(t)] = op[t].to]
    /\ op' = [op EXCEPT ![t] = [at |-> "popSize", obj |-> op[t].obj]]
    /\ UNCHANGED <<next, size, hold>>

(* _size-- reads the counter, then writes it; the object goes to the       *)
(* caller.                                                                 *)
PopCount(t) ==
    /\ op[t].at = "popSize"
    /\ op' = [op EXCEPT ![t] = [at |-> "popCount", obj |-> op[t].obj,
                                n |-> size[MyCache(t)] - 1]]
    /\ UNCHANGED <<m_freeList, next, size, hold>>

EndPop(t) ==
    /\ op[t].at = "popCount"
    /\ size' = [size EXCEPT ![MyCache(t)] = op[t].n]
    /\ hold' = [hold EXCEPT ![t] = @ \union {op[t].obj}]
    /\ op' = [op EXCEPT ![t] = Idle]
    /\ UNCHANGED <<m_freeList, next>>

(* A caller passes an object to another thread, which may free it.         *)
Pass(t, u, o) ==
    /\ o \in hold[t]
    /\ hold' = [hold EXCEPT ![t] = @ \ {o}, ![u] = @ \union {o}]
    /\ UNCHANGED <<m_freeList, next, size, op>>

(* Deallocate calls PushFront: NextObj(obj) = m_freeList.                  *)
BeginPush(t, o) ==
    /\ op[t] = Idle
    /\ o \in hold[t]
    /\ hold' = [hold EXCEPT ![t] = @ \ {o}]
    /\ next' = [next EXCEPT ![o] = m_freeList[MyCache(t)]]
    /\ op' = [op EXCEPT ![t] = [at |-> "push", obj |-> o]]
    /\ UNCHANGED <<m_freeList, size>>

(* m_freeList = obj.                                                       *)
PushStore(t) ==
    /\ op[t].at = "push"
    /\ m_freeList' = [m_freeList EXCEPT ![MyCache(t)] = op[t].obj]
    /\ op' = [op EXCEPT ![t] = [at |-> "pushSize", obj |-> op[t].obj]]
    /\ UNCHANGED <<next, size, hold>>

(* _size++.                                                                *)
PushCount(t) ==
    /\ op[t].at = "pushSize"
    /\ op' = [op EXCEPT ![t] = [at |-> "pushCount", obj |-> op[t].obj,
                                n |-> size[MyCache(t)] + 1]]
    /\ UNCHANGED <<m_freeList, next, size, hold>>

EndPush(t) ==
    /\ op[t].at = "pushCount"
    /\ size' = [size EXCEPT ![MyCache(t)] = op[t].n]
    /\ op' = [op EXCEPT ![t] = Idle]
    /\ UNCHANGED <<m_freeList, next, hold>>

CacheNext ==
    \E t \in Threads :
        \/ BeginPop(t) \/ PopLoad(t) \/ PopNext(t) \/ PopStore(t) \/ PopCount(t) \/ EndPop(t)
        \/ \E o \in Objects : BeginPush(t, o) \/ \E u \in Threads \ {t} : Pass(t, u, o)
        \/ PushStore(t) \/ PushCount(t) \/ EndPush(t)

CacheSpec == CacheInit /\ [][CacheNext]_cacheVars

-----------------------------------------------------------------------------
(* An object that one thread's callers hold is in no other thread's hands, *)
(* neither with its callers nor popped and about to be returned to them.   *)
Popped(t) == IF op[t].at \in {"next", "pop", "popSize", "popCount"}
             THEN {op[t].obj} ELSE {}

OneHolder ==
    \A t, u \in Threads :
        t # u => (hold[t] \union Popped(t)) \intersect (hold[u] \union Popped(u)) = {}

(* The objects reachable in a list, in at most as many steps as there are  *)
(* objects.                                                                *)
Reachable(c) ==
    LET Reach[i \in 0 .. Cardinality(Objects)] ==
            IF i = 0 THEN {m_freeList[c]} \ {Null}
            ELSE Reach[i - 1] \union ({next[o] : o \in Reach[i - 1]} \ {Null})
    IN  Reach[Cardinality(Objects)]

(* While no thread is inside a call on it, a list holds as many objects as *)
(* its _size says and none that a caller holds.                            *)
ListIntact ==
    \A c \in Caches :
        (\A t \in Threads : MyCache(t) = c => op[t] = Idle)
            => /\ size[c] = Cardinality(Reachable(c))
               /\ \A t \in Threads : Reachable(c) \intersect hold[t] = {}

(* What THREAD_LOCAL is for (OwnCache): no object has two holders, and a   *)
(* list that nobody is in matches its count.                               *)
CachesSound == OneHolder /\ ListIntact
==============================================================================
