------------------------------ MODULE PageCache ------------------------------
(***************************************************************************)
(* The page cache of the memory pool (libSdk/mem: class PageCache of       *)
(* ThreadCache.h, its methods in CentralCache.cpp).                        *)
(*                                                                         *)
(* Spans are objects with an identity (a Span pointer): an identity that   *)
(* was deleted may be given to a new span, as operator new does.  Every    *)
(* operation runs under the page mutex, so at most one of want and rel is  *)
(* set; a step of this module is one turn of a loop of NewSpan or          *)
(* ReleaseSpan.  The order inside a SpanList is abstracted to a set: any   *)
(* member may be the one that PopFront returns.                            *)
(***************************************************************************)
EXTENDS Integers, FiniteSets

CONSTANTS
    SpanIds,     \* the identities (addresses) of Span objects
    NoSpan,      \* the null pointer
    NumPages,    \* bound: the operating system can map 0 .. NumPages - 1
    KMAX,        \* KPAGE - 1: the longest span kept in a list (128 in the code)
    MaxRequest   \* bound: the largest number of pages asked for

ASSUME PageCacheAssumption ==
    /\ NoSpan \notin SpanIds
    /\ NumPages \in Nat
    /\ KMAX \in Nat \ {0}
    /\ MaxRequest \in Nat

VARIABLES
    live,        \* the Span objects that exist
    m_pageId,    \* first page of each span
    m_nPageNum,  \* number of pages of each span
    m_isUse,     \* the flag that keeps a span from being merged
    m_pageLists, \* m_pageLists[n]: the spans filed under n pages
    idSpanMap,   \* _idSpanMap: page -> span, entries are never erased
    mapped,      \* pages obtained from SystemAlloc
    held,        \* spans returned by NewSpan and not yet released
    want,        \* the k of the NewSpan call in progress, 0 when there is none
    rel          \* the span of the ReleaseSpan call in progress, or NoSpan

vars == <<live, m_pageId, m_nPageNum, m_isUse, m_pageLists, idSpanMap, mapped,
          held, want, rel>>

(* Page NumPages is never mapped: it is where a lookup beyond the last     *)
(* page ends.                                                              *)
Pages == 0 .. NumPages

PagesFrom(first, n) == first .. (first + n - 1)

Extent(s) == PagesFrom(m_pageId[s], m_nPageNum[s])

TypeOK ==
    /\ live \subseteq SpanIds
    /\ m_pageId \in [SpanIds -> Pages]
    /\ m_nPageNum \in [SpanIds -> Pages]
    /\ m_isUse \in [SpanIds -> BOOLEAN]
    /\ m_pageLists \in [1 .. KMAX -> SUBSET SpanIds]
    /\ idSpanMap \in [Pages -> SpanIds \union {NoSpan}]
    /\ mapped \subseteq Pages
    /\ held \subseteq SpanIds
    /\ want \in 0 .. MaxRequest
    /\ rel \in SpanIds \union {NoSpan}

Init ==
    /\ live = {}
    /\ m_pageId = [s \in SpanIds |-> 0]
    /\ m_nPageNum = [s \in SpanIds |-> 0]
    /\ m_isUse = [s \in SpanIds |-> TRUE]
    /\ m_pageLists = [n \in 1 .. KMAX |-> {}]
    /\ idSpanMap = [p \in Pages |-> NoSpan]
    /\ mapped = {}
    /\ held = {}
    /\ want = 0
    /\ rel = NoSpan

MutexFree == want = 0 /\ rel = NoSpan

(* SystemAlloc(n) may return any n pages that are not mapped yet.          *)
Room(n) == {b \in Pages : /\ b + n <= NumPages
                          /\ \A p \in mapped : p < b \/ b + n <= p}

(* The lists that can serve k pages; NewSpan takes the first of them.      *)
Serving(k) == {n \in k .. KMAX : m_pageLists[n] # {}}

(* The call asks for no more than the bounds of the model can serve: there *)
(* is room to map what may be missing, and two Span objects to build.      *)
Servable(k) ==
    /\ Cardinality(SpanIds \ live) >= 2
    /\ IF k > KMAX THEN Room(k) # {} ELSE Serving(k) # {} \/ Room(KMAX) # {}

(* A caller locks the page mutex and calls NewSpan(k).                     *)
RequestSpan(k) ==
    /\ MutexFree
    /\ Servable(k)
    /\ want' = k
    /\ UNCHANGED <<live, m_pageId, m_nPageNum, m_isUse, m_pageLists, idSpanMap,
                   mapped, held, rel>>

(* NewSpan, k beyond the lists: pages straight from the system, and only   *)
(* the first of them is entered in the page map.                           *)
NewLarge ==
    /\ want > KMAX
    /\ \E s \in SpanIds \ live, b \in Room(want) :
        /\ live' = live \union {s}
        /\ m_pageId' = [m_pageId EXCEPT ![s] = b]
        /\ m_nPageNum' = [m_nPageNum EXCEPT ![s] = want]
        /\ m_isUse' = [m_isUse EXCEPT ![s] = TRUE]
        /\ idSpanMap' = [idSpanMap EXCEPT ![b] = s]
        /\ mapped' = mapped \union PagesFrom(b, want)
        /\ held' = held \union {s}
    /\ want' = 0
    /\ UNCHANGED <<m_pageLists, rel>>

(* The page map after s was entered at each of the n pages from first on.  *)
MapAll(s, first, n) ==
    [p \in Pages |-> IF p \in PagesFrom(first, n) THEN s ELSE idSpanMap[p]]

(* NewSpan, the list of exactly k pages has a span: every page of it is    *)
(* entered in the page map.                                                *)
TakeExact ==
    /\ want \in 1 .. KMAX
    /\ \E s \in m_pageLists[want] :
        /\ m_pageLists' = [m_pageLists EXCEPT ![want] = @ \ {s}]
        /\ idSpanMap' = MapAll(s, m_pageId[s], want)
        /\ m_isUse' = [m_isUse EXCEPT ![s] = TRUE]
        /\ held' = held \union {s}
    /\ want' = 0
    /\ UNCHANGED <<live, m_pageId, m_nPageNum, mapped, rel>>

(* What is left of span s when k pages are cut off its front: where it     *)
(* begins and how long it is.                                              *)
RestFirstUnmoved(s, k) == m_pageId[s]        \* mutant: m_pageId stays
RestFirst(s, k) == m_pageId[s] + k
RestLength(s, k) == m_nPageNum[s] - k

(* NewSpan, cutting k pages off the front of the first longer span: the    *)
(* new Span object takes the front, the old one keeps the rest (and its    *)
(* m_isUse flag) and is filed under its new length.                        *)
Split ==
    /\ want \in 1 .. KMAX
    /\ m_pageLists[want] = {}
    /\ \E n \in Serving(want) :
        /\ \A i \in Serving(want) : n <= i
        /\ \E s \in m_pageLists[n], new \in SpanIds \ live :
            LET first == RestFirst(s, want)
                rest  == RestLength(s, want)
            IN  /\ live' = live \union {new}
                /\ m_pageId' = [m_pageId EXCEPT ![new] = m_pageId[s], ![s] = first]
                /\ m_nPageNum' = [m_nPageNum EXCEPT ![new] = want, ![s] = rest]
                /\ m_isUse' = [m_isUse EXCEPT ![new] = TRUE]
                /\ m_pageLists' = [m_pageLists EXCEPT ![n] = @ \ {s},
                                                      ![rest] = @ \union {s}]
                /\ idSpanMap' = [MapAll(new, m_pageId[s], want)
                                    EXCEPT ![first] = s, ![first + rest - 1] = s]
                /\ held' = held \union {new}
    /\ want' = 0
    /\ UNCHANGED <<mapped, rel>>

(* NewSpan, nothing filed is long enough: a chunk of KMAX pages is mapped  *)
(* and filed, with m_isUse left TRUE and no entry in the page map, and     *)
(* NewSpan calls itself.                                                   *)
Grow ==
    /\ want \in 1 .. KMAX
    /\ Serving(want) = {}
    /\ \E s \in SpanIds \ live, b \in Room(KMAX) :
        /\ live' = live \union {s}
        /\ m_pageId' = [m_pageId EXCEPT ![s] = b]
        /\ m_nPageNum' = [m_nPageNum EXCEPT ![s] = KMAX]
        /\ m_isUse' = [m_isUse EXCEPT ![s] = TRUE]
        /\ m_pageLists' = [m_pageLists EXCEPT ![KMAX] = @ \union {s}]
        /\ mapped' = mapped \union PagesFrom(b, KMAX)
    /\ UNCHANGED <<idSpanMap, held, want, rel>>

(* The span that the first loop of ReleaseSpan takes for the previous one: *)
(* the page map is read at m_pageId itself, not at the page before it.     *)
PrevSpan(s) == idSpanMap[m_pageId[s]]

(* A merging loop of ReleaseSpan(s) goes on with t; the loop stops when    *)
(* this is false.                                                          *)
MergeableUsed(s, t) ==   \* mutant: m_isUse is not tested
    t # NoSpan /\ m_nPageNum[t] + m_nPageNum[s] <= KMAX
Mergeable(s, t) ==
    /\ t # NoSpan
    /\ ~ m_isUse[t]
    /\ m_nPageNum[t] + m_nPageNum[s] <= KMAX

(* A caller locks the page mutex and calls ReleaseSpan(s).  The first loop *)
(* stops at once (BackwardScanStops), so nothing is merged in front of s.  *)
(* A span longer than KMAX is not released in this model: m_pageLists has  *)
(* no entry for it.                                                        *)
BeginRelease(s) ==
    /\ MutexFree
    /\ m_nPageNum[s] <= KMAX
    /\ ~ Mergeable(s, PrevSpan(s))
    /\ rel' = s
    /\ held' = held \ {s}
    /\ UNCHANGED <<live, m_pageId, m_nPageNum, m_isUse, m_pageLists, idSpanMap,
                   mapped, want>>

(* What the second loop takes for the next span.                           *)
NextSpanLast(s) ==   \* mutant: off by one, the last page of the span
    idSpanMap[m_pageId[s] + m_nPageNum[s] - 1]
NextSpan(s) == idSpanMap[m_pageId[s] + m_nPageNum[s]]

(* One turn of the second loop: the free span behind rel is absorbed and   *)
(* its Span object deleted; the page map still names it.                   *)
MergeNext ==
    /\ rel # NoSpan
    /\ LET t == NextSpan(rel)
       IN  /\ Mergeable(rel, t)
           /\ m_nPageNum' = [m_nPageNum EXCEPT ![rel] = @ + m_nPageNum[t]]
           /\ m_pageLists' = [m_pageLists EXCEPT ![m_nPageNum[t]] = @ \ {t}]
           /\ live' = live \ {t}
    /\ UNCHANGED <<m_pageId, m_isUse, idSpanMap, mapped, held, want, rel>>

(* The loop stops: the span is filed, marked free and entered in the page  *)
(* map at its first and last page.                                         *)
EndRelease ==
    /\ rel # NoSpan
    /\ ~ Mergeable(rel, NextSpan(rel))
    /\ LET n == m_nPageNum[rel]
           first == m_pageId[rel]
       IN  /\ m_pageLists' = [m_pageLists EXCEPT ![n] = @ \union {rel}]
           /\ m_isUse' = [m_isUse EXCEPT ![rel] = FALSE]
           /\ idSpanMap' = [idSpanMap EXCEPT ![first] = rel, ![first + n - 1] = rel]
    /\ rel' = NoSpan
    /\ UNCHANGED <<live, m_pageId, m_nPageNum, mapped, held, want>>

Next ==
    \/ \E k \in 1 .. MaxRequest : RequestSpan(k)
    \/ NewLarge
    \/ TakeExact
    \/ Split
    \/ Grow
    \/ \E s \in held : BeginRelease(s)
    \/ MergeNext
    \/ EndRelease

Spec == Init /\ [][Next]_vars

-----------------------------------------------------------------------------
(* The parts of the invariant.                                             *)

(* The spans that exist tile the mapped pages: none is empty, no two of    *)
(* them overlap, and no mapped page is lost by a split or a merge.         *)
Disjoint(s, t) ==
    \/ m_pageId[s] + m_nPageNum[s] <= m_pageId[t]
    \/ m_pageId[t] + m_nPageNum[t] <= m_pageId[s]

Tiling ==
    /\ \A s \in live : /\ m_nPageNum[s] > 0
                       /\ m_pageId[s] + m_nPageNum[s] <= NumPages
                       /\ Extent(s) \subseteq mapped
    /\ \A s, t \in live : s # t => Disjoint(s, t)
    /\ \A p \in mapped : \E s \in live : p \in Extent(s)

(* A span is in exactly one place: with a caller, being released, or in    *)
(* the list of its own length.                                             *)
Filing ==
    /\ held \subseteq live
    /\ rel # NoSpan => rel \in live \ held /\ m_nPageNum[rel] <= KMAX
    /\ \A n \in 1 .. KMAX : \A s \in m_pageLists[n] :
           s \in live \ held /\ s # rel /\ m_nPageNum[s] = n
    /\ \A s \in live \ held :
           s # rel => m_nPageNum[s] <= KMAX /\ s \in m_pageLists[m_nPageNum[s]]

(* MapObjToSpan answers for every pointer a caller may pass: each page of  *)
(* a span that is out, or the first page of one too long for the lists,    *)
(* leads to that span and not to one that was deleted or cut off.          *)
HeldLookup ==
    \A s \in held : \A p \in Extent(s) :
        m_nPageNum[s] <= KMAX \/ p = m_pageId[s] => idSpanMap[p] = s

(* What the merging loop of ReleaseSpan finds behind the span is the live  *)
(* span that begins there, never a deleted one whose identity the page map *)
(* still carries.                                                          *)
NextLookup ==
    rel # NoSpan /\ NextSpan(rel) # NoSpan
        => /\ NextSpan(rel) \in live
           /\ m_pageId[NextSpan(rel)] = m_pageId[rel] + m_nPageNum[rel]

(* The first loop of ReleaseSpan finds the span itself, which is in use:   *)
(* it stops at once for every span a caller can release.                   *)
BackwardScanStops ==
    \A s \in held : PrevSpan(s) = s /\ m_isUse[s]

(* The page map leads every caller and every loop of ReleaseSpan to the    *)
(* span it means.                                                          *)
SoundLookups == HeldLookup /\ NextLookup /\ BackwardScanStops

(* The entry of a free span's first page names it.  The one exception is   *)
(* the chunk that Grow has just filed, which the NewSpan call in progress  *)
(* is certain to take.                                                     *)
Fresh(s) ==
    /\ want \in 1 .. KMAX
    /\ m_isUse[s]
    /\ s \in m_pageLists[KMAX]
    /\ \A n \in want .. KMAX : m_pageLists[n] \subseteq {s}

FreeLookup ==
    \A s \in live \ held : idSpanMap[m_pageId[s]] = s \/ Fresh(s)

(* A page that was never mapped has no entry, so a merge stops there.      *)
UnmappedBlank ==
    \A p \in Pages \ mapped : idSpanMap[p] = NoSpan

(* The inductive invariant.                                                *)
IInv ==
    /\ TypeOK
    /\ Tiling
    /\ Filing
    /\ HeldLookup
    /\ BackwardScanStops
    /\ rel # NoSpan => m_isUse[rel] /\ want = 0
    /\ FreeLookup
    /\ UnmappedBlank

-----------------------------------------------------------------------------
(* The page cache implements its promise: seen from the callers, NewSpan   *)
(* hands out disjoint blocks and ReleaseSpan takes back exactly one of     *)
(* them, whatever is split, merged or mapped in between.                   *)
Promise == INSTANCE PageAllocator
               WITH alloc <- {<<m_pageId[s], m_nPageNum[s]>> : s \in held}

ImplementsAllocator == Promise!Spec
==============================================================================
