--------------------------- MODULE PageCacheProof ---------------------------
(***************************************************************************)
(* Proofs about the page cache, for every number of pages, every list      *)
(* bound KMAX and every set of span identities; and about the size classes,*)
(* which decide what the page cache is asked for, for every size.          *)
(***************************************************************************)
EXTENDS PageCache, SizeClass, FiniteSetTheorems,
    FunctionTheorems, TLAPS

USE DEF Pages, PagesFrom, Extent

(* Two spans that tile the memory share no page, and each has its first.   *)
LEMMA ExtentsApart ==
    ASSUME TypeOK, Tiling
    PROVE  /\ \A s \in live : /\ m_pageId[s] \in Extent(s)
                              /\ Extent(s) \subseteq Pages
                              /\ Extent(s) \subseteq mapped
           /\ \A s, t \in live : s # t => Extent(s) \cap Extent(t) = {}
<1>1. \A s \in live : m_pageId[s] \in Nat /\ m_nPageNum[s] \in Nat
  BY PageCacheAssumption DEF TypeOK
<1>2. \A s \in live : /\ m_pageId[s] \in Extent(s)
                      /\ Extent(s) \subseteq Pages
                      /\ Extent(s) \subseteq mapped
  BY <1>1, PageCacheAssumption DEF Tiling
<1>3. ASSUME NEW s \in live, NEW t \in live, s # t
      PROVE  Extent(s) \cap Extent(t) = {}
  <2>1. Disjoint(s, t)
    BY <1>3 DEF Tiling
  <2>2. \A x \in Int : ~ (x \in Extent(s) /\ x \in Extent(t))
    BY <1>1, <2>1 DEF Disjoint
  <2> QED
    BY <2>2
<1> QED
  BY <1>2, <1>3

LEMMA InitIInv == Init => IInv
BY PageCacheAssumption DEF Init, IInv, TypeOK, Tiling, Filing, HeldLookup,
   BackwardScanStops, FreeLookup, UnmappedBlank

LEMMA RequestStep ==
    ASSUME IInv, NEW k \in 1 .. MaxRequest, RequestSpan(k)
    PROVE  IInv'
BY PageCacheAssumption DEF RequestSpan, IInv, TypeOK, Tiling, Filing, HeldLookup, Disjoint, MutexFree,
   BackwardScanStops, FreeLookup, UnmappedBlank, PrevSpan, Fresh

LEMMA BeginStep ==
    ASSUME IInv, NEW s \in held, BeginRelease(s)
    PROVE  IInv'
<1> USE PageCacheAssumption DEF BeginRelease, IInv, MutexFree
<1>1. TypeOK'
  BY DEF TypeOK
<1>2. Tiling'
  BY DEF Tiling, Disjoint
<1>3. Filing'
  BY DEF Filing, TypeOK
<1>4. HeldLookup' /\ BackwardScanStops' /\ UnmappedBlank'
  BY DEF HeldLookup, BackwardScanStops, UnmappedBlank, PrevSpan
<1>5. rel' # NoSpan => m_isUse'[rel'] /\ want' = 0
  BY DEF BackwardScanStops
<1>6. FreeLookup'
  BY DEF FreeLookup, BackwardScanStops, Fresh, PrevSpan
<1> QED
  BY <1>1, <1>2, <1>3, <1>4, <1>5, <1>6

LEMMA MergeStep ==
    ASSUME IInv, MergeNext
    PROVE  IInv'
<1> USE PageCacheAssumption DEF IInv
<1> DEFINE t == NextSpan(rel)
<1>0. /\ rel \in live \ held /\ m_nPageNum[rel] <= KMAX /\ want = want'
      /\ t # NoSpan /\ ~ m_isUse[t] /\ m_nPageNum[t] + m_nPageNum[rel] <= KMAX
      /\ m_nPageNum' = [m_nPageNum EXCEPT ![rel] = @ + m_nPageNum[t]]
      /\ m_pageLists' = [m_pageLists EXCEPT ![m_nPageNum[t]] = @ \ {t}]
      /\ live' = live \ {t}
      /\ UNCHANGED <<m_pageId, m_isUse, idSpanMap, mapped, held, want, rel>>
  BY DEF MergeNext, Mergeable, Filing
<1>1. t \in live /\ m_pageId[t] = m_pageId[rel] + m_nPageNum[rel] /\ t # rel
  <2> DEFINE p == m_pageId[rel] + m_nPageNum[rel]
  <2>1. p \in Pages /\ t = idSpanMap[p] /\ p \in mapped
    BY <1>0 DEF Tiling, TypeOK, NextSpan, UnmappedBlank
  <2>2. PICK u \in live : p \in Extent(u)
    BY <2>1 DEF Tiling
  <2>3. u # rel /\ m_pageId[u] = p
    <3>1. u \in SpanIds /\ rel \in SpanIds
      BY <1>0 DEF TypeOK
    <3>2. /\ m_pageId[u] \in Int /\ m_nPageNum[u] \in Int
          /\ m_pageId[rel] \in Int /\ m_nPageNum[rel] \in Int
      BY <3>1 DEF TypeOK
    <3>3. m_pageId[u] <= p /\ p < m_pageId[u] + m_nPageNum[u]
      BY <2>2, <3>2
    <3>4. u # rel
      BY <3>2, <3>3
    <3>5. Disjoint(u, rel) /\ m_nPageNum[rel] > 0
      BY <1>0, <3>4 DEF Tiling
    <3> QED
      BY <3>2, <3>3, <3>4, <3>5 DEF Disjoint
  <2>4. idSpanMap[p] = u \/ Fresh(u)
    BY <2>2, <2>3 DEF FreeLookup, BackwardScanStops, PrevSpan
  <2>5. ~ Fresh(u)
    BY <1>0, MergeNext DEF Fresh, MergeNext
  <2> QED
    BY <1>0, <2>1, <2>3, <2>4, <2>5
<1>2. t \notin held /\ m_nPageNum[t] \in 1 .. KMAX /\ t \in m_pageLists[m_nPageNum[t]]
  BY <1>0, <1>1 DEF BackwardScanStops, Filing, Tiling, TypeOK
<1> HIDE DEF t
<1>3. TypeOK'
  BY <1>0, <1>1, <1>2 DEF TypeOK, Tiling
<1>4. Tiling'
  <2>1. \A s \in live \ {t, rel} : m_nPageNum'[s] = m_nPageNum[s]
    BY <1>0 DEF TypeOK
  <2>2. m_nPageNum'[rel] = m_nPageNum[rel] + m_nPageNum[t]
    BY <1>0 DEF TypeOK
  <2>3. \A s \in live : m_pageId[s] \in Int /\ m_nPageNum[s] \in Int
    BY DEF TypeOK
  <2>4. \A x \in Int : x \in Extent(rel)' <=> x \in Extent(rel) \/ x \in Extent(t)
    BY <1>0, <1>1, <2>2, <2>3 DEF Tiling
  <2>5. \A s \in live' : /\ m_nPageNum'[s] > 0
                         /\ m_pageId'[s] + m_nPageNum'[s] <= NumPages
                         /\ Extent(s)' \subseteq mapped'
    BY <1>0, <1>1, <2>1, <2>2, <2>3, <2>4 DEF Tiling
  <2>6. \A u, v \in live' : u # v => Disjoint(u, v)'
    BY <1>0, <1>1, <2>1, <2>2, <2>3 DEF Tiling, Disjoint
  <2>7. \A x \in mapped' : \E s \in live' : x \in Extent(s)'
    <3> SUFFICES ASSUME NEW x \in mapped PROVE \E s \in live' : x \in Extent(s)'
      BY <1>0
    <3>1. PICK s \in live : x \in Extent(s)
      BY DEF Tiling
    <3>2. CASE s \in {t, rel}
      BY <1>0, <1>1, <2>4, <3>1, <3>2
    <3>3. CASE s \notin {t, rel}
      BY <1>0, <2>1, <3>1, <3>3
    <3> QED
      BY <3>2, <3>3
  <2> QED
    BY <2>5, <2>6, <2>7 DEF Tiling
<1>5. Filing'
  BY <1>0, <1>1, <1>2 DEF TypeOK, Filing
<1>6. HeldLookup' /\ BackwardScanStops' /\ UnmappedBlank'
  BY <1>0, <1>1, <1>2 DEF HeldLookup, BackwardScanStops, UnmappedBlank, PrevSpan, Filing
<1>7. rel' # NoSpan => m_isUse'[rel'] /\ want' = 0
  BY <1>0
<1>8. FreeLookup'
  BY <1>0, <1>1, <1>2 DEF FreeLookup, Fresh, MergeNext
<1> QED
  BY <1>3, <1>4, <1>5, <1>6, <1>7, <1>8

LEMMA EndStep ==
    ASSUME IInv, EndRelease
    PROVE  IInv'
<1> USE PageCacheAssumption DEF IInv
<1> DEFINE n == m_nPageNum[rel]
           first == m_pageId[rel]
<1>0. /\ rel \in live \ held /\ rel \in SpanIds /\ want = 0 /\ want' = 0
      /\ n \in 1 .. KMAX /\ first \in Pages /\ first + n <= NumPages
      /\ m_pageLists' = [m_pageLists EXCEPT ![n] = @ \union {rel}]
      /\ m_isUse' = [m_isUse EXCEPT ![rel] = FALSE]
      /\ idSpanMap' = [idSpanMap EXCEPT ![first] = rel, ![first + n - 1] = rel]
      /\ rel' = NoSpan
      /\ UNCHANGED <<live, m_pageId, m_nPageNum, mapped, held>>
  BY DEF EndRelease, Filing, Tiling, TypeOK
<1> HIDE DEF n, first
<1>1. TypeOK'
  BY <1>0 DEF TypeOK
<1>2. Tiling'
  BY <1>0 DEF Tiling, Disjoint
<1>3. Filing'
  BY <1>0 DEF Filing, TypeOK, n
<1>4. {first, first + n - 1} \subseteq Extent(rel) \cap Pages
  BY <1>0 DEF TypeOK, n, first
<1>5. \A s \in live \ {rel} : Extent(s) \cap {first, first + n - 1} = {}
  BY <1>0, <1>4, ExtentsApart
<1>6. \A p \in Pages : p \notin {first, first + n - 1} => idSpanMap'[p] = idSpanMap[p]
  BY <1>0 DEF TypeOK
<1>7. \A s \in live : m_pageId[s] \in Pages /\ m_pageId[s] \in Extent(s)
  BY DEF TypeOK, Tiling
<1>8. \A s \in live \ {rel} : \A p \in Extent(s) : idSpanMap'[p] = idSpanMap[p]
  BY <1>5, <1>6 DEF Tiling, TypeOK
<1>9. HeldLookup'
  <2> SUFFICES ASSUME NEW s \in held, NEW p \in Extent(s),
                      m_nPageNum[s] <= KMAX \/ p = m_pageId[s]
               PROVE  idSpanMap'[p] = s
    BY <1>0 DEF HeldLookup
  <2>1. s \in live \ {rel}
    BY <1>0 DEF Filing
  <2> QED
    BY <1>8, <2>1 DEF HeldLookup
<1>10. BackwardScanStops'
  BY <1>0, <1>7, <1>8 DEF BackwardScanStops, PrevSpan, Filing, TypeOK
<1>11. FreeLookup'
  <2>1. idSpanMap'[m_pageId[rel]] = rel
    BY <1>0, <1>4 DEF TypeOK, first
  <2> QED
    <3>1. \A s \in live : ~ Fresh(s)
      BY <1>0 DEF Fresh
    <3> QED
      BY <1>0, <1>7, <1>8, <2>1, <3>1 DEF FreeLookup
<1>12. UnmappedBlank'
  BY <1>0, <1>4, <1>6 DEF UnmappedBlank, Tiling
<1> QED
  BY <1>0, <1>1, <1>2, <1>3, <1>9, <1>10, <1>11, <1>12

LEMMA TakeStep ==
    ASSUME IInv, TakeExact
    PROVE  IInv'
<1> USE PageCacheAssumption DEF IInv
<1>0. PICK s \in m_pageLists[want] :
        /\ m_pageLists' = [m_pageLists EXCEPT ![want] = @ \ {s}]
        /\ idSpanMap' = MapAll(s, m_pageId[s], want)
        /\ m_isUse' = [m_isUse EXCEPT ![s] = TRUE]
        /\ held' = held \union {s}
  BY DEF TakeExact
<1>1. /\ s \in live \ held /\ s # rel /\ m_nPageNum[s] = want /\ s \in SpanIds
      /\ want \in 1 .. KMAX /\ want' = 0 /\ rel = NoSpan /\ rel' = NoSpan
      /\ UNCHANGED <<live, m_pageId, m_nPageNum, mapped>>
  BY <1>0 DEF TakeExact, Filing, TypeOK
<1>2. TypeOK'
  BY <1>0, <1>1 DEF TypeOK, MapAll
<1>3. Tiling'
  BY <1>1 DEF Tiling, Disjoint
<1>4. Filing'
  BY <1>0, <1>1 DEF Filing, TypeOK
<1>5. \A u \in live \ {s} : Extent(u) \cap Extent(s) = {}
  BY <1>1, ExtentsApart
<1>6. \A p \in Pages : idSpanMap'[p] = IF p \in Extent(s) THEN s ELSE idSpanMap[p]
  BY <1>0, <1>1 DEF MapAll
<1>7. \A u \in live : m_pageId[u] \in Pages /\ m_pageId[u] \in Extent(u) /\ Extent(u) \subseteq Pages
  BY DEF TypeOK, Tiling
<1>8. HeldLookup'
  BY <1>0, <1>1, <1>5, <1>6, <1>7 DEF HeldLookup, Filing
<1>9. BackwardScanStops'
  BY <1>0, <1>1, <1>5, <1>6, <1>7 DEF BackwardScanStops, PrevSpan, Filing, TypeOK
<1>10. FreeLookup'
  <2>1. \A u \in live \ held : u # s => ~ Fresh(u)
    BY <1>0, <1>1 DEF Fresh
  <2> QED
    BY <1>0, <1>1, <1>5, <1>6, <1>7, <2>1 DEF FreeLookup
<1>11. UnmappedBlank'
  BY <1>1, <1>6 DEF UnmappedBlank, Tiling
<1> QED
  BY <1>1, <1>2, <1>3, <1>4, <1>8, <1>9, <1>10, <1>11

(* Mapping n fresh pages as a new span keeps the tiling.                   *)
LEMMA NewTile ==
    ASSUME TypeOK, Tiling, NEW n \in Nat \ {0}, NEW s \in SpanIds \ live, NEW b \in Room(n),
           live' = live \union {s},
           m_pageId' = [m_pageId EXCEPT ![s] = b],
           m_nPageNum' = [m_nPageNum EXCEPT ![s] = n],
           mapped' = mapped \union PagesFrom(b, n)
    PROVE  /\ m_pageId' \in [SpanIds -> Pages] /\ m_nPageNum' \in [SpanIds -> Pages]
           /\ mapped' \subseteq Pages /\ live' \subseteq SpanIds
           /\ b \in Pages \ mapped /\ m_pageId'[s] = b /\ m_nPageNum'[s] = n
           /\ \A u \in live : m_pageId'[u] = m_pageId[u] /\ m_nPageNum'[u] = m_nPageNum[u]
           /\ Tiling'
<1> USE PageCacheAssumption
<1>1. /\ b \in Pages /\ b + n <= NumPages
      /\ \A p \in mapped : p < b \/ b + n <= p
  BY DEF Room
<1>2. /\ m_pageId'[s] = b /\ m_nPageNum'[s] = n
      /\ \A u \in live : m_pageId'[u] = m_pageId[u] /\ m_nPageNum'[u] = m_nPageNum[u]
  BY DEF TypeOK
<1>3. \A u \in live : m_pageId[u] \in Nat /\ m_nPageNum[u] \in Nat
  BY DEF TypeOK
<1>4. \A u \in live : Extent(u)' = Extent(u) /\ Extent(u) \subseteq mapped
  BY <1>2 DEF Tiling
<1>5. Extent(s)' = PagesFrom(b, n)
  BY <1>2
<1>6. \A u \in live' : /\ m_nPageNum'[u] > 0
                       /\ m_pageId'[u] + m_nPageNum'[u] <= NumPages
                       /\ Extent(u)' \subseteq mapped'
  BY <1>1, <1>2, <1>4, <1>5 DEF Tiling
<1>7. \A u \in live : m_pageId[u] + m_nPageNum[u] <= b \/ b + n <= m_pageId[u]
  <2> SUFFICES ASSUME NEW u \in live, b < m_pageId[u] + m_nPageNum[u], m_pageId[u] < b + n
               PROVE  FALSE
    BY <1>1, <1>3
  <2>1. m_nPageNum[u] > 0
    BY DEF Tiling
  <2>2. CASE b <= m_pageId[u]
    <3>1. m_pageId[u] \in mapped
      BY ExtentsApart
    <3> QED
      BY <1>1, <1>3, <2>2, <3>1
  <2>3. CASE m_pageId[u] < b
    <3>1. b \in Extent(u)
      BY <1>1, <1>3, <2>3
    <3> QED
      BY <1>1, <1>4, <3>1
  <2> QED
    BY <1>1, <1>3, <2>2, <2>3
<1>8. \A u, v \in live' : u # v => Disjoint(u, v)'
  BY <1>2, <1>7 DEF Tiling, Disjoint
<1>9. \A p \in mapped' : \E u \in live' : p \in Extent(u)'
  BY <1>4, <1>5 DEF Tiling
<1>10. mapped' \subseteq Pages
  BY <1>1 DEF TypeOK
<1> QED
  BY <1>1, <1>2, <1>6, <1>8, <1>9, <1>10 DEF Tiling, TypeOK

LEMMA LargeStep ==
    ASSUME IInv, NewLarge
    PROVE  IInv'
<1> USE PageCacheAssumption DEF IInv
<1>0. PICK s \in SpanIds \ live, b \in Room(want) :
        /\ live' = live \union {s}
        /\ m_pageId' = [m_pageId EXCEPT ![s] = b]
        /\ m_nPageNum' = [m_nPageNum EXCEPT ![s] = want]
        /\ m_isUse' = [m_isUse EXCEPT ![s] = TRUE]
        /\ idSpanMap' = [idSpanMap EXCEPT ![b] = s]
        /\ mapped' = mapped \union PagesFrom(b, want)
        /\ held' = held \union {s}
  BY DEF NewLarge
<1>1. /\ want \in Nat \ {0} /\ want > KMAX /\ want' = 0 /\ rel = NoSpan /\ rel' = NoSpan
      /\ m_pageLists' = m_pageLists /\ s \notin live
  BY DEF NewLarge, TypeOK
<1>2. /\ m_pageId' \in [SpanIds -> Pages] /\ m_nPageNum' \in [SpanIds -> Pages]
      /\ mapped' \subseteq Pages /\ live' \subseteq SpanIds
      /\ b \in Pages \ mapped /\ m_pageId'[s] = b /\ m_nPageNum'[s] = want
      /\ \A u \in live : m_pageId'[u] = m_pageId[u] /\ m_nPageNum'[u] = m_nPageNum[u]
      /\ Tiling'
  BY <1>0, <1>1, NewTile
<1>3. TypeOK'
  <2>1. /\ m_isUse' \in [SpanIds -> BOOLEAN] /\ held' \subseteq SpanIds
        /\ idSpanMap' \in [Pages -> SpanIds \union {NoSpan}]
    BY <1>0, <1>2 DEF TypeOK
  <2>2. m_pageLists' \in [1 .. KMAX -> SUBSET SpanIds] /\ want' \in 0 .. MaxRequest
    BY <1>1 DEF TypeOK
  <2> QED
    BY <1>1, <1>2, <2>1, <2>2 DEF TypeOK
<1>4. Filing'
  BY <1>0, <1>1, <1>2 DEF Filing, TypeOK
<1>5. \A u \in live : /\ Extent(u)' = Extent(u)
                      /\ \A p \in Extent(u) : idSpanMap'[p] = idSpanMap[p]
  BY <1>0, <1>2, ExtentsApart DEF TypeOK
<1>6. idSpanMap'[b] = s
  BY <1>0, <1>2 DEF TypeOK
<1>7. HeldLookup'
  <2> SUFFICES ASSUME NEW u \in held', NEW p \in Extent(u)',
                      m_nPageNum'[u] <= KMAX \/ p = m_pageId'[u]
               PROVE  idSpanMap'[p] = u
    BY DEF HeldLookup
  <2>1. CASE u = s
    BY <1>1, <1>2, <1>6, <2>1
  <2>2. CASE u # s
    <3>1. u \in held /\ u \in live
      BY <1>0, <2>2 DEF Filing
    <3> QED
      BY <1>2, <1>5, <3>1 DEF HeldLookup
  <2> QED
    BY <2>1, <2>2
<1>8. BackwardScanStops'
  BY <1>0, <1>2, <1>5, <1>6, ExtentsApart DEF BackwardScanStops, PrevSpan, Filing, TypeOK
<1>9. FreeLookup'
  <2>1. \A u \in live \ held : ~ Fresh(u)
    BY <1>1 DEF Fresh
  <2> QED
    BY <1>0, <1>2, <1>5, <2>1, ExtentsApart DEF FreeLookup
<1>10. UnmappedBlank'
  <2>1. b \in mapped'
    BY <1>0, <1>1, <1>2
  <2> QED
    BY <1>0, <2>1 DEF UnmappedBlank, TypeOK
<1> QED
  BY <1>1, <1>2, <1>3, <1>4, <1>7, <1>8, <1>9, <1>10

LEMMA GrowStep ==
    ASSUME IInv, Grow
    PROVE  IInv'
<1> USE PageCacheAssumption DEF IInv
<1>0. PICK s \in SpanIds \ live, b \in Room(KMAX) :
        /\ live' = live \union {s}
        /\ m_pageId' = [m_pageId EXCEPT ![s] = b]
        /\ m_nPageNum' = [m_nPageNum EXCEPT ![s] = KMAX]
        /\ m_isUse' = [m_isUse EXCEPT ![s] = TRUE]
        /\ m_pageLists' = [m_pageLists EXCEPT ![KMAX] = @ \union {s}]
        /\ mapped' = mapped \union PagesFrom(b, KMAX)
  BY DEF Grow
<1>1. /\ want \in 1 .. KMAX /\ want' = want /\ rel = NoSpan /\ rel' = NoSpan
      /\ idSpanMap' = idSpanMap /\ held' = held /\ s \notin live
      /\ \A n \in want .. KMAX : m_pageLists[n] = {}
  <2>1. want \in 1 .. KMAX /\ want' = want /\ rel' = rel /\ rel = NoSpan
    BY DEF Grow
  <2>2. Serving(want) = {} /\ idSpanMap' = idSpanMap /\ held' = held
    BY DEF Grow
  <2> QED
    BY <2>1, <2>2 DEF Serving
<1>2. /\ m_pageId' \in [SpanIds -> Pages] /\ m_nPageNum' \in [SpanIds -> Pages]
      /\ mapped' \subseteq Pages /\ live' \subseteq SpanIds
      /\ b \in Pages \ mapped /\ m_pageId'[s] = b /\ m_nPageNum'[s] = KMAX
      /\ \A u \in live : m_pageId'[u] = m_pageId[u] /\ m_nPageNum'[u] = m_nPageNum[u]
      /\ Tiling'
  BY <1>0, <1>1, NewTile
<1>3. TypeOK'
  BY <1>0, <1>1, <1>2 DEF TypeOK
<1>4. Filing'
  BY <1>0, <1>1, <1>2 DEF Filing, TypeOK
<1>5. \A u \in live : Extent(u)' = Extent(u)
  BY <1>2
<1>6. \A u \in held : u # s /\ m_isUse'[u] = m_isUse[u]
  <2>1. \A u \in held : u # s /\ u \in SpanIds
    BY <1>1 DEF Filing, TypeOK
  <2> QED
    BY <1>0, <2>1 DEF TypeOK
<1>9. HeldLookup'
  BY <1>1, <1>2, <1>5 DEF HeldLookup, Filing
<1>10. BackwardScanStops'
  BY <1>1, <1>2, <1>6 DEF BackwardScanStops, PrevSpan, Filing
<1>7. FreeLookup'
  <2>1. \A u \in live \ held : ~ Fresh(u)
    BY <1>1 DEF Fresh
  <2>2. Fresh(s)'
    BY <1>0, <1>1 DEF Fresh, TypeOK
  <2> QED
    BY <1>0, <1>1, <1>2, <2>1, <2>2 DEF FreeLookup
<1>8. UnmappedBlank'
  BY <1>0, <1>1 DEF UnmappedBlank
<1> QED
  BY <1>1, <1>2, <1>3, <1>4, <1>7, <1>8, <1>9, <1>10

LEMMA SplitStep ==
    ASSUME IInv, Split
    PROVE  IInv'
<1> USE PageCacheAssumption DEF IInv
<1>1. PICK n \in Serving(want) : \E s \in m_pageLists[n], new \in SpanIds \ live :
        LET first == RestFirst(s, want)
            rest  == RestLength(s, want)
        IN  /\ live' = live \union {new}
            /\ m_pageId' = [m_pageId EXCEPT ![new] = m_pageId[s], ![s] = first]
            /\ m_nPageNum' = [m_nPageNum EXCEPT ![new] = want, ![s] = rest]
            /\ m_isUse' = [m_isUse EXCEPT ![new] = TRUE]
            /\ m_pageLists' = [m_pageLists EXCEPT ![n] = @ \ {s},
                                                  ![rest] = @ \union {s}]
            /\ idSpanMap' = [MapAll(new, m_pageId[s], want)
                                EXCEPT ![first] = s, ![first + rest - 1] = s]
            /\ held' = held \union {new}
  BY DEF Split
<1>2. PICK s \in m_pageLists[n], new \in SpanIds \ live :
        /\ live' = live \union {new}
        /\ m_pageId' = [m_pageId EXCEPT ![new] = m_pageId[s], ![s] = m_pageId[s] + want]
        /\ m_nPageNum' = [m_nPageNum EXCEPT ![new] = want, ![s] = m_nPageNum[s] - want]
        /\ m_isUse' = [m_isUse EXCEPT ![new] = TRUE]
        /\ m_pageLists' = [m_pageLists EXCEPT ![n] = @ \ {s},
                                              ![m_nPageNum[s] - want] = @ \union {s}]
        /\ idSpanMap' = [MapAll(new, m_pageId[s], want)
                            EXCEPT ![m_pageId[s] + want] = s,
                                   ![m_pageId[s] + want + (m_nPageNum[s] - want) - 1] = s]
        /\ held' = held \union {new}
  BY <1>1 DEF RestFirst, RestLength
<1>3. /\ want \in 1 .. KMAX /\ n \in want .. KMAX /\ n # want
      /\ want' = 0 /\ rel = NoSpan /\ rel' = NoSpan /\ mapped' = mapped
  BY <1>2 DEF Split, Serving
<1>4. /\ s \in live \ held /\ m_nPageNum[s] = n /\ s \in SpanIds
      /\ new \in SpanIds /\ new \notin live /\ new # s
  BY <1>2, <1>3 DEF Filing, TypeOK
<1> DEFINE a == m_pageId[s]
           k == want
           r == n - want
<1>5. /\ a \in Nat /\ k \in Nat /\ r \in 1 .. KMAX /\ k > 0 /\ n = k + r
      /\ a + n <= NumPages
  BY <1>3, <1>4 DEF TypeOK, Tiling
<1>6. /\ m_pageId'[new] = a /\ m_nPageNum'[new] = k
      /\ m_pageId'[s] = a + k /\ m_nPageNum'[s] = r
      /\ \A u \in live : u # s => m_pageId'[u] = m_pageId[u] /\ m_nPageNum'[u] = m_nPageNum[u]
      /\ m_pageId' \in [SpanIds -> Pages] /\ m_nPageNum' \in [SpanIds -> Pages]
  <2>1. \A u \in live : u \in SpanIds /\ u # new
    BY <1>4 DEF TypeOK
  <2>2. m_pageId \in [SpanIds -> Pages] /\ m_nPageNum \in [SpanIds -> Pages]
    BY DEF TypeOK
  <2>3. a \in Pages /\ a + k \in Pages /\ k \in Pages /\ m_nPageNum[s] - k = r /\ r \in Pages
    BY <1>4, <1>5
  <2>4. /\ m_pageId' = [m_pageId EXCEPT ![new] = a, ![s] = a + k]
        /\ m_nPageNum' = [m_nPageNum EXCEPT ![new] = k, ![s] = r]
    BY <1>2, <2>3
  <2> HIDE DEF a, k, r
  <2> QED
    BY <1>4, <2>1, <2>2, <2>3, <2>4
<1>7. \A p \in Pages : idSpanMap'[p] = IF p \in {a + k, a + k + r - 1} THEN s
                                       ELSE IF p \in PagesFrom(a, k) THEN new
                                       ELSE idSpanMap[p]
  BY <1>2, <1>4, <1>5 DEF MapAll
<1>8. /\ \A x \in Int : x \in Extent(new)' <=> a <= x /\ x < a + k
      /\ \A x \in Int : x \in Extent(s)' <=> a + k <= x /\ x < a + n
      /\ \A x \in Int : x \in Extent(s) <=> a <= x /\ x < a + n
      /\ \A u \in live \ {s} : Extent(u)' = Extent(u)
  <2>1. /\ \A x \in Int : x \in Extent(new)' <=> a <= x /\ x < a + k
        /\ \A x \in Int : x \in Extent(s)' <=> a + k <= x /\ x < a + n
    BY <1>5, <1>6
  <2>2. \A x \in Int : x \in Extent(s) <=> a <= x /\ x < a + n
    BY <1>4, <1>5
  <2>3. \A u \in live \ {s} : Extent(u)' = Extent(u)
    BY <1>6
  <2> QED
    BY <2>1, <2>2, <2>3
<1>9. TypeOK'
  <2>1. m_pageLists' \in [1 .. KMAX -> SUBSET SpanIds]
    BY <1>2, <1>4 DEF TypeOK
  <2>2. idSpanMap' \in [Pages -> SpanIds \union {NoSpan}]
    BY <1>2, <1>4 DEF TypeOK, MapAll
  <2>3. m_isUse' \in [SpanIds -> BOOLEAN] /\ live' \subseteq SpanIds /\ held' \subseteq SpanIds
    BY <1>2 DEF TypeOK
  <2> QED
    BY <1>3, <1>6, <2>1, <2>2, <2>3 DEF TypeOK
<1>10. Tiling'
  <2>1. \A u \in live' : /\ m_nPageNum'[u] > 0
                         /\ m_pageId'[u] + m_nPageNum'[u] <= NumPages
                         /\ Extent(u)' \subseteq mapped'
    <3>1. \A u \in live \ {s} : /\ m_nPageNum'[u] > 0
                                /\ m_pageId'[u] + m_nPageNum'[u] <= NumPages
                                /\ Extent(u)' \subseteq mapped'
      BY <1>3, <1>6, <1>8 DEF Tiling
    <3>2. Extent(s)' \subseteq mapped' /\ Extent(new)' \subseteq mapped'
      <4>1. Extent(s) \subseteq mapped'
        BY <1>3, <1>4 DEF Tiling
      <4>2. Extent(s)' \subseteq Extent(s) /\ Extent(new)' \subseteq Extent(s)
        BY <1>4, <1>5, <1>6
      <4> QED
        BY <4>1, <4>2
    <3>3. /\ m_nPageNum'[s] > 0 /\ m_pageId'[s] + m_nPageNum'[s] <= NumPages
          /\ m_nPageNum'[new] > 0 /\ m_pageId'[new] + m_nPageNum'[new] <= NumPages
      BY <1>5, <1>6, PageCacheAssumption
    <3>4. live' = (live \ {s}) \union {s, new}
      BY <1>2, <1>4
    <3> HIDE DEF Extent
    <3> QED
      BY <3>1, <3>2, <3>3, <3>4
  <2>2. \A u, v \in live' : u # v => Disjoint(u, v)'
    <3>1. \A u \in live : m_pageId[u] \in Int /\ m_nPageNum[u] \in Int
      BY DEF TypeOK
    <3>2. \A u \in live \ {s} : m_pageId[u] + m_nPageNum[u] <= a \/ a + n <= m_pageId[u]
      BY <1>4 DEF Tiling, Disjoint
    <3>3. \A u, v \in live \ {s} : u # v => Disjoint(u, v)'
      BY <1>6 DEF Tiling, Disjoint
    <3>4. \A u \in live \ {s} : /\ Disjoint(u, s)' /\ Disjoint(s, u)'
                                /\ Disjoint(u, new)' /\ Disjoint(new, u)'
      BY <1>5, <1>6, <3>1, <3>2 DEF Disjoint
    <3>5. Disjoint(s, new)' /\ Disjoint(new, s)'
      BY <1>5, <1>6 DEF Disjoint
    <3>6. live' = (live \ {s}) \union {s, new}
      BY <1>2, <1>4
    <3> QED
      BY <3>3, <3>4, <3>5, <3>6
  <2>3. \A p \in mapped' : \E u \in live' : p \in Extent(u)'
    <3> SUFFICES ASSUME NEW p \in mapped PROVE \E u \in live' : p \in Extent(u)'
      BY <1>3
    <3>1. PICK u \in live : p \in Extent(u)
      BY DEF Tiling
    <3>2. CASE u = s
      <4>1. p \in Int /\ (p \in Extent(s)' \/ p \in Extent(new)')
        BY <1>4, <1>5, <1>8, <3>1, <3>2
      <4> QED
        BY <1>2, <1>4, <4>1
    <3>3. CASE u # s
      BY <1>2, <1>8, <3>1, <3>3
    <3> QED
      BY <3>2, <3>3
  <2> QED
    BY <2>1, <2>2, <2>3 DEF Tiling
<1>11. Filing'
  <2>1. m_nPageNum[s] - want = r /\ r # n /\ n \in 1 .. KMAX
    BY <1>4, <1>5, <1>3
  <2>2. \A i \in 1 .. KMAX : m_pageLists'[i] = IF i = n THEN m_pageLists[n] \ {s}
                                              ELSE IF i = r THEN m_pageLists[r] \union {s}
                                              ELSE m_pageLists[i]
    BY <1>2, <1>5, <2>1 DEF TypeOK
  <2>3. \A i \in 1 .. KMAX : \A u \in m_pageLists'[i] :
           u \in live' \ held' /\ u # rel' /\ m_nPageNum'[u] = i
    <3> SUFFICES ASSUME NEW i \in 1 .. KMAX, NEW u \in m_pageLists'[i]
                 PROVE  u \in live' \ held' /\ u # rel' /\ m_nPageNum'[u] = i
      OBVIOUS
    <3>1. CASE u = s
      <4>1. i = r
        BY <1>4, <2>1, <2>2, <3>1 DEF Filing
      <4> QED
        BY <1>2, <1>3, <1>4, <1>6, <3>1, <4>1 DEF TypeOK
    <3>2. CASE u # s
      <4>1. u \in m_pageLists[i]
        BY <2>2, <3>2
      <4>2. u \in live \ held /\ m_nPageNum[u] = i /\ u # rel /\ u # new
        BY <1>4, <4>1 DEF Filing
      <4> QED
        BY <1>2, <1>3, <1>6, <3>2, <4>2
    <3> QED
      BY <3>1, <3>2
  <2>4. \A u \in live' \ held' : m_nPageNum'[u] <= KMAX /\ u \in m_pageLists'[m_nPageNum'[u]]
    <3> SUFFICES ASSUME NEW u \in live' \ held'
                 PROVE  m_nPageNum'[u] <= KMAX /\ u \in m_pageLists'[m_nPageNum'[u]]
      OBVIOUS
    <3>1. u \in live \ held
      BY <1>2
    <3>2. CASE u = s
      BY <1>5, <1>6, <2>1, <2>2, <3>2
    <3>3. CASE u # s
      <4>1. m_nPageNum[u] \in 1 .. KMAX /\ u \in m_pageLists[m_nPageNum[u]]
        BY <1>3, <3>1 DEF Filing, Tiling, TypeOK
      <4> QED
        BY <1>6, <2>2, <3>1, <3>3, <4>1
    <3> QED
      BY <3>2, <3>3
  <2> QED
    BY <1>2, <1>3, <2>3, <2>4 DEF Filing
<1>12. \A u \in live \ {s} : \A p \in Extent(u) : idSpanMap'[p] = idSpanMap[p]
  <2> SUFFICES ASSUME NEW u \in live \ {s}, NEW p \in Extent(u)
               PROVE  idSpanMap'[p] = idSpanMap[p]
    OBVIOUS
  <2>1. p \in Pages /\ p \notin Extent(s)
    BY <1>4, ExtentsApart
  <2>2. ~ (a <= p /\ p < a + n)
    BY <1>8, <2>1
  <2> QED
    BY <1>5, <1>7, <2>1, <2>2
<1>13. HeldLookup'
  <2> SUFFICES ASSUME NEW u \in held', NEW p \in Extent(u)',
                      m_nPageNum'[u] <= KMAX \/ p = m_pageId'[u]
               PROVE  idSpanMap'[p] = u
    BY DEF HeldLookup
  <2>1. CASE u = new
    BY <1>5, <1>6, <1>7, <2>1
  <2>2. CASE u # new
    <3>1. u \in held /\ u \in live \ {s}
      BY <1>2, <1>4, <2>2 DEF Filing
    <3>2. m_nPageNum'[u] = m_nPageNum[u] /\ m_pageId'[u] = m_pageId[u] /\ p \in Extent(u)
      BY <1>6, <3>1
    <3>3. idSpanMap[p] = u
      BY <3>1, <3>2 DEF HeldLookup
    <3> QED
      BY <1>12, <3>1, <3>2, <3>3
  <2> QED
    BY <2>1, <2>2
<1>14. BackwardScanStops'
  <2> SUFFICES ASSUME NEW u \in held' PROVE idSpanMap'[m_pageId'[u]] = u /\ m_isUse'[u]
    BY DEF BackwardScanStops, PrevSpan
  <2>1. CASE u = new
    <3>1. a \in Pages /\ idSpanMap'[a] = new
      BY <1>5, <1>7
    <3> QED
      BY <1>2, <1>4, <1>6, <2>1, <3>1 DEF TypeOK
  <2>2. CASE u # new
    <3>1. u \in held /\ u \in live \ {s} /\ u \in SpanIds
      BY <1>2, <1>4, <2>2 DEF Filing, TypeOK
    <3>2. m_isUse'[u] = m_isUse[u]
      BY <1>2, <2>2, <3>1 DEF TypeOK
    <3> QED
      BY <1>6, <1>12, <3>1, <3>2, ExtentsApart DEF BackwardScanStops, PrevSpan
  <2> QED
    BY <2>1, <2>2
<1>15. FreeLookup'
  <2> SUFFICES ASSUME NEW u \in live' \ held' PROVE idSpanMap'[m_pageId'[u]] = u
    BY DEF FreeLookup
  <2>1. u \in live \ held
    BY <1>2
  <2>2. CASE u = s
    BY <1>5, <1>6, <1>7, <2>2
  <2>3. CASE u # s
    <3>1. ~ Fresh(u)
      BY <1>2, <1>3, <2>3 DEF Fresh
    <3> QED
      BY <1>6, <1>12, <2>1, <2>3, <3>1, ExtentsApart DEF FreeLookup
  <2> QED
    BY <2>2, <2>3
<1>16. UnmappedBlank'
  <2> SUFFICES ASSUME NEW p \in Pages \ mapped PROVE idSpanMap'[p] = NoSpan
    BY <1>3 DEF UnmappedBlank
  <2>1. p \notin Extent(s) /\ p \in Int /\ idSpanMap[p] = NoSpan
    BY <1>4 DEF Tiling, UnmappedBlank
  <2>2. ~ (a <= p /\ p < a + n)
    BY <1>8, <2>1
  <2>3. p \notin {a + k, a + k + r - 1} /\ p \notin PagesFrom(a, k)
    BY <1>5, <2>1, <2>2
  <2> QED
    BY <1>7, <2>1, <2>3
<1> QED
  BY <1>3, <1>9, <1>10, <1>11, <1>13, <1>14, <1>15, <1>16

(* IInv is inductive.                                                      *)
LEMMA StepIInv == IInv /\ [Next]_vars => IInv'
<1> SUFFICES ASSUME IInv, [Next]_vars PROVE IInv'
  OBVIOUS
<1>1. CASE \E k \in 1 .. MaxRequest : RequestSpan(k)
  BY <1>1, RequestStep
<1>2. CASE NewLarge
  BY <1>2, LargeStep
<1>3. CASE TakeExact
  BY <1>3, TakeStep
<1>4. CASE Split
  BY <1>4, SplitStep
<1>5. CASE Grow
  BY <1>5, GrowStep
<1>6. CASE \E s \in held : BeginRelease(s)
  BY <1>6, BeginStep
<1>7. CASE MergeNext
  BY <1>7, MergeStep
<1>8. CASE EndRelease
  BY <1>8, EndStep
<1>9. CASE UNCHANGED vars
  BY <1>9 DEF vars, IInv, TypeOK, Tiling, Disjoint, Filing, HeldLookup,
     BackwardScanStops, PrevSpan, FreeLookup, Fresh, UnmappedBlank
<1> QED
  BY <1>1, <1>2, <1>3, <1>4, <1>5, <1>6, <1>7, <1>8, <1>9 DEF Next

LEMMA Invariance == Spec => []IInv
<1>1. Init => IInv
  BY InitIInv
<1>2. IInv /\ [Next]_vars => IInv'
  BY StepIInv
<1> QED
  BY <1>1, <1>2, PTL DEF Spec

(* Every state of the page cache is well typed.                            *)
THEOREM TypeCorrect == Spec => []TypeOK
<1>1. IInv => TypeOK
  BY DEF IInv
<1> QED
  BY <1>1, Invariance, PTL

(* The spans that exist tile the mapped memory and each is filed in one    *)
(* place: splitting and merging neither lose a page nor give one twice.    *)
THEOREM SpansTile == Spec => [](Tiling /\ Filing)
<1>1. IInv => Tiling /\ Filing
  BY DEF IInv
<1> QED
  BY <1>1, Invariance, PTL

(* Lookups in the page map are sound although entries of deleted spans are *)
(* never erased: a caller's pointer leads to the caller's span, the span a *)
(* merge absorbs exists and begins where the lookup was made, and the      *)
(* first loop of ReleaseSpan only ever finds the span itself.              *)
THEOREM LookupsSound == Spec => []SoundLookups
<1>1. IInv => NextLookup
  <2> SUFFICES ASSUME IInv, rel # NoSpan, NextSpan(rel) # NoSpan
               PROVE  /\ NextSpan(rel) \in live
                      /\ m_pageId[NextSpan(rel)] = m_pageId[rel] + m_nPageNum[rel]
    BY DEF NextLookup
  <2> DEFINE p == m_pageId[rel] + m_nPageNum[rel]
  <2>1. rel \in live /\ want = 0 /\ rel \in SpanIds
    BY DEF IInv, Filing, TypeOK
  <2>2. p \in Pages /\ p \in mapped
    BY <2>1, PageCacheAssumption DEF IInv, TypeOK, Tiling, UnmappedBlank, NextSpan
  <2>3. PICK u \in live : p \in Extent(u)
    BY <2>2 DEF IInv, Tiling
  <2>4. u # rel /\ m_pageId[u] = p
    <3>1. /\ m_pageId[u] \in Int /\ m_nPageNum[u] \in Int
          /\ m_pageId[rel] \in Int /\ m_nPageNum[rel] \in Int
      BY <2>1 DEF IInv, TypeOK
    <3>2. m_pageId[u] <= p /\ p < m_pageId[u] + m_nPageNum[u]
      BY <2>3, <3>1
    <3>3. u # rel
      BY <3>1, <3>2
    <3>4. Disjoint(u, rel) /\ m_nPageNum[rel] > 0
      BY <2>1, <3>3 DEF IInv, Tiling
    <3> QED
      BY <3>1, <3>2, <3>3, <3>4 DEF Disjoint
  <2>5. idSpanMap[p] = u
    BY <2>1, <2>4 DEF IInv, FreeLookup, Fresh, BackwardScanStops, PrevSpan
  <2> QED
    BY <2>4, <2>5 DEF NextSpan
<1>2. IInv => HeldLookup /\ BackwardScanStops
  BY DEF IInv
<1>3. IInv => SoundLookups
  BY <1>1, <1>2 DEF SoundLookups
<1> QED
  BY <1>3, Invariance, PTL

-----------------------------------------------------------------------------
(* The refinement.  Out is the abstract state.                             *)
Out == {<<m_pageId[s], m_nPageNum[s]>> : s \in held}

LEMMA OutUnchanged ==
    ASSUME held' = held,
           \A s \in held : m_pageId'[s] = m_pageId[s] /\ m_nPageNum'[s] = m_nPageNum[s]
    PROVE  Out' = Out
BY DEF Out

(* Handing out one more span whose extent is its own is an Acquire.        *)
LEMMA OutAcquire ==
    ASSUME IInv, Tiling', NEW s \in live', s \notin held, held' = held \union {s},
           held \subseteq live',
           want \in 1 .. MaxRequest, m_nPageNum'[s] = want,
           m_pageId'[s] \in Nat,
           \A u \in held : m_pageId'[u] = m_pageId[u] /\ m_nPageNum'[u] = m_nPageNum[u]
    PROVE  \E k \in 1 .. MaxRequest :
             \E p \in 0 .. (NumPages - k) :
               /\ \A b \in Out : ~ Promise!Overlap(b, <<p, k>>)
               /\ Out' = Out \union {<<p, k>>}
<1> DEFINE p == m_pageId'[s]
<1>1. p \in 0 .. (NumPages - want)
  BY PageCacheAssumption DEF Tiling
<1>2. \A u \in held : ~ Promise!Overlap(<<m_pageId[u], m_nPageNum[u]>>, <<p, want>>)
  <2> SUFFICES ASSUME NEW u \in held
               PROVE  ~ (m_pageId[u] < p + want /\ p < m_pageId[u] + m_nPageNum[u])
    BY DEF Promise!Overlap
  <2>1. Disjoint(u, s)'
    BY DEF Tiling
  <2>2. u \in SpanIds /\ m_pageId[u] \in Int /\ m_nPageNum[u] \in Int
    BY DEF IInv, TypeOK
  <2> QED
    BY <2>1, <2>2 DEF Disjoint
<1>3. Out' = Out \union {<<p, want>>}
  BY DEF Out
<1>4. \A b \in Out : ~ Promise!Overlap(b, <<p, want>>)
  BY <1>2 DEF Out
<1> QED
  BY <1>1, <1>3, <1>4

LEMMA StepRefines == IInv /\ IInv' /\ [Next]_vars => [Promise!Next]_Out
<1> SUFFICES ASSUME IInv, IInv', [Next]_vars
             PROVE  Promise!Next \/ Out' = Out
  OBVIOUS
<1>1. CASE \E k \in 1 .. MaxRequest : RequestSpan(k)
  BY <1>1, OutUnchanged DEF RequestSpan
<1>2. CASE NewLarge
  <2>1. PICK s \in SpanIds \ live, b \in Room(want) :
          /\ live' = live \union {s}
          /\ m_pageId' = [m_pageId EXCEPT ![s] = b]
          /\ m_nPageNum' = [m_nPageNum EXCEPT ![s] = want]
          /\ held' = held \union {s}
    BY <1>2 DEF NewLarge
  <2>2. /\ s \notin held /\ held \subseteq live' /\ s \in live'
        /\ want \in 1 .. MaxRequest /\ m_nPageNum'[s] = want /\ m_pageId'[s] \in Nat
        /\ \A u \in held : m_pageId'[u] = m_pageId[u] /\ m_nPageNum'[u] = m_nPageNum[u]
    BY <1>2, <2>1, PageCacheAssumption DEF NewLarge, IInv, Filing, TypeOK, Room
  <2> QED
    BY <2>1, <2>2, OutAcquire DEF IInv, Promise!Next, Promise!Acquire, Out
<1>3. CASE TakeExact
  <2>1. PICK s \in m_pageLists[want] : held' = held \union {s}
    BY <1>3 DEF TakeExact
  <2>2. /\ want \in 1 .. MaxRequest /\ m_nPageNum[s] = want /\ s \in live \ held
        /\ UNCHANGED <<live, m_pageId, m_nPageNum>> /\ held \subseteq live
        /\ m_pageId[s] \in Nat
    BY <1>3, <2>1 DEF TakeExact, IInv, Filing, TypeOK
  <2> QED
    BY <2>1, <2>2, OutAcquire DEF IInv, Promise!Next, Promise!Acquire, Out
<1>4. CASE Split
  <2> DEFINE Cut(s, new) ==
          /\ live' = live \union {new}
          /\ m_pageId' = [m_pageId EXCEPT ![new] = m_pageId[s], ![s] = RestFirst(s, want)]
          /\ m_nPageNum' = [m_nPageNum EXCEPT ![new] = want, ![s] = RestLength(s, want)]
          /\ held' = held \union {new}
  <2>0. PICK n \in Serving(want) : \E s \in m_pageLists[n], new \in SpanIds \ live : Cut(s, new)
    BY <1>4 DEF Split
  <2>1. PICK s \in m_pageLists[n], new \in SpanIds \ live : Cut(s, new)
    BY <2>0
  <2>2. n \in 1 .. KMAX /\ want \in 1 .. MaxRequest
    BY <1>4, <2>1 DEF Split, Serving, IInv, TypeOK
  <2>3. s \in live \ held /\ s \in SpanIds /\ new # s /\ new \notin held
    BY <2>1, <2>2 DEF IInv, Filing, TypeOK
  <2>4. /\ held \subseteq live' /\ new \in live' /\ m_nPageNum'[new] = want
        /\ m_pageId'[new] \in Nat
        /\ \A u \in held : m_pageId'[u] = m_pageId[u] /\ m_nPageNum'[u] = m_nPageNum[u]
    BY <2>1, <2>2, <2>3, PageCacheAssumption DEF IInv, Filing, TypeOK
  <2> QED
    BY <2>1, <2>2, <2>3, <2>4, OutAcquire DEF IInv, Promise!Next, Promise!Acquire, Out
<1>5. CASE Grow
  <2>1. PICK s \in SpanIds \ live, b \in Room(KMAX) :
          /\ m_pageId' = [m_pageId EXCEPT ![s] = b]
          /\ m_nPageNum' = [m_nPageNum EXCEPT ![s] = KMAX]
    BY <1>5 DEF Grow
  <2>2. held' = held /\ held \subseteq SpanIds \ {s}
    BY <1>5, <2>1 DEF Grow, IInv, Filing, TypeOK
  <2> QED
    BY <2>1, <2>2, OutUnchanged DEF IInv, TypeOK
<1>6. CASE \E s \in held : BeginRelease(s)
  <2>1. PICK s \in held : BeginRelease(s)
    BY <1>6
  <2> DEFINE b == <<m_pageId[s], m_nPageNum[s]>>
  <2>2. held' = held \ {s} /\ UNCHANGED <<m_pageId, m_nPageNum>>
    BY <2>1 DEF BeginRelease
  <2>3. \A u \in held : u # s => m_pageId[u] # m_pageId[s]
    <3> SUFFICES ASSUME NEW u \in held, u # s PROVE m_pageId[u] # m_pageId[s]
      OBVIOUS
    <3>1. u \in live /\ s \in live /\ u \in SpanIds /\ s \in SpanIds
      BY DEF IInv, Filing, TypeOK
    <3>2. Disjoint(u, s) /\ m_nPageNum[u] > 0 /\ m_nPageNum[s] > 0
      BY <3>1 DEF IInv, Tiling
    <3> QED
      BY <3>1, <3>2, PageCacheAssumption DEF Disjoint, IInv, TypeOK
  <2>4. b \in Out /\ Out' = Out \ {b}
    BY <2>2, <2>3 DEF Out
  <2> QED
    BY <2>4 DEF Promise!Next, Promise!Release, Out
<1>7. CASE MergeNext
  <2>1. /\ held' = held /\ m_pageId' = m_pageId /\ rel \notin held
        /\ m_nPageNum' = [m_nPageNum EXCEPT ![rel] = @ + m_nPageNum[NextSpan(rel)]]
    BY <1>7 DEF MergeNext, IInv, Filing
  <2> QED
    BY <2>1, OutUnchanged DEF IInv, TypeOK
<1>8. CASE EndRelease
  BY <1>8, OutUnchanged DEF EndRelease
<1>9. CASE UNCHANGED vars
  BY <1>9, OutUnchanged DEF vars
<1> QED
  BY <1>1, <1>2, <1>3, <1>4, <1>5, <1>6, <1>7, <1>8, <1>9 DEF Next

(* The page cache implements PageAllocator: what callers hold are disjoint *)
(* blocks of the requested length, acquired and released one at a time.    *)
THEOREM Implements == Spec => ImplementsAllocator
<1>1. Init => Promise!Init
  BY DEF Init, Promise!Init
<1>2. IInv /\ IInv' /\ [Next]_vars => [Promise!Next]_Out
  BY StepRefines
<1> QED
  BY <1>1, <1>2, Invariance, PTL DEF Spec, ImplementsAllocator, Promise!Spec, Out

-----------------------------------------------------------------------------
(* The size classes, which say how many pages are asked for.  One lemma per*)
(* row of classes does the arithmetic, on numerals; the theorems only      *)
(* dispatch on the row.                                                    *)

(* The row of the multiples of 8: rounding stays in the row, above
   the size and by less than 8, and keeps its position among the 16 of the row. *)
LEMMA Row8 ==
    ASSUME NEW size \in Nat, 1 <= size, size <= 128
    PROVE  LET s == RoundUpTo(size, 8)
           IN  /\ s \in Nat /\ 1 <= s /\ s <= 128
               /\ size <= s /\ s < size + 8
               /\ RoundUpTo(s, 8) = s
               /\ IndexAt(s, 8) = IndexAt(size, 8)
               /\ IndexAt(size, 8) \in Int
               /\ 0 <= IndexAt(size, 8) /\ IndexAt(size, 8) < 16
BY DEF RoundUpTo, IndexAt

(* The row of the multiples of 16: rounding stays in the row, above
   the size and by less than 16, and keeps its position among the 56 of the row. *)
LEMMA Row16 ==
    ASSUME NEW size \in Nat, 128 < size, size <= 1024
    PROVE  LET s == RoundUpTo(size, 16)
           IN  /\ s \in Nat /\ 128 < s /\ s <= 1024
               /\ size <= s /\ s < size + 16
               /\ RoundUpTo(s, 16) = s
               /\ IndexAt(s - 128, 16) = IndexAt(size - 128, 16)
               /\ IndexAt(size - 128, 16) \in Int
               /\ 0 <= IndexAt(size - 128, 16) /\ IndexAt(size - 128, 16) < 56
BY DEF RoundUpTo, IndexAt

(* The row of the multiples of 128: rounding stays in the row, above
   the size and by less than 128, and keeps its position among the 56 of the row. *)
LEMMA Row128 ==
    ASSUME NEW size \in Nat, 1024 < size, size <= 8192
    PROVE  LET s == RoundUpTo(size, 128)
           IN  /\ s \in Nat /\ 1024 < s /\ s <= 8192
               /\ size <= s /\ s < size + 128
               /\ RoundUpTo(s, 128) = s
               /\ IndexAt(s - 1024, 128) = IndexAt(size - 1024, 128)
               /\ IndexAt(size - 1024, 128) \in Int
               /\ 0 <= IndexAt(size - 1024, 128) /\ IndexAt(size - 1024, 128) < 56
BY DEF RoundUpTo, IndexAt

(* The row of the multiples of 1 KB: rounding stays in the row, above
   the size and by less than 1024, and keeps its position among the 56 of the row. *)
LEMMA RowKB ==
    ASSUME NEW size \in Nat, 8192 < size, size <= 65536
    PROVE  LET s == RoundUpTo(size, 1024)
           IN  /\ s \in Nat /\ 8192 < s /\ s <= 65536
               /\ size <= s /\ s < size + 1024
               /\ RoundUpTo(s, 1024) = s
               /\ IndexAt(s - 8192, 1024) = IndexAt(size - 8192, 1024)
               /\ IndexAt(size - 8192, 1024) \in Int
               /\ 0 <= IndexAt(size - 8192, 1024) /\ IndexAt(size - 8192, 1024) < 56
BY DEF RoundUpTo, IndexAt

(* The row of the multiples of 8 KB: rounding stays in the row, above
   the size and by less than 8192, and keeps its position among the 24 of the row. *)
LEMMA Row8KB ==
    ASSUME NEW size \in Nat, 65536 < size, size <= 262144
    PROVE  LET s == RoundUpTo(size, 8192)
           IN  /\ s \in Nat /\ 65536 < s /\ s <= 262144
               /\ size <= s /\ s < size + 8192
               /\ RoundUpTo(s, 8192) = s
               /\ IndexAt(s - 65536, 8192) = IndexAt(size - 65536, 8192)
               /\ IndexAt(size - 65536, 8192) \in Int
               /\ 0 <= IndexAt(size - 65536, 8192) /\ IndexAt(size - 65536, 8192) < 24
BY DEF RoundUpTo, IndexAt

LEMMA Band8 ==
    ASSUME NEW size \in Nat, size <= 128
    PROVE  /\ RoundUp(size) = RoundUpTo(size, 8)
           /\ Index(size) = IndexAt(size, 8)
BY DEF RoundUp, Index, KB, KB8, KB64

LEMMA Band16 ==
    ASSUME NEW size \in Nat, 128 < size, size <= KB
    PROVE  /\ RoundUp(size) = RoundUpTo(size, 16)
           /\ Index(size) = IndexAt(size - 128, 16) + 16
BY DEF RoundUp, Index, KB, KB8, KB64

LEMMA Band128 ==
    ASSUME NEW size \in Nat, KB < size, size <= KB8
    PROVE  /\ RoundUp(size) = RoundUpTo(size, 128)
           /\ Index(size) = IndexAt(size - KB, 128) + 72
BY DEF RoundUp, Index, KB, KB8, KB64

LEMMA BandKB ==
    ASSUME NEW size \in Nat, KB8 < size, size <= KB64
    PROVE  /\ RoundUp(size) = RoundUpTo(size, KB)
           /\ Index(size) = IndexAt(size - KB8, KB) + 128
BY DEF RoundUp, Index, KB, KB8, KB64

LEMMA Band8KB ==
    ASSUME NEW size \in Nat, KB64 < size
    PROVE  /\ RoundUp(size) = RoundUpTo(size, KB8)
           /\ Index(size) = IndexAt(size - KB64, KB8) + 184
BY DEF RoundUp, Index, KB, KB8, KB64

(* An object returns to the list it came from: the rounded size has the    *)
(* index of the size that was asked for, whatever was asked for; and that  *)
(* list exists.                                                            *)
LEMMA RowOfSize ==
    ASSUME NEW size \in Nat, 1 <= size, size <= MAX_BYTES
    PROVE  /\ ReturnsToItsList(size)
           /\ ListsSuffice(size)
           /\ SmallStaysSmall(size)
           /\ RoundUp(size) \in Nat /\ size <= RoundUp(size)
           /\ RoundUp(RoundUp(size)) = RoundUp(size)
<1>1. CASE size <= 128
  <2> DEFINE s == RoundUpTo(size, 8)
  <2>1. /\ s \in Nat /\ 1 <= s /\ s <= 128 /\ size <= s
        /\ RoundUpTo(s, 8) = s
        /\ IndexAt(s, 8) = IndexAt(size, 8)
        /\ IndexAt(size, 8) \in Int
        /\ 0 <= IndexAt(size, 8) /\ IndexAt(size, 8) < 16
    BY <1>1, Row8 DEF KB, KB8, KB64, MAX_BYTES
  <2>2. RoundUp(size) = s /\ Index(size) = IndexAt(size, 8)
    BY <1>1, Band8
  <2> HIDE DEF s
  <2>3. RoundUp(s) = s /\ Index(s) = IndexAt(s, 8)
    BY <2>1, Band8
  <2> QED
    BY <2>1, <2>2, <2>3 DEF ReturnsToItsList, ListsSuffice, SmallStaysSmall, FREELISTS_NUM, KB, KB8, KB64, MAX_BYTES
<1>2. CASE 128 < size /\ size <= KB
  <2> DEFINE s == RoundUpTo(size, 16)
  <2>1. /\ s \in Nat /\ 128 < s /\ s <= KB /\ size <= s
        /\ RoundUpTo(s, 16) = s
        /\ IndexAt(s - 128, 16) = IndexAt(size - 128, 16)
        /\ IndexAt(size - 128, 16) \in Int
        /\ 0 <= IndexAt(size - 128, 16) /\ IndexAt(size - 128, 16) < 56
    BY <1>2, Row16 DEF KB, KB8, KB64, MAX_BYTES
  <2>2. RoundUp(size) = s /\ Index(size) = IndexAt(size - 128, 16) + 16
    BY <1>2, Band16
  <2> HIDE DEF s
  <2>3. RoundUp(s) = s /\ Index(s) = IndexAt(s - 128, 16) + 16
    BY <2>1, Band16
  <2> QED
    BY <2>1, <2>2, <2>3 DEF ReturnsToItsList, ListsSuffice, SmallStaysSmall, FREELISTS_NUM, KB, KB8, KB64, MAX_BYTES
<1>3. CASE KB < size /\ size <= KB8
  <2> DEFINE s == RoundUpTo(size, 128)
  <2>1. /\ s \in Nat /\ KB < s /\ s <= KB8 /\ size <= s
        /\ RoundUpTo(s, 128) = s
        /\ IndexAt(s - KB, 128) = IndexAt(size - KB, 128)
        /\ IndexAt(size - KB, 128) \in Int
        /\ 0 <= IndexAt(size - KB, 128) /\ IndexAt(size - KB, 128) < 56
    BY <1>3, Row128 DEF KB, KB8, KB64, MAX_BYTES
  <2>2. RoundUp(size) = s /\ Index(size) = IndexAt(size - KB, 128) + 72
    BY <1>3, Band128
  <2> HIDE DEF s
  <2>3. RoundUp(s) = s /\ Index(s) = IndexAt(s - KB, 128) + 72
    BY <2>1, Band128
  <2> QED
    BY <2>1, <2>2, <2>3 DEF ReturnsToItsList, ListsSuffice, SmallStaysSmall, FREELISTS_NUM, KB, KB8, KB64, MAX_BYTES
<1>4. CASE KB8 < size /\ size <= KB64
  <2> DEFINE s == RoundUpTo(size, KB)
  <2>1. /\ s \in Nat /\ KB8 < s /\ s <= KB64 /\ size <= s
        /\ RoundUpTo(s, KB) = s
        /\ IndexAt(s - KB8, KB) = IndexAt(size - KB8, KB)
        /\ IndexAt(size - KB8, KB) \in Int
        /\ 0 <= IndexAt(size - KB8, KB) /\ IndexAt(size - KB8, KB) < 56
    BY <1>4, RowKB DEF KB, KB8, KB64, MAX_BYTES
  <2>2. RoundUp(size) = s /\ Index(size) = IndexAt(size - KB8, KB) + 128
    BY <1>4, BandKB
  <2> HIDE DEF s
  <2>3. RoundUp(s) = s /\ Index(s) = IndexAt(s - KB8, KB) + 128
    BY <2>1, BandKB
  <2> QED
    BY <2>1, <2>2, <2>3 DEF ReturnsToItsList, ListsSuffice, SmallStaysSmall, FREELISTS_NUM, KB, KB8, KB64, MAX_BYTES
<1>5. CASE KB64 < size
  <2> DEFINE s == RoundUpTo(size, KB8)
  <2>1. /\ s \in Nat /\ KB64 < s /\ s <= MAX_BYTES /\ size <= s
        /\ RoundUpTo(s, KB8) = s
        /\ IndexAt(s - KB64, KB8) = IndexAt(size - KB64, KB8)
        /\ IndexAt(size - KB64, KB8) \in Int
        /\ 0 <= IndexAt(size - KB64, KB8) /\ IndexAt(size - KB64, KB8) < 24
    BY <1>5, Row8KB DEF KB, KB8, KB64, MAX_BYTES
  <2>2. RoundUp(size) = s /\ Index(size) = IndexAt(size - KB64, KB8) + 184
    BY <1>5, Band8KB
  <2> HIDE DEF s
  <2>3. RoundUp(s) = s /\ Index(s) = IndexAt(s - KB64, KB8) + 184
    BY <2>1, Band8KB
  <2> QED
    BY <2>1, <2>2, <2>3 DEF ReturnsToItsList, ListsSuffice, SmallStaysSmall, FREELISTS_NUM, KB, KB8, KB64, MAX_BYTES
<1> QED
  BY <1>1, <1>2, <1>3, <1>4, <1>5 DEF KB, KB8, KB64, MAX_BYTES

(* An object returns to the list it came from, whatever was asked for.     *)
THEOREM ReturnsToItsListAlways ==
    \A size \in Nat : 1 <= size /\ size <= MAX_BYTES => ReturnsToItsList(size)
BY RowOfSize

(* The 208 lists of a thread cache and of the central cache are never      *)
(* indexed out of range by a small size.                                   *)
THEOREM ListsSufficeAlways ==
    \A size \in Nat : 1 <= size /\ size <= MAX_BYTES => ListsSuffice(size)
BY RowOfSize

(* The objects moved at once take up no more than two of the largest size. *)
LEMMA MovedAtOnce ==
    ASSUME NEW s \in Nat, 1 <= s, s <= MAX_BYTES
    PROVE  /\ NumMoveSize(s) \in 2 .. 512
           /\ NumMoveSize(s) * s <= 2 * MAX_BYTES
           /\ NumMoveSize(s) * s >= 2 * s
<1> DEFINE num == MAX_BYTES \div s
<1>1. num \in Nat /\ num * s <= MAX_BYTES
  BY DEF MAX_BYTES
<1>2. NumMoveSize(s) = IF num < 2 THEN 2 ELSE IF num <= 512 THEN num ELSE 512
  BY <1>1 DEF NumMoveSize
<1> HIDE DEF num
<1>3. NumMoveSize(s) \in 2 .. 512
  BY <1>1, <1>2
<1>4. NumMoveSize(s) >= 2 /\ NumMoveSize(s) \in Nat => NumMoveSize(s) * s >= 2 * s
  OBVIOUS
<1>5. CASE num < 2
  BY <1>2, <1>3, <1>5 DEF MAX_BYTES
<1>6. CASE 2 <= num /\ num <= 512
  BY <1>1, <1>2, <1>3, <1>4, <1>6 DEF MAX_BYTES
<1>7. CASE 512 < num
  <2>1. 512 * s <= num * s
    BY <1>1, <1>7
  <2> QED
    BY <1>1, <1>2, <1>3, <1>4, <1>7, <2>1 DEF MAX_BYTES
<1> QED
  BY <1>1, <1>5, <1>6, <1>7

(* A span cut for a class holds an object of it and is short enough to be  *)
(* filed and merged by the page cache, whatever size was asked for.        *)
THEOREM SpanFitsClassAlways ==
    \A size \in Nat : 1 <= size /\ size <= MAX_BYTES => SpanFitsClass(size)
<1> SUFFICES ASSUME NEW size \in Nat, 1 <= size, size <= MAX_BYTES
             PROVE  SpanFitsClass(size)
  OBVIOUS
<1> DEFINE s == RoundUp(size)
<1>1. s \in Nat /\ 1 <= s /\ s <= MAX_BYTES
  BY RowOfSize DEF SmallStaysSmall
<1> HIDE DEF s
<1> DEFINE bytes == NumMoveSize(s) * s
           pages == bytes \div PAGE_SIZE
<1>2. /\ NumMoveSize(s) \in 2 .. 512
      /\ bytes \in Nat /\ 2 * s <= bytes /\ bytes <= 2 * MAX_BYTES
  BY <1>1, MovedAtOnce
<1>3. NumMovePage(s) = IF pages < 1 THEN 1 ELSE pages
  BY DEF NumMovePage
<1> HIDE DEF bytes
<1>4. pages \in Nat /\ pages * PAGE_SIZE <= bytes /\ bytes < (pages + 1) * PAGE_SIZE /\ pages <= 64
  BY <1>2 DEF PAGE_SIZE, MAX_BYTES
<1> HIDE DEF pages
<1>5. NumMovePage(s) \in 1 .. KPAGE - 1
  BY <1>3, <1>4 DEF KPAGE
<1>6. s <= NumMovePage(s) * PAGE_SIZE
  <2>1. CASE pages < 1
    BY <1>1, <1>2, <1>3, <1>4, <2>1 DEF PAGE_SIZE
  <2>2. CASE pages >= 1
    BY <1>1, <1>2, <1>3, <1>4, <2>2 DEF PAGE_SIZE
  <2> QED
    BY <1>4, <2>1, <2>2
<1> QED
  BY <1>2, <1>5, <1>6 DEF SpanFitsClass, s

(* Of every size up to MAX_BYTES, wherever a sweep over the sizes begins:  *)
(* an object returns to the list it came from, there is such a list, and a *)
(* span of its class holds an object and can be filed and merged.          *)
THEOREM SizesAlwaysFit == SizesPositive => (SizesSpec => []SizesFit)
<1> SUFFICES ASSUME SizesPositive
             PROVE  SizesSpec => []SizesFit
  OBVIOUS
<1> DEFINE Positive == request \in Nat /\ request >= 1
<1>1. SizesInit => Positive
  BY DEF SizesInit, SizesPositive
<1>2. Positive /\ [NextSize]_request => Positive'
  BY DEF NextSize
<1>3. Positive => SizesFit
  <2> SUFFICES ASSUME Positive, NEW s \in request .. request + 7, s <= MAX_BYTES
               PROVE  ReturnsToItsList(s) /\ ListsSuffice(s) /\ SpanFitsClass(s)
    BY DEF SizesFit
  <2>1. s \in Nat /\ 1 <= s
    OBVIOUS
  <2> QED
    BY <2>1, ReturnsToItsListAlways, ListsSufficeAlways, SpanFitsClassAlways
<1> QED
  BY <1>1, <1>2, <1>3, PTL DEF SizesSpec
=============================================================================
