----------------------------- MODULE PartsProof -----------------------------
(***************************************************************************)
(* The parts whose calls never wait.  The balancers choose by what clients *)
(* hold and give each server its share; who reads the shared-memory ring   *)
(* gets what was written; the free lists of threads that have a cache each *)
(* stay intact.  The stack without locks is a stack, as long as one thread *)
(* at most pops.  The skip list keeps its levels nested and is a           *)
(* dictionary, whatever heights its nodes draw; the memory table built on  *)
(* it never counts less than it holds; and no two objects of an object pool*)
(* overlap.  The red-black tree has a module of its own, TreeProof.        *)
(***************************************************************************)
EXTENDS LoadBalancer, MapFile, FreeListRace, LockFreeStack, Structures,
        Sequences, FunctionTheorems, TreeProof

-----------------------------------------------------------------------------
(* Load balancers: any servers, clients and numbers of calls.              *)

Node == [address : Addresses,
         weight : {s.weight : s \in Shapes},
         connections : Int,
         processingPower : {s.processingPower : s \in Shapes},
         responseTime : Times \cup {0}]

NodesTyped ==
    /\ servers \in Seq(Node) /\ held \in Seq(Int)
    /\ Len(held) = Len(servers)

HeldCounts == \A i \in Indices : held[i] >= 0

(* A report that nothing overtook repeats what its server still counts.    *)
Fresh(r) ==
    LET i == report[r].node IN
    i # 0 /\ ~ report[r].late /\ servers[i].address \notin off =>
        report[r].connections = servers[i].connections

ReportsTyped ==
    /\ report \in [Reporters -> [node : Nat, connections : Int, late : BOOLEAN]]
    /\ \A r \in Reporters : report[r].node # 0 => report[r].node \in Indices

(* Nothing to count, nothing to report.                                    *)
NothingCounted ==
    kind \notin Counting => /\ \A i \in Indices : servers[i].connections = 0
                            /\ \A r \in Reporters : report[r].connections = 0

(* The inductive invariant: the counts are those of the property, and what *)
(* is under way to overwrite one is that count, late, or written off.      *)
IInv ==
    /\ NodesTyped /\ HeldCounts /\ ReportsTyped /\ NothingCounted
    /\ \A r \in Reporters : Fresh(r)
    /\ ConnectionsCounted

LEMMA InitIInv == Init => IInv
  <1> SUFFICES ASSUME Init PROVE IInv
    OBVIOUS
  <1>1. /\ servers = <<>> /\ held = <<>> /\ Indices = {} /\ off = {}
        /\ report = [r \in Reporters |-> NotRead]
    BY DEF Init, Indices
  <1>2. NodesTyped /\ HeldCounts
    BY <1>1 DEF NodesTyped, HeldCounts
  <1>3. \A r \in Reporters : report[r] = NotRead
    BY <1>1
  <1>4. ReportsTyped /\ NothingCounted /\ \A r \in Reporters : Fresh(r)
    BY <1>1, <1>3 DEF ReportsTyped, NothingCounted, Fresh, NotRead
  <1>5. ASSUME NEW a PROVE CountedAt(a)
    <2>1. [i \in Of(a) |-> servers[i].connections] = [i \in Of(a) |-> held[i]]
      BY <1>1 DEF Of
    <2> QED
      BY <2>1 DEF CountedAt
  <1> QED
    BY <1>2, <1>4, <1>5 DEF IInv, ConnectionsCounted

LEMMA Untouched ==
    ASSUME IInv, UNCHANGED <<kind, servers, held, report, off>>
    PROVE  IInv'
  BY DEF IInv, NodesTyped, HeldCounts, ReportsTyped, NothingCounted, Fresh, ConnectionsCounted,
         CountedAt, Of, Indices

(* What the types give.                                                    *)
LEMMA ServersTyped ==
    ASSUME NodesTyped
    PROVE  /\ Indices = 1 .. Len(servers) /\ Len(servers) \in Nat /\ IsFiniteSet(Indices)
           /\ Indices \subseteq Nat
           /\ \A i \in Indices : /\ servers[i] \in Node /\ held[i] \in Int
                                 /\ servers[i].connections \in Int
                                 /\ servers[i].address \in Addresses
           /\ \A a : Of(a) \subseteq Indices /\ IsFiniteSet(Of(a))
  <1>1. Indices = 1 .. Len(servers) /\ Len(servers) \in Nat
    BY DEF Indices, NodesTyped
  <1>2. IsFiniteSet(Indices)
    BY <1>1, FS_Interval
  <1>3. \A i \in Indices : servers[i] \in Node /\ held[i] \in Int
    BY <1>1 DEF NodesTyped
  <1>4. ASSUME NEW a PROVE Of(a) \subseteq Indices /\ IsFiniteSet(Of(a))
    <2>1. Of(a) \subseteq Indices
      BY DEF Of
    <2> QED
      BY <1>2, <2>1, FS_Subset
  <1> QED
    BY <1>1, <1>2, <1>3, <1>4 DEF Node

(* The two sums of an address, as functions of integers.                   *)
ConnectionsAt(a) == [i \in Of(a) |-> servers[i].connections]
HeldAt(a) == [i \in Of(a) |-> held[i]]

LEMMA SumsTyped ==
    ASSUME NodesTyped, NEW a
    PROVE  /\ ConnectionsAt(a) \in [Of(a) -> Int] /\ HeldAt(a) \in [Of(a) -> Int]
           /\ \A i \in Of(a) : /\ ConnectionsAt(a)[i] = servers[i].connections
                               /\ HeldAt(a)[i] = held[i]
           /\ CountedAt(a) <=> Sum(ConnectionsAt(a)) = Sum(HeldAt(a))
  <1>1. \A i \in Of(a) : servers[i].connections \in Int /\ held[i] \in Int
    BY ServersTyped
  <1> QED
    BY <1>1 DEF ConnectionsAt, HeldAt, CountedAt

(* The servers stay, with their addresses.                                 *)
SameServers ==
    /\ kind' = kind /\ Indices' = Indices
    /\ \A i \in Indices : servers'[i].address = servers[i].address

LEMMA SameOf ==
    ASSUME SameServers, NEW a
    PROVE  Of(a)' = Of(a)
  BY DEF SameServers, Of

(* Where nothing moves, the sums stay.                                     *)
LEMMA SameSums ==
    ASSUME SameServers, NEW a, CountedAt(a),
           \A i \in Of(a) : servers'[i].connections = servers[i].connections /\ held'[i] = held[i]
    PROVE  CountedAt(a)'
  <1>1. Of(a)' = Of(a)
    BY SameOf
  <1>2. /\ [i \in Of(a)' |-> servers'[i].connections] = [i \in Of(a) |-> servers[i].connections]
        /\ [i \in Of(a)' |-> held'[i]] = [i \in Of(a) |-> held[i]]
    BY <1>1
  <1> QED
    BY <1>2 DEF CountedAt

(* One connection is counted more or less at i, and held more or less at j.*)
LEMMA MovedSums ==
    ASSUME NodesTyped, SameServers, NEW a, CountedAt(a),
           NEW i \in Of(a), NEW j \in Of(a), NEW d \in Int,
           servers'[i].connections = servers[i].connections + d,
           \A k \in Of(a) : k # i => servers'[k].connections = servers[k].connections,
           held'[j] = held[j] + d,
           \A k \in Of(a) : k # j => held'[k] = held[k]
    PROVE  CountedAt(a)'
  <1>1. Of(a)' = Of(a) /\ IsFiniteSet(Of(a))
    BY SameOf, ServersTyped
  <1>2. /\ ConnectionsAt(a) \in [Of(a) -> Int] /\ HeldAt(a) \in [Of(a) -> Int]
        /\ \A k \in Of(a) : /\ ConnectionsAt(a)[k] = servers[k].connections
                            /\ HeldAt(a)[k] = held[k]
        /\ Sum(ConnectionsAt(a)) = Sum(HeldAt(a))
    BY SumsTyped
  <1>3. /\ ConnectionsAt(a)' \in [Of(a) -> Int] /\ HeldAt(a)' \in [Of(a) -> Int]
        /\ \A k \in Of(a) : /\ ConnectionsAt(a)'[k] = servers'[k].connections
                            /\ HeldAt(a)'[k] = held'[k]
        /\ Sum(ConnectionsAt(a)') = Sum(HeldAt(a)') => CountedAt(a)'
    <2>1. \A k \in Of(a) : servers[k].connections \in Int /\ held[k] \in Int
      BY ServersTyped
    <2>2. \A k \in Of(a) : servers'[k].connections \in Int /\ held'[k] \in Int
      BY <2>1
    <2>3. /\ ConnectionsAt(a)' = [k \in Of(a) |-> servers'[k].connections]
          /\ HeldAt(a)' = [k \in Of(a) |-> held'[k]]
      BY <1>1 DEF ConnectionsAt, HeldAt
    <2>4. CountedAt(a)' <=> Sum([k \in Of(a) |-> servers'[k].connections])
                              = Sum([k \in Of(a) |-> held'[k]])
      BY <1>1 DEF CountedAt
    <2> QED
      BY <2>2, <2>3, <2>4
  <1>4. PICK S, c, h, e, g : /\ S = Of(a) /\ c = ConnectionsAt(a) /\ h = HeldAt(a)
                             /\ e = ConnectionsAt(a)' /\ g = HeldAt(a)'
    OBVIOUS
  <1>5. /\ IsFiniteSet(S) /\ i \in S /\ j \in S
        /\ c \in [S -> Int] /\ e \in [S -> Int] /\ h \in [S -> Int] /\ g \in [S -> Int]
    BY <1>1, <1>2, <1>3, <1>4
  <1>6. e[i] = c[i] + d /\ \A k \in S : k # i => e[k] = c[k]
    BY <1>1, <1>2, <1>3, <1>4
  <1>7. g[j] = h[j] + d /\ \A k \in S : k # j => g[k] = h[k]
    BY <1>1, <1>2, <1>3, <1>4
  <1>8. Sum(e) = Sum(c) + d
    BY <1>5, <1>6, SumChange
  <1>9. Sum(g) = Sum(h) + d
    BY <1>5, <1>7, SumChange
  <1> QED
    BY <1>2, <1>3, <1>4, <1>8, <1>9

(* A report that was under way stays fresh or is late now.                 *)
LEMMA StillFresh ==
    ASSUME NodesTyped, SameServers, ReportsTyped, NEW a, Overtakes(a), off' = off,
           \A i \in Indices : servers[i].address # a =>
               servers'[i].connections = servers[i].connections,
           \A r \in Reporters : Fresh(r)
    PROVE  ReportsTyped' /\ \A r \in Reporters : Fresh(r)'
  <1>1. \A r \in Reporters :
            /\ report'[r] = IF report[r].node # 0 /\ servers[report[r].node].address = a
                            THEN [report[r] EXCEPT !.late = TRUE] ELSE report[r]
            /\ report[r] \in [node : Nat, connections : Int, late : BOOLEAN]
            /\ report[r].node # 0 => report[r].node \in Indices
    BY DEF Overtakes, ReportsTyped
  <1>2. \A r \in Reporters :
            /\ report'[r] \in [node : Nat, connections : Int, late : BOOLEAN]
            /\ report'[r].node = report[r].node
            /\ report'[r].connections = report[r].connections
            /\ report[r].node # 0 /\ servers[report[r].node].address = a => report'[r].late
            /\ ~ (report[r].node # 0 /\ servers[report[r].node].address = a) =>
                   report'[r] = report[r]
    BY <1>1
  <1>3. report' \in [Reporters -> [node : Nat, connections : Int, late : BOOLEAN]]
    <2>1. report' = [r \in Reporters |-> report'[r]]
      BY DEF Overtakes
    <2> QED
      BY <1>2, <2>1
  <1>4. ReportsTyped'
    BY <1>1, <1>2, <1>3 DEF ReportsTyped, SameServers
  <1>5. ASSUME NEW r \in Reporters PROVE Fresh(r)'
    <2>1. SUFFICES ASSUME report'[r].node # 0, ~ report'[r].late,
                          servers'[report'[r].node].address \notin off'
                   PROVE  report'[r].connections = servers'[report'[r].node].connections
      BY DEF Fresh
    <2>2. PICK i : i = report[r].node
      OBVIOUS
    <2>3. i \in Indices /\ i # 0 /\ report'[r].node = i
      BY <1>1, <1>2, <2>1, <2>2
    <2>4. servers[i].address # a /\ report'[r] = report[r]
      BY <1>2, <2>1, <2>2, <2>3
    <2>5. servers[i].address \notin off /\ ~ report[r].late
      BY <2>1, <2>3, <2>4 DEF SameServers
    <2>6. report[r].connections = servers[i].connections
      BY <2>2, <2>3, <2>5 DEF Fresh
    <2> QED
      BY <2>3, <2>4, <2>6
  <1> QED
    BY <1>4, <1>5

LEMMA Added ==
    ASSUME IInv, NEW shape \in Shapes, addServer(shape)
    PROVE  IInv'
  <1>1. PICK new, n : new = Connected(shape) /\ n = Len(servers) + 1
    OBVIOUS
  <1>2. new \in Node /\ new.connections = 0
    BY <1>1 DEF Node, Connected, Addresses
  <1>3. /\ servers' = Append(servers, new) /\ held' = Append(held, 0)
        /\ UNCHANGED <<kind, report, off>>
    BY <1>1 DEF addServer
  <1>4. /\ servers \in Seq(Node) /\ held \in Seq(Int) /\ Len(held) = Len(servers)
        /\ NodesTyped
    BY DEF IInv, NodesTyped
  <1>5. NodesTyped'
    BY <1>2, <1>3, <1>4 DEF NodesTyped
  <1>6. /\ Indices = 1 .. Len(servers) /\ Indices' = Indices \cup {n} /\ n \notin Indices
        /\ \A i \in Indices : servers'[i] = servers[i] /\ held'[i] = held[i]
        /\ servers'[n] = new /\ held'[n] = 0
    BY <1>1, <1>3, <1>4 DEF Indices
  <1>7. HeldCounts'
    BY <1>6 DEF IInv, HeldCounts
  <1>8. ReportsTyped' /\ NothingCounted'
    BY <1>2, <1>3, <1>6 DEF IInv, ReportsTyped, NothingCounted
  <1>9. \A r \in Reporters : Fresh(r)'
    BY <1>3, <1>6 DEF IInv, ReportsTyped, Fresh
  <1>10. ASSUME NEW a, CountedAt(a) PROVE CountedAt(a)'
    <2>1. CASE new.address # a
      <3>1. Of(a)' = Of(a) /\ Of(a) \subseteq Indices
        BY <1>6, <2>1 DEF Of
      <3>2. /\ [i \in Of(a) |-> servers'[i].connections] = [i \in Of(a) |-> servers[i].connections]
            /\ [i \in Of(a) |-> held'[i]] = [i \in Of(a) |-> held[i]]
        BY <1>6, <3>1
      <3> QED
        BY <1>10, <3>1, <3>2 DEF CountedAt
    <2>2. CASE new.address = a
      <3>1. Of(a)' = Of(a) \cup {n} /\ Of(a) \subseteq Indices /\ n \notin Of(a)
        BY <1>6, <2>2 DEF Of
      <3>2. PICK S, c, h, e, g :
                /\ S = Of(a) /\ c = ConnectionsAt(a) /\ h = HeldAt(a)
                /\ e = [i \in Of(a) \cup {n} |-> servers'[i].connections]
                /\ g = [i \in Of(a) \cup {n} |-> held'[i]]
        OBVIOUS
      <3>3. /\ IsFiniteSet(S) /\ n \notin S /\ c \in [S -> Int] /\ h \in [S -> Int]
            /\ \A i \in S : c[i] = servers[i].connections /\ h[i] = held[i]
            /\ Sum(c) = Sum(h)
        BY <1>4, <1>10, <3>1, <3>2, ServersTyped, SumsTyped
      <3>4. /\ \A i \in S : servers'[i].connections = c[i] /\ held'[i] = h[i]
            /\ servers'[n].connections = 0 /\ held'[n] = 0
        BY <1>2, <1>6, <3>1, <3>2, <3>3
      <3>5. /\ e \in [S \cup {n} -> Int] /\ g \in [S \cup {n} -> Int]
            /\ \A i \in S : e[i] = c[i] /\ g[i] = h[i]
            /\ e[n] = 0 /\ g[n] = 0
        BY <3>2, <3>3, <3>4
      <3>6. Sum(e) = Sum(c) + e[n]
        <4>1. /\ IsFiniteSet(S) /\ n \notin S /\ c \in [S -> Int]
              /\ e \in [S \cup {n} -> Int]
          BY <3>3, <3>5
        <4>2. \A i \in S : e[i] = c[i]
          BY <3>5
        <4> QED
          BY <4>1, <4>2, SumExtended
      <3>7. Sum(g) = Sum(h) + g[n]
        <4>1. /\ IsFiniteSet(S) /\ n \notin S /\ h \in [S -> Int]
              /\ g \in [S \cup {n} -> Int]
          BY <3>3, <3>5
        <4>2. \A i \in S : g[i] = h[i]
          BY <3>5
        <4> QED
          BY <4>1, <4>2, SumExtended
      <3>8. Sum(e) = Sum(g)
        BY <3>3, <3>5, <3>6, <3>7
      <3>9. CountedAt(a)' <=> Sum([i \in Of(a)' |-> servers'[i].connections])
                                = Sum([i \in Of(a)' |-> held'[i]])
        BY DEF CountedAt
      <3> QED
        BY <3>1, <3>2, <3>8, <3>9
    <2> QED
      BY <2>1, <2>2
  <1>11. ConnectionsCounted'
    BY <1>3, <1>10 DEF IInv, ConnectionsCounted
  <1> QED
    BY <1>5, <1>7, <1>8, <1>9, <1>11 DEF IInv

(* The CHOOSE in Min finds one.                                            *)
LEMMA MinIn ==
    ASSUME NEW S, S \subseteq Nat, S # {}
    PROVE  Min(S) \in S
  <1>1. PICK x \in S : \A y \in S : x <= y
    BY LeastIn
  <1> QED
    BY <1>1 DEF Min

(* One server gets another node of its address.                            *)
LEMMA Replaced ==
    ASSUME NodesTyped, kind' = kind, NEW i \in Indices, NEW host \in Node,
           servers' = [servers EXCEPT ![i] = host], host.address = servers[i].address
    PROVE  /\ servers' \in Seq(Node) /\ Len(servers') = Len(servers) /\ SameServers
           /\ \A j \in Indices : servers'[j] = IF j = i THEN host ELSE servers[j]
  <1>1. servers \in Seq(Node) /\ Indices = 1 .. Len(servers)
    BY DEF NodesTyped, Indices
  <1>2. servers' \in Seq(Node) /\ Len(servers') = Len(servers)
    BY <1>1
  <1>3. Indices' = Indices
    BY <1>1, <1>2 DEF Indices
  <1>4. \A j \in Indices : servers'[j] = IF j = i THEN host ELSE servers[j]
    BY <1>1
  <1> QED
    BY <1>2, <1>3, <1>4 DEF SameServers

(* What a client got or gave back of server i.                             *)
LEMMA HeldChanged ==
    ASSUME NodesTyped, HeldCounts, NEW i \in Indices, NEW n \in Int, n >= 0,
           held' = [held EXCEPT ![i] = n],
           servers' \in Seq(Node), Len(servers') = Len(servers), Indices' = Indices
    PROVE  /\ NodesTyped' /\ HeldCounts'
           /\ held'[i] = n
           /\ \A j \in Indices : j # i => held'[j] = held[j]
  <1>1. held \in Seq(Int) /\ Indices = 1 .. Len(held)
    BY DEF NodesTyped, Indices
  <1>2. held' \in Seq(Int) /\ Len(held') = Len(held)
    BY <1>1
  <1>3. held'[i] = n /\ \A j \in Indices : j # i => held'[j] = held[j]
    BY <1>1
  <1>4. NodesTyped'
    BY <1>2 DEF NodesTyped
  <1>5. HeldCounts'
    BY <1>3 DEF HeldCounts
  <1> QED
    BY <1>3, <1>4, <1>5

LEMMA Selected ==
    ASSUME IInv, selectServer
    PROVE  IInv'
  <1>1. CASE selectRoundRobin
    BY <1>1, Untouched DEF selectRoundRobin, Hand, Uncounted, Counting, Loads
  <1>2. CASE selectWeightedRoundRobin
    BY <1>2, Untouched DEF selectWeightedRoundRobin, Hand, Uncounted, Counting, Loads
  <1>3. CASE selectRandom
    BY <1>3, Untouched DEF selectRandom, Hand, Uncounted, Counting, Loads
  <1>4. ASSUME kind \in Counting, selectLeast PROVE IInv'
    <2>1. PICK i \in Indices :
              /\ servers' = [servers EXCEPT ![i].connections = @ + 1]
              /\ Hand(i) /\ Overtakes(servers[i].address)
      BY <1>4 DEF selectLeast
    <2>2. NodesTyped /\ HeldCounts /\ ReportsTyped /\ \A r \in Reporters : Fresh(r)
      BY DEF IInv
    <2>3. servers[i] \in Node /\ held[i] \in Int /\ held[i] >= 0
      BY <2>2, ServersTyped DEF HeldCounts
    <2>4. PICK host : host = [servers[i] EXCEPT !.connections = @ + 1]
      OBVIOUS
    <2>5. /\ host \in Node
          /\ host.address = servers[i].address
          /\ host.connections = servers[i].connections + 1
      BY <2>3, <2>4 DEF Node
    <2>6. servers' = [servers EXCEPT ![i] = host]
      BY <2>1, <2>4
    <2>7. held' = [held EXCEPT ![i] = held[i] + 1] /\ UNCHANGED <<kind, off>>
      BY <1>4, <2>1 DEF Hand
    <2>8. /\ servers' \in Seq(Node) /\ Len(servers') = Len(servers) /\ SameServers
          /\ \A j \in Indices : servers'[j] = IF j = i THEN host ELSE servers[j]
      BY <2>2, <2>5, <2>6, <2>7, Replaced
    <2>9. held[i] + 1 \in Int /\ held[i] + 1 >= 0 /\ Indices' = Indices
      BY <2>3, <2>8 DEF SameServers
    <2>10. /\ NodesTyped' /\ HeldCounts' /\ held'[i] = held[i] + 1
           /\ \A j \in Indices : j # i => held'[j] = held[j]
      BY <2>2, <2>7, <2>8, <2>9, HeldChanged
    <2>11. ReportsTyped' /\ \A r \in Reporters : Fresh(r)'
      <3>1. \A j \in Indices : servers[j].address # servers[i].address =>
                servers'[j].connections = servers[j].connections
        BY <2>8
      <3> QED
        BY <2>1, <2>2, <2>7, <2>8, <3>1, StillFresh
    <2>12. ASSUME NEW a, CountedAt(a) PROVE CountedAt(a)'
      <3>1. Of(a) \subseteq Indices
        BY DEF Of
      <3>2. CASE i \in Of(a)
        <4>1. /\ servers'[i].connections = servers[i].connections + 1
              /\ \A k \in Of(a) : k # i => servers'[k].connections = servers[k].connections
              /\ \A k \in Of(a) : k # i => held'[k] = held[k]
          BY <2>5, <2>8, <2>10, <3>1
        <4>2. 1 \in Int
          OBVIOUS
        <4> QED
          BY <2>2, <2>8, <2>10, <2>12, <3>2, <4>1, <4>2, MovedSums
      <3>3. CASE i \notin Of(a)
        <4>1. \A k \in Of(a) : servers'[k].connections = servers[k].connections
                                 /\ held'[k] = held[k]
          BY <2>8, <2>10, <3>1, <3>3
        <4> QED
          BY <2>8, <2>12, <4>1, SameSums
      <3> QED
        BY <3>2, <3>3
    <2>13. ConnectionsCounted'
      BY <2>7, <2>12 DEF IInv, ConnectionsCounted
    <2>14. NothingCounted'
      BY <1>4, <2>7 DEF NothingCounted
    <2> QED
      BY <2>10, <2>11, <2>13, <2>14 DEF IInv
  <1>5. ASSUME NEW d \in Destinations, selectHash(d) PROVE IInv'
    BY <1>5, Untouched DEF selectHash, Hand, Uncounted, Counting, Loads
  <1>6. ASSUME NEW d \in Destinations, selectLBLCR(d) PROVE IInv'
    <2>1. CASE selectRegistered(d)
      BY <2>1, Untouched DEF selectRegistered
    <2>2. CASE selectLeast
      BY <1>6, <2>2, <1>4 DEF selectLBLCR, Counting
    <2> QED
      BY <1>6, <2>1, <2>2 DEF selectLBLCR
  <1> QED
    BY <1>1, <1>2, <1>3, <1>4, <1>5, <1>6 DEF selectServer, Counting

(* What is held of an address that is counted is counted somewhere.        *)
LEMMA SomeUsed ==
    ASSUME NodesTyped, HeldCounts, NEW i \in Indices, held[i] > 0,
           CountedAt(servers[i].address)
    PROVE  Used(i) # {}
  <1>1. SUFFICES ASSUME Used(i) = {} PROVE FALSE
    OBVIOUS
  <1>2. PICK a : a = servers[i].address
    OBVIOUS
  <1>3. PICK S, c, h, z : /\ S = Of(a) /\ c = ConnectionsAt(a) /\ h = HeldAt(a)
                          /\ z = [k \in Of(a) |-> 0]
    OBVIOUS
  <1>4. /\ IsFiniteSet(S) /\ c \in [S -> Int] /\ h \in [S -> Int] /\ z \in [S -> Int]
        /\ \A k \in S : c[k] = servers[k].connections /\ h[k] = held[k] /\ z[k] = 0
        /\ Sum(c) = Sum(h) /\ S \subseteq Indices /\ i \in S
    <2>1. IsFiniteSet(S) /\ S \subseteq Indices
      BY <1>3, ServersTyped
    <2>2. /\ c \in [S -> Int] /\ h \in [S -> Int]
          /\ \A k \in S : c[k] = servers[k].connections /\ h[k] = held[k]
      BY <1>3, SumsTyped
    <2>3. Sum(c) = Sum(h)
      BY <1>2, <1>3, SumsTyped
    <2>4. z \in [S -> Int] /\ \A k \in S : z[k] = 0
      BY <1>3
    <2>5. i \in S
      BY <1>2, <1>3 DEF Of
    <2> QED
      BY <2>1, <2>2, <2>3, <2>4, <2>5
  <1>5. Sum(z) = 0
    BY <1>4, SumZero
  <1>6. \A k \in S : c[k] <= z[k]
    BY <1>1, <1>2, <1>3, <1>4 DEF Used
  <1>7. Sum(c) <= Sum(z)
    BY <1>4, <1>6, SumBelow
  <1>8. \A k \in S : z[k] <= h[k]
    BY <1>4 DEF HeldCounts
  <1>9. Sum(z) <= Sum(h) /\ (Sum(z) = Sum(h) => \A k \in S : z[k] = h[k])
    BY <1>4, <1>8, SumBelow
  <1>10. Sum(c) \in Int /\ Sum(h) \in Int
    BY <1>4, SumInt
  <1>11. Sum(z) = Sum(h)
    BY <1>4, <1>5, <1>7, <1>9, <1>10
  <1>12. h[i] = 0
    BY <1>4, <1>9, <1>11
  <1> QED
    BY <1>4, <1>12

(* A release lowers the count of some server of the address that the client*)
(* held, if not of the server it selected.                                 *)
LEMMA Released ==
    ASSUME IInv, NEW i \in Indices, releaseConnection(i)
    PROVE  IInv'
  <1>1. /\ NodesTyped /\ HeldCounts /\ ReportsTyped /\ NothingCounted /\ ConnectionsCounted
        /\ \A r \in Reporters : Fresh(r)
    BY DEF IInv
  <1>2. /\ Indices \subseteq Nat
        /\ \A j \in Indices : /\ servers[j] \in Node /\ held[j] \in Int /\ held[j] >= 0
                              /\ servers[j].connections \in Int
    BY <1>1, ServersTyped DEF HeldCounts
  <1>3. PICK n : n = IF kind \in Counting THEN held[i] - 1 ELSE held[i]
    OBVIOUS
  <1>4. /\ held' = [held EXCEPT ![i] = n] /\ UNCHANGED <<kind, off>>
        /\ kind \in Counting => held[i] > 0
    BY <1>3 DEF releaseConnection
  <1>5. n \in Int /\ n >= 0
    BY <1>2, <1>3, <1>4
  <1>6. CASE Used(i) = {}
    <2>1. UNCHANGED <<servers, report>>
      BY <1>6 DEF releaseConnection, Uncounted
    <2>2. servers' \in Seq(Node) /\ Len(servers') = Len(servers) /\ Indices' = Indices
      BY <1>1, <2>1 DEF NodesTyped, Indices
    <2>3. /\ NodesTyped' /\ HeldCounts'
          /\ \A j \in Indices : j # i => held'[j] = held[j]
      BY <1>1, <1>4, <1>5, <2>2, HeldChanged
    <2>4. SameServers
      BY <1>4, <2>1, <2>2 DEF SameServers
    <2>5. ReportsTyped' /\ NothingCounted' /\ \A r \in Reporters : Fresh(r)'
      BY <1>1, <1>4, <2>1, <2>2 DEF ReportsTyped, NothingCounted, Fresh
    <2>6. ASSUME kind \in Loads, NEW a \in Addresses \ off PROVE CountedAt(a)'
      <3>1. CountedAt(a)
        BY <1>1, <2>6 DEF ConnectionsCounted
      <3>2. servers[i].address # a
        <4>1. SUFFICES ASSUME servers[i].address = a PROVE FALSE
          OBVIOUS
        <4>2. held[i] > 0 /\ CountedAt(servers[i].address)
          BY <1>4, <2>6, <3>1, <4>1 DEF Counting
        <4> QED
          BY <1>1, <1>6, <4>2, SomeUsed
      <3>3. \A k \in Of(a) : servers'[k].connections = servers[k].connections /\ held'[k] = held[k]
        BY <2>1, <2>3, <3>2 DEF Of
      <3> QED
        BY <2>4, <3>1, <3>3, SameSums
    <2>7. ConnectionsCounted'
      BY <1>4, <2>6 DEF ConnectionsCounted
    <2> QED
      BY <2>3, <2>5, <2>7 DEF IInv
  <1>7. CASE Used(i) # {}
    <2>1. PICK j : j = Min(Used(i))
      OBVIOUS
    <2>2. Used(i) \subseteq Indices
      BY DEF Used, Of
    <2>3. j \in Used(i)
      <3>1. Used(i) \subseteq Nat
        BY <1>2, <2>2
      <3> QED
        BY <1>7, <2>1, <3>1, MinIn
    <2>4. /\ j \in Indices /\ servers[j] \in Node /\ servers[j].connections > 0
          /\ servers[j].address = servers[i].address
      BY <1>2, <2>2, <2>3 DEF Used, Of
    <2>5. PICK host : host = [servers[j] EXCEPT !.connections = @ - 1]
      OBVIOUS
    <2>6. servers' = [servers EXCEPT ![j] = host] /\ Overtakes(servers[i].address)
      BY <1>7, <2>1, <2>5 DEF releaseConnection
    <2>7. /\ host \in Node
          /\ host.address = servers[j].address
          /\ host.connections = servers[j].connections - 1
      BY <2>4, <2>5 DEF Node
    <2>8. /\ servers' \in Seq(Node) /\ Len(servers') = Len(servers) /\ SameServers
          /\ \A k \in Indices : servers'[k] = IF k = j THEN host ELSE servers[k]
      BY <1>1, <1>4, <2>4, <2>6, <2>7, Replaced
    <2>9. /\ NodesTyped' /\ HeldCounts' /\ held'[i] = n
          /\ \A k \in Indices : k # i => held'[k] = held[k]
      BY <1>1, <1>4, <1>5, <2>8, HeldChanged DEF SameServers
    <2>10. ReportsTyped' /\ \A r \in Reporters : Fresh(r)'
      <3>1. \A k \in Indices : servers[k].address # servers[i].address =>
                servers'[k].connections = servers[k].connections
        BY <2>4, <2>8
      <3> QED
        BY <1>1, <1>4, <2>6, <2>8, <3>1, StillFresh
    <2>11. kind \in Counting
      BY <1>1, <2>4 DEF NothingCounted
    <2>12. NothingCounted'
      BY <1>4, <2>11 DEF NothingCounted
    <2>13. ASSUME NEW a, CountedAt(a) PROVE CountedAt(a)'
      <3>1. Of(a) \subseteq Indices /\ (i \in Of(a) <=> j \in Of(a))
        BY <2>4 DEF Of
      <3>2. CASE i \in Of(a)
        <4>1. PICK d : d = -1
          OBVIOUS
        <4>2. /\ d \in Int /\ i \in Of(a) /\ j \in Of(a)
              /\ servers'[j].connections = servers[j].connections + d
              /\ \A k \in Of(a) : k # j => servers'[k].connections = servers[k].connections
              /\ held'[i] = held[i] + d
              /\ \A k \in Of(a) : k # i => held'[k] = held[k]
          BY <1>2, <1>3, <2>4, <2>7, <2>8, <2>9, <2>11, <3>1, <3>2, <4>1
        <4> QED
          BY <1>1, <2>8, <2>13, <4>2, MovedSums
      <3>3. CASE i \notin Of(a)
        <4>1. \A k \in Of(a) : servers'[k].connections = servers[k].connections
                                 /\ held'[k] = held[k]
          BY <2>8, <2>9, <3>1, <3>3
        <4> QED
          BY <2>8, <2>13, <4>1, SameSums
      <3> QED
        BY <3>2, <3>3
    <2>14. ConnectionsCounted'
      BY <1>1, <1>4, <2>13 DEF ConnectionsCounted
    <2> QED
      BY <2>9, <2>10, <2>12, <2>14 DEF IInv
  <1> QED
    BY <1>6, <1>7

(* Reading changes nothing that is counted.                                *)
LEMMA Noted ==
    ASSUME IInv, NEW r \in Reporters, NEW i \in Indices, ReadConnections(r, i)
    PROVE  IInv'
  <1>1. /\ NodesTyped /\ HeldCounts /\ ReportsTyped /\ NothingCounted /\ ConnectionsCounted
        /\ \A s \in Reporters : Fresh(s)
    BY DEF IInv
  <1>2. UNCHANGED <<kind, servers, held, off>> /\ Indices' = Indices
    BY DEF ReadConnections, Indices
  <1>3. PICK new : new = [node |-> i, connections |-> servers[i].connections, late |-> FALSE]
    OBVIOUS
  <1>4. report' = [report EXCEPT ![r] = new]
    BY <1>3 DEF ReadConnections
  <1>5. i \in Nat /\ servers[i].connections \in Int
    BY <1>1, ServersTyped
  <1>6. new \in [node : Nat, connections : Int, late : BOOLEAN]
    BY <1>3, <1>5
  <1>7. report' \in [Reporters -> [node : Nat, connections : Int, late : BOOLEAN]]
        /\ \A s \in Reporters : report'[s] = IF s = r THEN new ELSE report[s]
    BY <1>1, <1>4, <1>6 DEF ReportsTyped
  <1>8. ReportsTyped'
    BY <1>1, <1>2, <1>3, <1>7 DEF ReportsTyped
  <1>9. NothingCounted'
    BY <1>1, <1>2, <1>3, <1>7 DEF NothingCounted
  <1>10. \A s \in Reporters : Fresh(s)'
    BY <1>1, <1>2, <1>3, <1>7 DEF Fresh
  <1>11. NodesTyped' /\ HeldCounts'
    BY <1>1, <1>2 DEF NodesTyped, HeldCounts
  <1>12. ConnectionsCounted'
    BY <1>1, <1>2 DEF ConnectionsCounted, CountedAt, Of
  <1> QED
    BY <1>8, <1>9, <1>10, <1>11, <1>12 DEF IInv

(* A report that is fresh and about the first server of its address leaves *)
(* the count as it is; any other takes the address out of the property.    *)
LEMMA Reported ==
    ASSUME IInv, NEW r \in Reporters, NEW time \in Times, updateServerStats(r, time)
    PROVE  IInv'
  <1>1. /\ NodesTyped /\ HeldCounts /\ ReportsTyped /\ NothingCounted /\ ConnectionsCounted
        /\ \A s \in Reporters : Fresh(s)
    BY DEF IInv
  <1>2. PICK i, a, n : i = report[r].node /\ a = servers[i].address /\ n = report[r].connections
    OBVIOUS
  <1>3. /\ i \in Indices /\ i # 0 /\ n \in Int
        /\ report \in [Reporters -> [node : Nat, connections : Int, late : BOOLEAN]]
    BY <1>1, <1>2 DEF ReportsTyped, updateServerStats
  <1>4. /\ Indices \subseteq Nat /\ Of(a) \subseteq Indices
        /\ \A j \in Indices : servers[j] \in Node /\ servers[j].connections \in Int
    BY <1>1, ServersTyped
  <1>5. PICK f : f = Min(Of(a))
    OBVIOUS
  <1>6. f \in Of(a) /\ f \in Indices /\ servers[f] \in Node /\ servers[f].address = a
    <2>1. i \in Of(a) /\ Of(a) \subseteq Nat
      BY <1>2, <1>3, <1>4 DEF Of
    <2>2. f \in Of(a)
      BY <1>5, <2>1, MinIn
    <2> QED
      BY <1>4, <2>2 DEF Of
  <1>7. PICK host : host = [servers[f] EXCEPT !.connections = n, !.responseTime = time]
    OBVIOUS
  <1>8. servers' = [servers EXCEPT ![f] = host]
    <2>1. servers' = [servers EXCEPT ![f].connections = n, ![f].responseTime = time]
      BY <1>2, <1>5 DEF updateServerStats
    <2>2. servers \in Seq(Node)
      BY <1>1 DEF NodesTyped
    <2> QED
      BY <1>6, <1>7, <2>1, <2>2 DEF Indices
  <1>9. /\ host \in Node /\ host.address = servers[f].address /\ host.connections = n
    BY <1>3, <1>6, <1>7 DEF Node
  <1>10. /\ UNCHANGED <<kind, held>>
         /\ off' = IF report[r].late \/ f # i THEN off \cup {a} ELSE off
         /\ report' = [report EXCEPT ![r] = NotRead]
    BY <1>2, <1>5 DEF updateServerStats
  <1>11. /\ servers' \in Seq(Node) /\ Len(servers') = Len(servers) /\ SameServers
         /\ \A j \in Indices : servers'[j] = IF j = f THEN host ELSE servers[j]
    BY <1>1, <1>6, <1>8, <1>9, <1>10, Replaced
  <1>12. Indices' = Indices
    BY <1>11 DEF SameServers
  <1>13. NodesTyped' /\ HeldCounts'
    BY <1>1, <1>10, <1>11, <1>12 DEF NodesTyped, HeldCounts
  <1>14. /\ report' \in [Reporters -> [node : Nat, connections : Int, late : BOOLEAN]]
         /\ \A s \in Reporters : report'[s] = IF s = r THEN NotRead ELSE report[s]
    <2>1. NotRead \in [node : Nat, connections : Int, late : BOOLEAN]
      BY DEF NotRead
    <2> QED
      BY <1>3, <1>10, <2>1
  <1>15. NotRead.node = 0 /\ NotRead.connections = 0
    BY DEF NotRead
  <1>16. ReportsTyped'
    BY <1>1, <1>12, <1>14, <1>15 DEF ReportsTyped
  <1>17. NothingCounted'
    <2>1. SUFFICES ASSUME kind \notin Counting
                   PROVE  /\ \A j \in Indices : servers'[j].connections = 0
                          /\ \A s \in Reporters : report'[s].connections = 0
      BY <1>10, <1>12 DEF NothingCounted
    <2>2. n = 0 /\ \A j \in Indices : servers[j].connections = 0
      BY <1>1, <1>2, <2>1 DEF NothingCounted
    <2>3. \A s \in Reporters : report[s].connections = 0
      BY <1>1, <2>1 DEF NothingCounted
    <2> QED
      BY <1>9, <1>11, <1>14, <1>15, <2>2, <2>3
  <1>18. off \subseteq off'
    BY <1>10
  (* Outside the addresses written off no count changes.                   *)
  <1>19. ASSUME NEW j \in Indices, servers[j].address \notin off'
         PROVE  servers'[j].connections = servers[j].connections
    <2>1. CASE j # f
      BY <1>11, <2>1
    <2>2. CASE j = f
      <3>1. a \notin off' /\ a \notin off
        BY <1>6, <1>18, <1>19, <2>2
      <3>2. ~ report[r].late /\ f = i
        BY <1>10, <3>1
      <3>3. n = servers[i].connections
        BY <1>1, <1>2, <1>3, <3>1, <3>2 DEF Fresh
      <3> QED
        BY <1>9, <1>11, <2>2, <3>2, <3>3
    <2> QED
      BY <2>1, <2>2
  <1>20. ASSUME NEW s \in Reporters PROVE Fresh(s)'
    <2>1. SUFFICES ASSUME report'[s].node # 0, ~ report'[s].late,
                          servers'[report'[s].node].address \notin off'
                   PROVE  report'[s].connections = servers'[report'[s].node].connections
      BY DEF Fresh
    <2>2. report'[s] = report[s]
      BY <1>14, <1>15, <2>1
    <2>3. PICK k : k = report[s].node
      OBVIOUS
    <2>4. k \in Indices /\ k # 0 /\ servers'[k].address = servers[k].address
      BY <1>1, <1>11, <2>1, <2>2, <2>3 DEF ReportsTyped, SameServers
    <2>5. servers[k].address \notin off' /\ servers[k].address \notin off
      BY <1>18, <2>1, <2>2, <2>3, <2>4
    <2>6. report[s].connections = servers[k].connections
      BY <1>1, <2>1, <2>2, <2>3, <2>4, <2>5 DEF Fresh
    <2> QED
      BY <1>19, <2>2, <2>3, <2>4, <2>5, <2>6
  <1>21. ASSUME kind \in Loads, NEW b \in Addresses \ off' PROVE CountedAt(b)'
    <2>1. CountedAt(b)
      BY <1>1, <1>18, <1>21 DEF ConnectionsCounted
    <2>2. \A k \in Of(b) : servers'[k].connections = servers[k].connections /\ held'[k] = held[k]
      BY <1>10, <1>19, <1>21 DEF Of
    <2> QED
      BY <1>11, <2>1, <2>2, SameSums
  <1>22. ConnectionsCounted'
    BY <1>10, <1>21 DEF ConnectionsCounted
  <1> QED
    BY <1>13, <1>16, <1>17, <1>20, <1>22 DEF IInv

LEMMA StepIInv == IInv /\ [Next]_vars => IInv'
  <1> SUFFICES ASSUME IInv, [Next]_vars
               PROVE  IInv'
    OBVIOUS
  <1>1. ASSUME NEW shape \in Shapes, addServer(shape) PROVE IInv'
    BY <1>1, Added
  <1>2. ASSUME NEW shape \in DestinationShapes, NEW d \in Destinations,
               addDestinationServer(d, shape)
        PROVE  IInv'
    BY <1>2, Untouched DEF addDestinationServer
  <1>3. CASE selectServer
    BY <1>3, Selected
  <1>4. ASSUME NEW i \in Indices, releaseConnection(i) PROVE IInv'
    BY <1>4, Released
  <1>5. ASSUME NEW r \in Reporters, NEW i \in Indices, ReadConnections(r, i) PROVE IInv'
    BY <1>5, Noted
  <1>6. ASSUME NEW r \in Reporters, NEW time \in Times, updateServerStats(r, time)
        PROVE  IInv'
    BY <1>6, Reported
  <1>7. CASE UNCHANGED vars
    BY <1>7, Untouched DEF vars
  <1> QED
    BY <1>1, <1>2, <1>3, <1>4, <1>5, <1>6, <1>7 DEF Next

(* The balancers that choose by load choose by what clients hold, address  *)
(* by address, whether or not servers share it: for any servers, clients,  *)
(* callers that report and numbers of calls, as long as no report of the   *)
(* address was overtaken or about another than its first server.           *)
THEOREM Counted == Spec => []ConnectionsCounted
  <1>1. IInv => ConnectionsCounted
    BY DEF IInv
  <1> QED
    BY InitIInv, StepIInv, <1>1, PTL DEF Spec

-----------------------------------------------------------------------------
(* The shares: any servers with positive weights and processing powers.    *)

Weights == [i \in Indices |-> servers[i].weight]

(* What the shapes of the nodes give.                                      *)
LEMMA Shapely ==
    ASSUME PositiveShares, NodesTyped
    PROVE  /\ Indices = 1 .. Len(servers) /\ Len(servers) \in Nat /\ IsFiniteSet(Indices)
           /\ \A i \in Indices : /\ servers[i].weight \in Nat /\ servers[i].weight >= 1
                                 /\ servers[i].processingPower \in Nat
                                 /\ servers[i].processingPower >= 1
                                 /\ servers[i].connections \in Int
           /\ Weights \in [Indices -> Nat] /\ totalWeight = Sum(Weights)
           /\ servers # <<>> => 1 \in Indices
  <1>1. Indices = 1 .. Len(servers) /\ Len(servers) \in Nat
    BY DEF Indices, NodesTyped
  <1>2. IsFiniteSet(Indices)
    BY <1>1, FS_Interval
  <1>3. ASSUME NEW i \in Indices
        PROVE  /\ servers[i].weight \in Nat /\ servers[i].weight >= 1
               /\ servers[i].processingPower \in Nat /\ servers[i].processingPower >= 1
               /\ servers[i].connections \in Int
    <2>1. servers[i] \in Node
      BY <1>1 DEF NodesTyped
    <2>2. /\ servers[i].weight \in {s.weight : s \in Shapes}
          /\ servers[i].processingPower \in {s.processingPower : s \in Shapes}
          /\ servers[i].connections \in Int
      BY <2>1 DEF Node
    <2> QED
      BY <2>2 DEF PositiveShares
  <1>4. Weights \in [Indices -> Nat] /\ totalWeight = Sum(Weights)
    BY <1>3 DEF Weights, totalWeight
  <1>5. servers # <<>> => 1 \in Indices
    BY <1>1 DEF NodesTyped
  <1> QED
    BY <1>1, <1>2, <1>3, <1>4, <1>5

(* g is the greatest common divisor of the weights.                        *)
IsGcd(g) ==
    /\ g \in 1 .. totalWeight
    /\ \A i \in Indices : servers[i].weight % g = 0
    /\ \A h \in g + 1 .. totalWeight : \E i \in Indices : servers[i].weight % h # 0

(* Some weight is positive.                                                *)
LEMMA TotalPositive ==
    ASSUME PositiveShares, NodesTyped, servers # <<>>
    PROVE  totalWeight \in Nat /\ totalWeight >= 1
  <1> DEFINE zero == [i \in Indices |-> 0]
  <1>1. IsFiniteSet(Indices) /\ zero \in [Indices -> Int] /\ Weights \in [Indices -> Int]
        /\ Sum(Weights) = totalWeight /\ 1 \in Indices
        /\ \A i \in Indices : zero[i] = 0 /\ zero[i] <= Weights[i] /\ zero[i] # Weights[i]
    BY Shapely DEF Weights
  <1> HIDE DEF zero
  <1>2. Sum(zero) = 0
    BY <1>1, SumZero
  <1>3. Sum(zero) <= Sum(Weights) /\ Sum(zero) # Sum(Weights)
    BY <1>1, SumBelow
  <1>4. Sum(Weights) \in Int
    BY <1>1, SumInt
  <1> QED
    BY <1>1, <1>2, <1>3, <1>4

(* The CHOOSE in gcd finds the greatest common divisor.                    *)
LEMMA GcdIs == PositiveShares /\ NodesTyped /\ servers # <<>> => IsGcd(gcd)
  <1> SUFFICES ASSUME PositiveShares, NodesTyped, servers # <<>>
               PROVE  IsGcd(gcd)
    OBVIOUS
  <1>1. totalWeight \in Nat /\ totalWeight >= 1
    BY TotalPositive
  <1>2. \A i \in Indices : servers[i].weight \in Nat
    BY Shapely
  <1> DEFINE D == {h \in 1 .. totalWeight : \A i \in Indices : servers[i].weight % h = 0}
             T == {totalWeight - h : h \in D}
  <1>3. 1 \in D
    BY <1>1, <1>2
  <1>4. T \subseteq Nat /\ T # {}
    BY <1>1, <1>3
  <1>5. PICK t \in T : \A y \in T : t <= y
    <2> HIDE DEF T
    <2> QED
      BY <1>4, LeastIn
  <1>6. PICK g \in D : t = totalWeight - g
    OBVIOUS
  <1>7. ASSUME NEW h \in g + 1 .. totalWeight
        PROVE  \E i \in Indices : servers[i].weight % h # 0
    <2>1. h \in 1 .. totalWeight /\ g \in 1 .. totalWeight /\ h > g
      BY <1>1, <1>6
    <2>2. ASSUME h \in D PROVE FALSE
      <3>1. totalWeight - h \in T
        BY <2>2
      <3>2. totalWeight - g <= totalWeight - h
        BY <1>5, <1>6, <3>1
      <3> QED
        BY <1>1, <2>1, <3>2
    <2> QED
      BY <2>1, <2>2
  <1>8. IsGcd(g)
    BY <1>6, <1>7 DEF IsGcd
  <1> QED
    BY <1>8 DEF IsGcd, gcd

(* The weights in units of their divisor.                                  *)
LEMMA InUnits ==
    ASSUME PositiveShares, NodesTyped, servers # <<>>
    PROVE  /\ gcd \in Nat /\ gcd >= 1
           /\ \E v \in [Indices -> Nat] :
                 /\ \A i \in Indices : servers[i].weight = gcd * v[i]
                 /\ Sum(v) \in Int /\ totalWeight = gcd * Sum(v)
  <1>1. totalWeight \in Nat /\ IsGcd(gcd)
    BY TotalPositive, GcdIs
  <1>2. gcd \in Nat /\ gcd >= 1 /\ \A i \in Indices : servers[i].weight % gcd = 0
    BY <1>1 DEF IsGcd
  <1>3. PICK g : g = gcd
    OBVIOUS
  <1> DEFINE v == [i \in Indices |-> servers[i].weight \div g]
  <1>4. ASSUME NEW i \in Indices
        PROVE  v[i] \in Nat /\ servers[i].weight = g * v[i]
    <2>1. PICK w : w = servers[i].weight
      OBVIOUS
    <2>2. w \in Nat /\ w % g = 0 /\ g \in Nat /\ g >= 1
      BY <1>2, <1>3, <2>1, Shapely
    <2>3. w \div g \in Nat
      BY <2>2
    <2>4. w = g * (w \div g) + (w % g)
      BY <2>2
    <2>5. g * (w \div g) \in Int
      BY <2>2, <2>3
    <2> QED
      BY <2>1, <2>2, <2>3, <2>4, <2>5
  <1>5. v \in [Indices -> Nat] /\ v \in [Indices -> Int]
    BY <1>4
  <1>6. /\ IsFiniteSet(Indices) /\ Weights \in [Indices -> Int] /\ Sum(Weights) = totalWeight
    BY Shapely
  <1>7. Sum(v) \in Int
    <2> HIDE DEF v
    <2> QED
      BY <1>5, <1>6, SumInt
  <1>8. totalWeight = g * Sum(v)
    <2>1. PICK S, e, u : S = Indices /\ e = Weights /\ u = v
      OBVIOUS
    <2>2. Scales(e, g, u, S)
      BY <2>1, <1>4 DEF Weights, Scales
    <2> HIDE DEF v
    <2>3. IsFiniteSet(S) /\ u \in [S -> Int] /\ e \in [S -> Int] /\ g \in Int
      BY <2>1, <1>2, <1>3, <1>5, <1>6
    <2>4. Sum(e) = g * Sum(u)
      BY <2>2, <2>3, SumScaled
    <2> QED
      BY <1>6, <2>1, <2>4
  <1> HIDE DEF v
  <1> QED
    BY <1>2, <1>3, <1>4, <1>5, <1>7, <1>8

(* The same weights have the same sum and divisor.                         *)
LEMMA SameWeights ==
    ASSUME PositiveShares, NodesTyped, NodesTyped', servers # <<>>, Indices' = Indices,
           \A i \in Indices : servers'[i].weight = servers[i].weight
    PROVE  totalWeight' = totalWeight /\ gcd' = gcd
  <1>1. Weights' = Weights
    BY DEF Weights
  <1>2. totalWeight' = totalWeight
    BY <1>1, Shapely DEF totalWeight, Weights
  <1>3. IsGcd(gcd)
    BY GcdIs
  <1>4. IsGcd(gcd)'
    <2>1. PositiveShares' /\ (servers # <<>>)'
      BY Shapely DEF PositiveShares, Indices, NodesTyped
    <2>2. (PositiveShares /\ NodesTyped /\ servers # <<>> => IsGcd(gcd))'
      BY GcdIs, PTL
    <2> QED
      BY <2>1, <2>2
  <1>5. totalWeight \in Nat
    BY TotalPositive
  <1>6. PICK g, h : g = gcd /\ h = gcd'
    OBVIOUS
  <1>7. /\ g \in 1 .. totalWeight /\ h \in 1 .. totalWeight
        /\ \A i \in Indices : servers[i].weight % g = 0 /\ servers[i].weight % h = 0
        /\ \A k \in g + 1 .. totalWeight : \E i \in Indices : servers[i].weight % k # 0
        /\ \A k \in h + 1 .. totalWeight : \E i \in Indices : servers[i].weight % k # 0
    BY <1>2, <1>3, <1>4, <1>6 DEF IsGcd
  <1>8. ~ g < h /\ ~ h < g
    BY <1>5, <1>7
  <1> QED
    BY <1>2, <1>5, <1>6, <1>7, <1>8

-----------------------------------------------------------------------------
(* Whose turn has come, c being next, in the round that began with s.      *)
Had(s, c, i) == IF s <= c THEN s <= i /\ i < c ELSE s <= i \/ i < c

(* Round robin: whose turn has come in this round has one selection more.  *)
InTurn ==
    kind = "ROUND_ROBIN" =>
        IF servers = <<>> THEN currentIndex = 1
        ELSE /\ currentIndex \in Indices
             /\ \E s \in Indices : \A i \in Indices :
                    picks[i] = IF Had(s, currentIndex, i)
                               THEN picks[currentIndex] + 1 ELSE picks[currentIndex]

(* Weighted: the credit of a server is what its weight has brought it less *)
(* what its selections cost, and within a cycle nobody exceeds his weight. *)
InCycle ==
    kind = "WEIGHTED_ROUND_ROBIN" /\ servers # <<>> =>
        /\ currentWeights \in [Indices -> Int]
        /\ \A i \in Indices :
               currentWeights[i] = Sum(picks) * servers[i].weight - picks[i] * totalWeight
        /\ Sum(picks) * gcd <= totalWeight =>
               \A i \in Indices : picks[i] * gcd <= servers[i].weight

(* While calm the counters are the selections; classes that do not count   *)
(* stay calm, having none.                                                 *)
ByLoad ==
    /\ kind \notin Counting => calm /\ \A i \in Indices : servers[i].connections = 0
    /\ kind \in Loads /\ calm => \A i \in Indices : servers[i].connections = picks[i]

(* The inductive invariant of the shares.                                  *)
ShareIInv ==
    /\ NodesTyped /\ picks \in [Indices -> Nat]
    /\ ByLoad /\ InTurn /\ InCycle /\ NobodyAhead

-----------------------------------------------------------------------------
LEMMA Positive ==
    PositiveShares /\ NodesTyped => \A i \in Indices : Share(i) \in Nat /\ Share(i) >= 1
  BY Shapely DEF Share

LEMMA Bounded ==
    PositiveShares /\ NodesTyped /\ servers # <<>> =>
        /\ IsFiniteSet(Indices) /\ totalWeight \in Int /\ gcd \in Int
        /\ \A i \in Indices : servers[i].weight \in Nat
  BY Shapely, TotalPositive, InUnits

(* A round goes on, or the next one starts.                                *)
LEMMA RoundAgain ==
    ASSUME NEW n \in Nat, NEW c \in 1 .. n
    PROVE  c % n = IF c = n THEN 0 ELSE c
  <1>1. n >= 1 /\ n % n = 0
    OBVIOUS
  <1>2. ASSUME c < n PROVE c % n = c
    BY <1>2
  <1>3. c = n \/ c < n
    OBVIOUS
  <1> QED
    BY <1>1, <1>2, <1>3

Turns(p, s, c, n) ==
    \A i \in 1 .. n : p[i] = IF Had(s, c, i) THEN p[c] + 1 ELSE p[c]
OneMore(q, p, c, S) == \A i \in S : q[i] = IF i = c THEN p[i] + 1 ELSE p[i]

LEMMA NextTurn ==
    ASSUME NEW n \in Nat, NEW c \in 1 .. n, NEW s \in 1 .. n,
           NEW p \in [1 .. n -> Nat], NEW q \in [1 .. n -> Nat],
           Turns(p, s, c, n), OneMore(q, p, c, 1 .. n), NEW d, d = (c % n) + 1
    PROVE  d \in 1 .. n /\ \E t \in 1 .. n : Turns(q, t, d, n)
  <1>1. c % n = IF c = n THEN 0 ELSE c
    BY RoundAgain
  <1>2. d \in 1 .. n /\ d = IF c = n THEN 1 ELSE c + 1
    BY <1>1
  <1>3. /\ \A i \in 1 .. n : p[i] \in Nat
        /\ \A i \in 1 .. n : p[i] = IF Had(s, c, i) THEN p[c] + 1 ELSE p[c]
        /\ \A i \in 1 .. n : q[i] = IF i = c THEN p[i] + 1 ELSE p[i]
    BY DEF Turns, OneMore
  <1>4. CASE d = s
    <2>1. ASSUME NEW i \in 1 .. n PROVE q[i] = p[c] + 1 /\ ~ Had(d, d, i)
      BY <1>2, <1>3, <1>4 DEF Had
    <2> QED
      BY <1>2, <2>1 DEF Turns
  <1>5. CASE d # s
    <2>1. d # c /\ ~ Had(s, c, d)
      BY <1>2, <1>5 DEF Had
    <2>2. q[d] = p[c]
      BY <1>2, <1>3, <2>1
    <2>3. ASSUME NEW i \in 1 .. n
          PROVE  q[i] = IF Had(s, d, i) THEN q[d] + 1 ELSE q[d]
      <3>1. Had(s, d, i) <=> Had(s, c, i) \/ i = c
        BY <1>2, <1>5 DEF Had
      <3>2. ~ Had(s, c, c)
        BY DEF Had
      <3> QED
        BY <1>3, <2>2, <3>1, <3>2
    <2> QED
      BY <1>2, <2>3 DEF Turns
  <1> QED
    BY <1>4, <1>5

-----------------------------------------------------------------------------
(* What a pass of the weighted loop finds, in units of the divisor.        *)
LEMMA Units ==
    ASSUME NEW g \in Int, NEW x \in Int, NEW y \in Int, NEW n \in Int, NEW p \in Int
    PROVE  n * (g * x) - p * (g * y) + g * x = g * ((n + 1) * x + (-y) * p)
  OBVIOUS

LEMMA UnitsMore ==
    ASSUME NEW g \in Nat, g >= 1, NEW x \in Int
    PROVE  g * x >= g <=> x >= 1
  OBVIOUS

(* The weights after a pass add up to the total weight, which is positive, *)
(* and are multiples of the divisor: one is as large as the divisor.       *)
LEMMA PassFinds ==
    ASSUME NEW S, IsFiniteSet(S), NEW v \in [S -> Nat], NEW p \in [S -> Nat],
           NEW g \in Nat, g >= 1, NEW V, V = Sum(v), V >= 1, NEW N, N = Sum(p)
    PROVE  \E i \in S : (N * (g * v[i]) - p[i] * (g * V)) + g * v[i] >= g
  <1>1. v \in [S -> Int] /\ p \in [S -> Int]
    OBVIOUS
  <1>2. V \in Int /\ N \in Int
    BY <1>1, SumInt
  <1> DEFINE ud == [i \in S |-> (-V) * p[i]]
             ed == [i \in S |-> (N + 1) * v[i] + ud[i]]
             zd == [i \in S |-> 0]
  <1>3. PICK u, e, z : u = ud /\ e = ed /\ z = zd
    OBVIOUS
  <1>4. u \in [S -> Int] /\ Scales(u, -V, p, S)
    <2>1. ASSUME NEW i \in S PROVE (-V) * p[i] \in Int
      BY <1>1, <1>2
    <2> QED
      BY <1>3, <2>1 DEF Scales
  <1>5. e \in [S -> Int] /\ Combines(e, N + 1, v, u, S)
    <2>1. ASSUME NEW i \in S PROVE (N + 1) * v[i] + u[i] \in Int
      <3>1. N + 1 \in Int /\ v[i] \in Int /\ u[i] \in Int
        BY <1>1, <1>2, <1>4
      <3>2. (N + 1) * v[i] \in Int
        BY <3>1
      <3> QED
        BY <3>1, <3>2
    <2>2. e = [i \in S |-> (N + 1) * v[i] + u[i]]
      BY <1>3
    <2> QED
      BY <2>1, <2>2 DEF Combines
  <1>6. z \in [S -> Int] /\ \A i \in S : z[i] = 0
    BY <1>3
  <1> HIDE DEF ud, ed, zd
  <1>7. -V \in Int /\ N + 1 \in Int
    BY <1>2
  <1>8. Sum(u) = (-V) * N
    BY <1>1, <1>4, <1>7, SumScaled
  <1>9. Sum(e) = (N + 1) * V + Sum(u)
    BY <1>1, <1>4, <1>5, <1>7, SumLinear
  <1>10. Sum(e) = V
    BY <1>2, <1>8, <1>9
  <1>11. ASSUME \A i \in S : e[i] <= z[i] PROVE FALSE
    <2>1. Sum(e) <= Sum(z)
      BY <1>5, <1>6, <1>11, SumBelow
    <2>2. Sum(z) = 0
      BY <1>6, SumZero
    <2> QED
      BY <1>2, <1>10, <2>1, <2>2
  <1>12. PICK i \in S : e[i] >= 1
    BY <1>5, <1>6, <1>11
  <1>13. e[i] = (N + 1) * v[i] + (-V) * p[i] /\ v[i] \in Int /\ p[i] \in Int
    BY <1>1, <1>4, <1>5 DEF Combines, Scales
  <1>14. g \in Int
    OBVIOUS
  <1>15. (N * (g * v[i]) - p[i] * (g * V)) + g * v[i] = g * e[i]
    BY <1>2, <1>13, <1>14, Units
  <1>16. g * e[i] >= g
    BY <1>5, <1>12, UnitsMore
  <1> QED
    BY <1>15, <1>16

Owed(c, N, w, p, W, S) == \A i \in S : c[i] = N * w[i] - p[i] * W

(* The credits add up to nothing.                                          *)
LEMMA WeightsEven ==
    ASSUME NEW S, IsFiniteSet(S), NEW w \in [S -> Nat], NEW p \in [S -> Nat],
           NEW c \in [S -> Int], NEW W, W = Sum(w), NEW N, N = Sum(p),
           Owed(c, N, w, p, W, S)
    PROVE  Sum(c) = 0
  <1>1. w \in [S -> Int] /\ p \in [S -> Int]
    OBVIOUS
  <1>2. W \in Int /\ N \in Int
    BY <1>1, SumInt
  <1>3. PICK u : u = [i \in S |-> (-W) * p[i]]
    OBVIOUS
  <1>4. u \in [S -> Int] /\ Scales(u, -W, p, S)
    <2>1. ASSUME NEW i \in S PROVE (-W) * p[i] \in Int
      BY <1>1, <1>2
    <2> QED
      BY <1>3, <2>1 DEF Scales
  <1>5. Combines(c, N, w, u, S)
    <2>1. ASSUME NEW i \in S PROVE c[i] = N * w[i] + u[i]
      <3>1. c[i] = N * w[i] - p[i] * W /\ u[i] = (-W) * p[i]
        BY <1>4 DEF Scales, Owed
      <3>2. p[i] \in Int /\ w[i] \in Int
        BY <1>1
      <3> QED
        BY <1>2, <3>1, <3>2
    <2> QED
      BY <2>1 DEF Combines
  <1>6. -W \in Int
    BY <1>2
  <1>7. Sum(u) = (-W) * N
    BY <1>1, <1>4, <1>6, SumScaled
  <1>8. Sum(c) = N * W + Sum(u)
    BY <1>1, <1>2, <1>4, <1>5, SumLinear
  <1> QED
    BY <1>2, <1>7, <1>8

-----------------------------------------------------------------------------
LEMMA InitShare == Init => ShareIInv
  BY DEF Init, ShareIInv, NodesTyped, ByLoad, InTurn, InCycle, NobodyAhead, Indices

(* A server is handed out: one more selection of it.                       *)
LEMMA Handed ==
    ASSUME ShareIInv, NEW i \in Indices, Hand(i), Indices' = Indices
    PROVE  /\ kind' = kind /\ calm' = calm /\ picks' \in [Indices -> Nat]
           /\ calm => \A j \in Indices :
                          picks'[j] = IF j = i THEN picks[j] + 1 ELSE picks[j]
  BY DEF ShareIInv, Hand

SameShapes ==
    /\ kind' = kind /\ Indices' = Indices
    /\ \A i \in Indices : /\ servers'[i].weight = servers[i].weight
                          /\ servers'[i].processingPower = servers[i].processingPower

LEMMA SameShares ==
    ASSUME SameShapes
    PROVE  \A i \in Indices : Share(i)' = Share(i)
  BY DEF SameShapes, Share

(* The nodes keep their shapes, the selections are as they were.           *)
LEMMA SharesSame ==
    ASSUME PositiveShares, ShareIInv, NodesTyped', SameShapes,
           UNCHANGED <<picks, currentIndex, currentWeights>>, calm' => calm
    PROVE  InTurn' /\ InCycle' /\ NobodyAhead'
  <1>1. InTurn'
    <2>1. servers = <<>> <=> servers' = <<>>
      BY DEF ShareIInv, NodesTyped, SameShapes, Indices
    <2> QED
      BY <2>1 DEF ShareIInv, InTurn, SameShapes
  <1>2. InCycle'
    <2>1. servers = <<>> <=> servers' = <<>>
      BY DEF ShareIInv, NodesTyped, SameShapes, Indices
    <2>2. ASSUME servers # <<>> PROVE totalWeight' = totalWeight /\ gcd' = gcd
      BY <2>2, SameWeights DEF ShareIInv, SameShapes
    <2>3. Sum(picks)' = Sum(picks)
      OBVIOUS
    <2> QED
      BY <2>1, <2>2, <2>3 DEF ShareIInv, InCycle, SameShapes
  <1>3. NobodyAhead'
    BY SameShares DEF ShareIInv, NobodyAhead, SameShapes
  <1> QED
    BY <1>1, <1>2, <1>3

(* Steps that touch nothing the shares depend on.                          *)
LEMMA ShareUntouched ==
    ASSUME PositiveShares, ShareIInv,
           UNCHANGED <<kind, servers, currentIndex, currentWeights, held, picks, calm>>
    PROVE  ShareIInv'
  <1>1. NodesTyped' /\ SameShapes
    BY DEF ShareIInv, NodesTyped, SameShapes, Indices
  <1>2. InTurn' /\ InCycle' /\ NobodyAhead'
    BY <1>1, SharesSame
  <1> QED
    BY <1>1, <1>2 DEF ShareIInv, ByLoad, Indices

(* A server more: everyone starts anew.                                    *)
LEMMA ShareAdded ==
    ASSUME PositiveShares, ShareIInv, NodesTyped', NEW shape \in Shapes, addServer(shape)
    PROVE  ShareIInv'
  <1>1. /\ Indices = 1 .. Len(servers) /\ Len(servers) \in Nat
        /\ Indices' = 1 .. Len(servers) + 1 /\ servers' # <<>>
        /\ \A i \in Indices : servers'[i] = servers[i]
        /\ servers'[Len(servers) + 1].connections = 0
    BY DEF ShareIInv, NodesTyped, addServer, Indices, Connected
  <1>2. /\ kind' = kind /\ currentIndex' = currentIndex
        /\ picks' = [i \in Indices' |-> 0] /\ currentWeights' = [i \in Indices' |-> 0]
    BY <1>1 DEF addServer, initializeWeights, Indices
  <1>3. picks' \in [Indices' -> Nat]
    BY <1>2
  <1>4. (PositiveShares /\ NodesTyped => \A i \in Indices : Share(i) \in Nat /\ Share(i) >= 1)'
    BY Positive, PTL
  <1>5. PositiveShares'
    BY DEF PositiveShares
  <1>6. ByLoad'
    <2>0. calm' <=> calm /\ \A i \in Indices : servers[i].connections = 0
      BY Zenon DEF addServer
    <2>1. calm' => \A i \in Indices' : servers'[i].connections = 0
      BY <1>1, <2>0
    <2>2. kind \notin Counting => calm'
      BY <2>0 DEF ShareIInv, ByLoad
    <2> QED
      BY <1>2, <2>1, <2>2 DEF ByLoad
  <1>7. InTurn'
    <2>1. kind = "ROUND_ROBIN" => currentIndex \in Indices'
      BY <1>1 DEF ShareIInv, InTurn
    <2>2. \A i \in Indices' : ~ Had(currentIndex, currentIndex, i) \/ currentIndex \notin Int
      BY <1>1 DEF Had
    <2> QED
      BY <1>1, <1>2, <2>1, <2>2 DEF InTurn
  <1>8. InCycle'
    <2>1. (PositiveShares /\ NodesTyped /\ servers # <<>> =>
              /\ IsFiniteSet(Indices) /\ totalWeight \in Int /\ gcd \in Int
              /\ \A i \in Indices : servers[i].weight \in Nat)'
      BY Bounded, PTL
    <2>2. PICK S, p, W, g : S = Indices' /\ p = picks' /\ W = totalWeight' /\ g = gcd'
      OBVIOUS
    <2>3. IsFiniteSet(S) /\ W \in Int /\ g \in Int /\ \A i \in S : servers'[i].weight \in Nat
      BY <1>1, <1>5, <2>1, <2>2
    <2>4. p \in [S -> Int] /\ \A i \in S : p[i] = 0 /\ currentWeights'[i] = 0
      BY <1>2, <2>2
    <2>5. Sum(p) = 0
      BY <2>3, <2>4, SumZero
    <2>6. ASSUME NEW i \in S
          PROVE  /\ currentWeights'[i] = Sum(p) * servers'[i].weight - p[i] * W
                 /\ p[i] * g <= servers'[i].weight
      <3>1. PICK w : w = servers'[i].weight
        OBVIOUS
      <3>2. w \in Nat /\ 0 * w = 0 /\ 0 * W = 0 /\ 0 * g = 0
        BY <2>3, <3>1
      <3> QED
        BY <2>4, <2>5, <3>1, <3>2
    <2>7. currentWeights' \in [S -> Int]
      BY <1>2, <2>2
    <2> QED
      BY <2>2, <2>6, <2>7 DEF InCycle
  <1>9. NobodyAhead'
    <2>1. ASSUME NEW i \in Indices', NEW j \in Indices'
          PROVE  (picks'[i] - 1) * Share(j)' <= picks'[j] * Share(i)'
      <3>1. picks'[i] = 0 /\ picks'[j] = 0 /\ Share(i)' \in Nat /\ Share(j)' \in Nat
        BY <1>2, <1>4, <1>5
      <3> QED
        BY <3>1
    <2> QED
      BY <2>1 DEF NobodyAhead
  <1> QED
    BY <1>3, <1>6, <1>7, <1>8, <1>9 DEF ShareIInv

(* Those that keep no share: a selection of any server.                    *)
LEMMA ShareFree ==
    ASSUME PositiveShares, ShareIInv, NodesTyped', NEW i \in Indices, Hand(i), Uncounted,
           kind \notin Counting, kind # "ROUND_ROBIN", kind # "WEIGHTED_ROUND_ROBIN"
    PROVE  ShareIInv'
  <1>1. Indices' = Indices /\ servers' = servers
    BY DEF Uncounted, Indices
  <1>2. kind' = kind /\ calm' = calm /\ picks' \in [Indices -> Nat]
    BY <1>1, Handed
  <1> QED
    BY <1>1, <1>2 DEF ShareIInv, ByLoad, InTurn, InCycle, NobodyAhead, Counting, Loads

(* Round robin: the next one has its turn.                                 *)
LEMMA ShareRound ==
    ASSUME PositiveShares, ShareIInv, NodesTyped', servers # <<>>, selectRoundRobin
    PROVE  ShareIInv'
  <1>1. /\ kind = "ROUND_ROBIN" /\ servers' = servers /\ Indices' = Indices
        /\ Indices = 1 .. Len(servers) /\ Len(servers) \in Nat
        /\ currentIndex' = (currentIndex % Len(servers)) + 1
        /\ currentIndex \in Indices /\ calm /\ kind \notin Counting
    BY DEF selectRoundRobin, ShareIInv, InTurn, ByLoad, Counting, Loads, Uncounted, Indices,
           NodesTyped
  <1>2. /\ kind' = kind /\ calm' = calm /\ picks' \in [Indices -> Nat]
        /\ \A j \in Indices : picks'[j] = IF j = currentIndex THEN picks[j] + 1 ELSE picks[j]
    BY <1>1, Handed DEF selectRoundRobin
  <1>3. PICK s \in Indices : \A i \in Indices :
            picks[i] = IF Had(s, currentIndex, i)
                       THEN picks[currentIndex] + 1 ELSE picks[currentIndex]
    BY <1>1 DEF ShareIInv, InTurn
  <1>4. PICK n, c, d, p, q : /\ n = Len(servers) /\ c = currentIndex /\ d = currentIndex'
                             /\ p = picks /\ q = picks'
    OBVIOUS
  <1>5. /\ n \in Nat /\ c \in 1 .. n /\ s \in 1 .. n
        /\ p \in [1 .. n -> Nat] /\ q \in [1 .. n -> Nat]
    BY <1>1, <1>2, <1>4 DEF ShareIInv
  <1>6. Turns(p, s, c, n)
    BY <1>1, <1>3, <1>4 DEF Turns
  <1>7. OneMore(q, p, c, 1 .. n)
    BY <1>1, <1>2, <1>4 DEF OneMore
  <1>8. d = (c % n) + 1
    BY <1>1, <1>4
  <1>9. d \in 1 .. n /\ \E t \in 1 .. n : Turns(q, t, d, n)
    BY <1>5, <1>6, <1>7, <1>8, NextTurn
  <1>10. InTurn'
    BY <1>1, <1>2, <1>4, <1>9 DEF InTurn, Turns
  <1>11. NobodyAhead'
    <2>1. ASSUME NEW i \in Indices, NEW j \in Indices PROVE q[i] - 1 <= q[j]
      <3>1. q[d] \in Nat
        BY <1>5, <1>9
      <3>2. (q[i] = q[d] \/ q[i] = q[d] + 1) /\ (q[j] = q[d] \/ q[j] = q[d] + 1)
        BY <1>1, <1>4, <1>9 DEF Turns
      <3> QED
        BY <3>1, <3>2
    <2>2. \A i \in Indices : Share(i)' = 1
      BY <1>1, <1>2 DEF Share
    <2>3. \A i \in Indices : q[i] \in Nat
      BY <1>1, <1>4, <1>5
    <2>4. ASSUME NEW i \in Indices, NEW j \in Indices
          PROVE (picks'[i] - 1) * Share(j)' <= picks'[j] * Share(i)'
      <3>1. (q[i] - 1) * 1 <= q[j] * 1
        BY <2>1, <2>3
      <3> QED
        BY <1>4, <2>2, <3>1
    <2> QED
      BY <1>1, <2>4 DEF NobodyAhead
  <1>12. ByLoad'
    BY <1>1, <1>2 DEF ShareIInv, ByLoad, Counting
  <1>13. InCycle'
    BY <1>1, <1>2 DEF InCycle
  <1> QED
    BY <1>1, <1>2, <1>10, <1>11, <1>12, <1>13 DEF ShareIInv

(* The one chosen is behind nobody: picks[i] / share of it is the least.   *)
LEMMA ChosenBehind ==
    ASSUME NEW p \in Nat, NEW a \in Nat, a >= 1, NEW q \in Nat, NEW b \in Nat, b >= 1,
           (q - 1) * a <= p * b
    PROVE  (q - 1) * a <= (p + 1) * b
  <1>1. p * b \in Nat /\ (p + 1) * b = p * b + b
    OBVIOUS
  <1>2. (q - 1) * a \in Int
    OBVIOUS
  <1> QED
    BY <1>1, <1>2

(* The least loaded is behind nobody.                                      *)
LEMMA ShareLeast ==
    ASSUME PositiveShares, ShareIInv, NodesTyped', kind \in Counting, selectLeast
    PROVE  ShareIInv'
  <1>1. PICK i \in Indices :
            /\ IsMinElement(servers, i)
            /\ servers' = [servers EXCEPT ![i].connections = @ + 1]
            /\ Hand(i)
    BY DEF selectLeast
  <1>2. servers[i] \in Node /\ servers \in Seq(Node)
    BY DEF ShareIInv, NodesTyped, Indices
  <1>3. PICK host : host = [servers[i] EXCEPT !.connections = @ + 1]
    OBVIOUS
  <1>4. /\ host.weight = servers[i].weight /\ host.processingPower = servers[i].processingPower
        /\ host.connections = servers[i].connections + 1
    BY <1>2, <1>3 DEF Node
  <1>5. servers' = [servers EXCEPT ![i] = host]
    BY <1>1, <1>3
  <1>6. Indices' = Indices /\ \A j \in Indices : servers'[j] = IF j = i THEN host ELSE servers[j]
    BY <1>2, <1>5 DEF Indices
  <1>7. /\ kind' = kind /\ calm' = calm /\ picks' \in [Indices -> Nat]
        /\ calm => \A j \in Indices : picks'[j] = IF j = i THEN picks[j] + 1 ELSE picks[j]
    BY <1>1, <1>6, Handed
  <1>8. SameShapes
    BY <1>4, <1>6, <1>7 DEF SameShapes
  <1>9. /\ \A j \in Indices : picks[j] \in Nat
        /\ kind \in Loads /\ calm => \A j \in Indices : servers[j].connections = picks[j]
    BY DEF ShareIInv, ByLoad
  <1>10. ByLoad'
    <2>1. ASSUME kind \in Loads, calm, NEW j \in Indices
          PROVE  servers'[j].connections = picks'[j]
      BY <1>4, <1>6, <1>7, <1>9, <2>1
    <2> QED
      BY <1>6, <1>7, <2>1 DEF ByLoad
  <1>11. NobodyAhead'
    <2>1. SUFFICES ASSUME calm, kind \in Loads, kind # "RESPONSE_TIME",
                          NEW j \in Indices, NEW k \in Indices
                   PROVE  (picks'[j] - 1) * Share(k) <= picks'[k] * Share(j)
      BY <1>6, <1>7, <1>8, SameShares DEF NobodyAhead, Loads, Counting
    <2>2. PICK p, a, q, b : p = picks[k] /\ a = Share(k) /\ q = picks[j] /\ b = Share(j)
      OBVIOUS
    <2>3. p \in Nat /\ q \in Nat /\ a \in Nat /\ a >= 1 /\ b \in Nat /\ b >= 1
      BY <1>9, <2>2, Positive DEF ShareIInv
    <2>4. (q - 1) * a <= p * b
      BY <2>1, <2>2 DEF ShareIInv, NobodyAhead, Loads
    <2>5. CASE j = i
      <3>1. ~ Lighter(servers[k], servers[i])
        BY <1>1 DEF IsMinElement, Indices
      <3>2. q * a <= p * b
        <4>1. servers[k].connections = p /\ servers[i].connections = q
          BY <1>9, <2>1, <2>2, <2>5
        <4>2. CASE kind = "LEAST_CONNECTIONS"
          BY <2>2, <2>3, <2>5, <3>1, <4>1, <4>2 DEF Lighter, Share
        <4>3. CASE kind = "WEIGHTED_LEAST_CONNECTIONS"
          <5>1. a = servers[k].weight /\ b = servers[i].weight
            BY <2>2, <2>5, <4>3 DEF Share
          <5>2. ~ (servers[k].connections * servers[i].weight
                      < servers[i].connections * servers[k].weight)
            BY <3>1, <4>3 DEF Lighter
          <5>3. ~ (p * b < q * a)
            BY <4>1, <5>1, <5>2
          <5> QED
            BY <2>3, <5>3
        <4>4. CASE kind = "PROCESSING_POWER"
          <5>1. a = servers[k].processingPower /\ b = servers[i].processingPower
            BY <2>2, <2>5, <4>4 DEF Share
          <5>2. ~ (servers[k].connections * servers[i].processingPower
                      < servers[i].connections * servers[k].processingPower)
            BY <3>1, <4>4 DEF Lighter
          <5>3. ~ (p * b < q * a)
            BY <4>1, <5>1, <5>2
          <5> QED
            BY <2>3, <5>3
        <4> QED
          BY <2>1, <4>2, <4>3, <4>4 DEF Loads
      <3>3. CASE k = i
        <4>1. picks'[j] = q + 1 /\ picks'[k] = q + 1 /\ a = b
          BY <1>7, <2>1, <2>2, <2>5, <3>3
        <4>2. picks'[j] - 1 = q
          BY <2>3, <4>1
        <4>3. q * a <= (q + 1) * a
          BY <2>3
        <4> QED
          BY <2>2, <4>1, <4>2, <4>3
      <3>4. CASE k # i
        <4>1. picks'[j] = q + 1 /\ picks'[k] = p
          BY <1>7, <2>1, <2>2, <2>5, <3>4
        <4>2. picks'[j] - 1 = q
          BY <2>3, <4>1
        <4> QED
          BY <2>2, <3>2, <4>1, <4>2
      <3> QED
        BY <3>3, <3>4
    <2>6. CASE j # i
      <3>1. picks'[j] = q /\ (picks'[k] = p \/ picks'[k] = p + 1)
        BY <1>7, <2>1, <2>2, <2>6
      <3>2. (q - 1) * a <= (p + 1) * b
        BY <2>3, <2>4, ChosenBehind
      <3> QED
        BY <2>2, <2>4, <3>1, <3>2
    <2> QED
      BY <2>5, <2>6
  <1> QED
    BY <1>6, <1>7, <1>10, <1>11 DEF ShareIInv, InTurn, InCycle, Counting, Loads

-----------------------------------------------------------------------------
(* Within a cycle the one chosen has not had its weight.                   *)
LEMMA OneOfItsWeight ==
    ASSUME NEW g \in Nat, g >= 1, NEW v \in Nat, NEW p \in Nat, NEW V \in Nat, NEW n \in Nat,
           (n * (g * v) - p * (g * V)) + g * v >= g, (n + 1) * g <= g * V
    PROVE  (p + 1) * g <= g * v
  <1>1. (n * (g * v) - p * (g * V)) + g * v = g * ((n + 1) * v + (-V) * p)
    BY Units
  <1>2. (n + 1) * v + (-V) * p \in Int
    OBVIOUS
  <1>3. (n + 1) * v + (-V) * p >= 1
    BY <1>1, <1>2, UnitsMore
  <1>4. n + 1 <= V
    OBVIOUS
  <1>5. (n + 1) * v <= V * v
    BY <1>4
  <1>6. V * v >= V * p + 1
    BY <1>3, <1>5
  <1>7. v > p
    BY <1>6
  <1> QED
    BY <1>7

(* A pass finds a server, so the loop makes one.                           *)
LEMMA FirstPass ==
    ASSUME PositiveShares, ShareIInv, servers # <<>>, kind = "WEIGHTED_ROUND_ROBIN"
    PROVE  /\ Reach(1) # {} /\ Reach(1) \subseteq Indices
           /\ \A i \in Indices : Raised(1)[i] = currentWeights[i] + servers[i].weight
  <1>1. NodesTyped
    BY DEF ShareIInv
  <1>2. PICK v \in [Indices -> Nat] :
            /\ \A i \in Indices : servers[i].weight = gcd * v[i]
            /\ Sum(v) \in Int /\ totalWeight = gcd * Sum(v)
    BY <1>1, InUnits
  <1>3. gcd \in Nat /\ gcd >= 1 /\ totalWeight \in Nat /\ totalWeight >= 1
    BY <1>1, InUnits, TotalPositive
  <1>4. IsFiniteSet(Indices) /\ \A i \in Indices : servers[i].weight \in Nat
    BY <1>1, Shapely
  <1>5. PICK S, p, g, V, N : /\ S = Indices /\ p = picks /\ g = gcd /\ V = Sum(v)
                             /\ N = Sum(picks)
    OBVIOUS
  <1>6. V \in Int /\ g * V >= 1 /\ g \in Nat /\ g >= 1
    BY <1>2, <1>3, <1>5
  <1>7. V >= 1
    BY <1>6
  <1>8. IsFiniteSet(S) /\ v \in [S -> Nat] /\ p \in [S -> Nat] /\ V = Sum(v) /\ N = Sum(p)
    BY <1>4, <1>5 DEF ShareIInv
  <1>9. PICK i \in S : (N * (g * v[i]) - p[i] * (g * V)) + g * v[i] >= g
    BY <1>6, <1>7, <1>8, PassFinds
  <1>10. currentWeights[i] = N * (g * v[i]) - p[i] * (g * V) /\ servers[i].weight = g * v[i]
    BY <1>2, <1>5 DEF ShareIInv, InCycle
  <1>11. \A j \in Indices : Raised(1)[j] = currentWeights[j] + servers[j].weight
    BY <1>4 DEF Raised
  <1>12. i \in Reach(1)
    <2>1. Raised(1)[i] >= gcd
      BY <1>5, <1>9, <1>10, <1>11
    <2> QED
      BY <1>5, <2>1 DEF Reach
  <1> QED
    BY <1>11, <1>12 DEF Reach

(* The weighted round robin takes one that has not had its weight.         *)
LEMMA ShareWeighted ==
    ASSUME PositiveShares, ShareIInv, NodesTyped', servers # <<>>, selectWeightedRoundRobin
    PROVE  ShareIInv'
  <1>1. /\ kind = "WEIGHTED_ROUND_ROBIN" /\ servers' = servers /\ Indices' = Indices
        /\ kind \notin Counting /\ calm /\ NodesTyped
    BY DEF selectWeightedRoundRobin, Uncounted, Indices, Counting, Loads, ShareIInv, ByLoad
  <1>2. /\ Reach(1) # {} /\ Reach(1) \subseteq Indices
        /\ \A i \in Indices : Raised(1)[i] = currentWeights[i] + servers[i].weight
    BY <1>1, FirstPass
  <1>3. totalWeight \in Nat /\ totalWeight >= 1 /\ gcd \in Nat /\ gcd >= 1
    BY <1>1, TotalPositive, InUnits
  <1>4. PICK passes \in 1 .. totalWeight :
            /\ \A n \in 1 .. passes - 1 : Reach(n) = {}
            /\ currentWeights' = [Raised(passes) EXCEPT ![Min(Reach(passes))] = @ - totalWeight]
            /\ Hand(Min(Reach(passes)))
    BY DEF selectWeightedRoundRobin
  <1>5. passes = 1
    <2>1. ASSUME passes # 1 PROVE FALSE
      <3>1. 1 \in 1 .. passes - 1
        BY <1>3, <2>1
      <3> QED
        BY <1>2, <1>4, <3>1
    <2> QED
      BY <2>1
  <1>6. PICK i : i = Min(Reach(1))
    OBVIOUS
  <1>7. i \in Reach(1) /\ i \in Indices
    <2>1. Reach(1) \subseteq Nat
      BY <1>1, <1>2, Shapely
    <2> QED
      BY <1>2, <1>6, <2>1, MinIn
  <1>8. /\ Hand(i)
        /\ currentWeights' = [Raised(1) EXCEPT ![i] = Raised(1)[i] - totalWeight]
    BY <1>4, <1>5, <1>6
  <1>9. /\ kind' = kind /\ calm' = calm /\ picks' \in [Indices -> Nat]
        /\ \A j \in Indices : picks'[j] = IF j = i THEN picks[j] + 1 ELSE picks[j]
    BY <1>1, <1>7, <1>8, Handed
  <1>10. /\ currentWeights \in [Indices -> Int]
         /\ \A j \in Indices :
                currentWeights[j] = Sum(picks) * servers[j].weight - picks[j] * totalWeight
         /\ Sum(picks) * gcd <= totalWeight =>
                \A j \in Indices : picks[j] * gcd <= servers[j].weight
    BY <1>1 DEF ShareIInv, InCycle
  <1>11. IsFiniteSet(Indices) /\ \A j \in Indices : servers[j].weight \in Nat
    BY <1>1, Shapely
  <1>12. PICK S, p, q, N, M, g, W : /\ S = Indices /\ p = picks /\ q = picks'
                                    /\ N = Sum(picks) /\ M = Sum(picks')
                                    /\ g = gcd /\ W = totalWeight
    OBVIOUS
  <1>13. N \in Int /\ M = N + 1
    <2>1. /\ IsFiniteSet(S) /\ p \in [S -> Int] /\ q \in [S -> Int] /\ i \in S
          /\ q[i] = p[i] + 1 /\ \A j \in S : j # i => q[j] = p[j]
      BY <1>7, <1>9, <1>11, <1>12 DEF ShareIInv
    <2>2. Sum(p) \in Int
      BY <2>1, SumInt
    <2>3. 1 \in Int
      OBVIOUS
    <2>4. Sum(q) = Sum(p) + 1
      BY <2>1, <2>3, SumChange
    <2> QED
      BY <1>12, <2>2, <2>4
  <1>14. N \in Nat
    <2>1. PICK z \in [S -> Int] : \A j \in S : z[j] = 0
      <3>1. [j \in S |-> 0] \in [S -> Int]
        OBVIOUS
      <3> QED
        BY <3>1
    <2>2. IsFiniteSet(S) /\ p \in [S -> Int] /\ \A j \in S : z[j] <= p[j]
      BY <1>11, <1>12, <2>1 DEF ShareIInv
    <2>3. Sum(z) = 0
      BY <2>1, <2>2, SumZero
    <2>4. Sum(z) <= Sum(p)
      BY <2>1, <2>2, SumBelow
    <2> QED
      BY <1>12, <1>13, <2>3, <2>4
  <1>15. Raised(1) = [j \in Indices |-> Raised(1)[j]]
    BY DEF Raised
  <1>16. \A j \in Indices : currentWeights'[j] = IF j = i THEN Raised(1)[j] - totalWeight
                                                 ELSE Raised(1)[j]
    BY <1>8, <1>15
  <1>17. ASSUME NEW j \in Indices
         PROVE  /\ currentWeights'[j] \in Int
                /\ currentWeights'[j] = M * servers[j].weight - q[j] * W
    <2>1. PICK w, x, y, c, d : /\ w = servers[j].weight /\ x = p[j] /\ y = q[j]
                               /\ c = currentWeights[j] /\ d = currentWeights'[j]
      OBVIOUS
    <2>2. /\ w \in Nat /\ x \in Nat /\ c \in Int /\ W \in Nat /\ c = N * w - x * W
          /\ d = (IF j = i THEN (c + w) - W ELSE c + w) /\ y = IF j = i THEN x + 1 ELSE x
      BY <1>2, <1>3, <1>9, <1>10, <1>11, <1>12, <1>16, <2>1 DEF ShareIInv
    <2>3. d \in Int
      BY <2>2
    <2>4. (N + 1) * w = N * w + w /\ (x + 1) * W = x * W + W /\ N * w \in Int /\ x * W \in Int
      BY <1>13, <2>2
    <2>5. d = (N + 1) * w - y * W
      BY <2>2, <2>4
    <2> QED
      BY <1>13, <2>1, <2>3, <2>5
  <1>18. currentWeights' \in [Indices -> Int]
    <2>1. currentWeights' = [j \in Indices |-> currentWeights'[j]]
      BY <1>8, <1>15
    <2> QED
      BY <1>17, <2>1
  <1>19. ASSUME M * g <= W, NEW j \in Indices
         PROVE  q[j] * g <= servers[j].weight
    <2>1. N * g <= W
      <3>1. N * g \in Int /\ (N + 1) * g = N * g + g /\ g \in Nat /\ W \in Nat
        BY <1>3, <1>12, <1>13
      <3> QED
        BY <1>13, <1>19, <3>1
    <2>2. CASE j # i
      BY <1>9, <1>10, <1>12, <2>1, <2>2
    <2>3. CASE j = i
      <3>1. PICK v \in [Indices -> Nat] :
                /\ \A k \in Indices : servers[k].weight = gcd * v[k]
                /\ Sum(v) \in Int /\ totalWeight = gcd * Sum(v)
        BY <1>1, InUnits
      <3>2. PICK V, x, u : V = Sum(v) /\ x = p[j] /\ u = v[j]
        OBVIOUS
      <3>3. V \in Int /\ W = g * V /\ W >= 1 /\ g \in Nat /\ g >= 1 /\ x \in Nat /\ u \in Nat
        BY <1>3, <1>12, <3>1, <3>2 DEF ShareIInv
      <3>4. V \in Nat
        BY <3>3
      <3>5. (N * (g * u) - x * (g * V)) + g * u >= g
        <4>1. Raised(1)[i] >= g
          BY <1>7, <1>12 DEF Reach
        <4>2. currentWeights[j] + servers[j].weight >= g
          BY <1>2, <1>7, <2>3, <4>1
        <4> QED
          BY <1>10, <1>12, <3>1, <3>2, <3>3, <4>2
      <3>6. (N + 1) * g <= g * V
        BY <1>13, <1>19, <3>3
      <3>7. (x + 1) * g <= g * u
        BY <1>14, <3>3, <3>4, <3>5, <3>6, OneOfItsWeight
      <3> QED
        BY <1>9, <1>12, <2>3, <3>1, <3>2, <3>7
    <2> QED
      BY <2>2, <2>3
  <1>20. totalWeight' = totalWeight /\ gcd' = gcd
    <2>1. \A j \in Indices : servers'[j].weight = servers[j].weight
      BY <1>1
    <2> QED
      BY <1>1, <2>1, SameWeights
  <1>21. InCycle'
    <2>1. Sum(picks)' = M
      BY <1>12
    <2> QED
      BY <1>1, <1>12, <1>17, <1>18, <1>19, <1>20, <2>1 DEF InCycle
  <1>22. ByLoad' /\ InTurn' /\ NobodyAhead'
    BY <1>1, <1>9 DEF ByLoad, InTurn, NobodyAhead, ShareIInv, Counting, Loads
  <1> QED
    BY <1>1, <1>9, <1>21, <1>22 DEF ShareIInv

-----------------------------------------------------------------------------
(* A release or a report: the nodes keep their shapes, a class that counts *)
(* connections is no longer calm.                                          *)
LEMMA ShareDisturbed ==
    ASSUME PositiveShares, ShareIInv, NodesTyped', SameShapes, Disturb,
           UNCHANGED <<currentIndex, currentWeights>>,
           kind \notin Counting => \A i \in Indices : servers'[i].connections = 0
    PROVE  ShareIInv'
  <1>1. kind' = kind /\ Indices' = Indices
    BY DEF SameShapes
  <1>2. calm' <=> kind \notin Counting /\ calm
    BY Zenon DEF Disturb
  <1>3. CASE kind \in Counting
    <2>1. ~ calm' /\ picks' = [i \in Indices |-> 0]
      BY <1>2, <1>3 DEF Disturb
    <2> QED
      BY <1>1, <1>3, <2>1
         DEF ShareIInv, ByLoad, InTurn, InCycle, NobodyAhead, Counting, Loads
  <1>4. CASE kind \notin Counting
    <2>1. calm /\ calm' /\ picks' = picks
      BY <1>2, <1>4 DEF Disturb, ShareIInv, ByLoad
    <2>2. InTurn' /\ InCycle' /\ NobodyAhead'
      BY <2>1, SharesSame
    <2>3. ByLoad'
      BY <1>1, <1>4, <2>1 DEF ByLoad, Counting
    <2> QED
      BY <1>1, <2>1, <2>2, <2>3 DEF ShareIInv
  <1> QED
    BY <1>3, <1>4

(* A release lowers a counter of a class that counts.                      *)
LEMMA ShareReleased ==
    ASSUME PositiveShares, ShareIInv, NodesTyped', NEW i \in Indices, releaseConnection(i)
    PROVE  ShareIInv'
  <1>1. /\ Indices \subseteq Nat /\ servers \in Seq(Node) /\ kind' = kind
        /\ \A j \in Indices : servers[j] \in Node
        /\ kind \notin Counting => \A j \in Indices : servers[j].connections = 0
    BY DEF ShareIInv, NodesTyped, ByLoad, Indices, releaseConnection
  <1>2. CASE Used(i) = {}
    <2>1. servers' = servers
      BY <1>2 DEF releaseConnection, Uncounted
    <2>2. SameShapes
      BY <1>1, <2>1 DEF SameShapes, Indices
    <2> QED
      BY <1>1, <2>1, <2>2, ShareDisturbed DEF releaseConnection
  <1>3. CASE Used(i) # {}
    <2>1. PICK k : k = Min(Used(i))
      OBVIOUS
    <2>2. k \in Used(i)
      <3>1. Used(i) \subseteq Nat
        BY <1>1 DEF Used, Of
      <3> QED
        BY <1>3, <2>1, <3>1, MinIn
    <2>3. PICK host : host = [servers[k] EXCEPT !.connections = @ - 1]
      OBVIOUS
    <2>4. servers' = [servers EXCEPT ![k] = host]
      BY <1>3, <2>1, <2>3 DEF releaseConnection
    <2>5. k \in Indices /\ servers[k] \in Node /\ servers[k].connections > 0
      BY <1>1, <2>2 DEF Used, Of
    <2>6. host.weight = servers[k].weight /\ host.processingPower = servers[k].processingPower
      BY <2>3, <2>5 DEF Node
    <2>7. Indices' = Indices /\ \A j \in Indices : servers'[j] = IF j = k THEN host ELSE servers[j]
      BY <1>1, <2>4 DEF Indices
    <2>8. SameShapes
      BY <1>1, <2>6, <2>7 DEF SameShapes
    <2>9. kind \in Counting
      <3>1. ASSUME kind \notin Counting PROVE servers[k].connections = 0
        BY <1>1, <2>5, <3>1
      <3> QED
        BY <2>5, <3>1
    <2> QED
      BY <2>8, <2>9, ShareDisturbed DEF releaseConnection
  <1> QED
    BY <1>2, <1>3

(* A report writes a counter; where nothing is counted it writes 0.        *)
LEMMA ShareReported ==
    ASSUME PositiveShares, ShareIInv, IInv, NodesTyped', NEW r \in Reporters,
           NEW time \in Times, updateServerStats(r, time)
    PROVE  ShareIInv'
  <1>1. /\ Indices \subseteq Nat /\ servers \in Seq(Node) /\ kind' = kind
        /\ \A j \in Indices : servers[j] \in Node
    <2>1. kind' = kind
      BY DEF updateServerStats
    <2> QED
      BY <2>1, ServersTyped DEF ShareIInv, NodesTyped
  <1>2. PICK i, k, n : /\ i = report[r].node /\ k = Min(Of(servers[i].address))
                       /\ n = report[r].connections
    OBVIOUS
  <1>3. i \in Indices
    BY <1>2 DEF IInv, ReportsTyped, updateServerStats
  <1>4. k \in Indices
    <2>1. PICK S : S = Of(servers[i].address)
      OBVIOUS
    <2>2. S \subseteq Nat /\ S # {} /\ S \subseteq Indices /\ k = Min(S)
      BY <1>1, <1>2, <1>3, <2>1 DEF Of
    <2> QED
      BY <2>2, MinIn
  <1>5. PICK host : host = [servers[k] EXCEPT !.connections = n, !.responseTime = time]
    OBVIOUS
  <1>6. servers' = [servers EXCEPT ![k].connections = n, ![k].responseTime = time]
    BY <1>2 DEF updateServerStats
  <1>7. servers' = [servers EXCEPT ![k] = host]
    BY <1>1, <1>4, <1>5, <1>6
  <1>8. /\ host.weight = servers[k].weight /\ host.processingPower = servers[k].processingPower
        /\ host.connections = n
    BY <1>1, <1>4, <1>5 DEF Node
  <1>9. Indices' = Indices /\ \A j \in Indices : servers'[j] = IF j = k THEN host ELSE servers[j]
    BY <1>1, <1>7 DEF Indices
  <1>10. SameShapes
    BY <1>1, <1>8, <1>9 DEF SameShapes
  <1>11. ASSUME kind \notin Counting, NEW j \in Indices PROVE servers'[j].connections = 0
    <2>1. n = 0 /\ servers[j].connections = 0
      BY <1>2, <1>11 DEF IInv, NothingCounted
    <2> QED
      BY <1>8, <1>9, <2>1
  <1> QED
    BY <1>10, <1>11, ShareDisturbed DEF updateServerStats

LEMMA ShareStep ==
    ASSUME PositiveShares, ShareIInv, IInv, NodesTyped', [Next]_vars
    PROVE  ShareIInv'
  <1>1. ASSUME NEW shape \in Shapes, addServer(shape) PROVE ShareIInv'
    BY <1>1, ShareAdded
  <1>2. ASSUME NEW shape \in DestinationShapes, NEW d \in Destinations, addDestinationServer(d, shape)
        PROVE  ShareIInv'
    BY <1>2, ShareUntouched DEF addDestinationServer
  <1>3. CASE selectServer
    <2>1. servers # <<>>
      BY <1>3 DEF selectServer
    <2>2. CASE selectRoundRobin
      BY <2>1, <2>2, ShareRound
    <2>3. CASE selectWeightedRoundRobin
      BY <2>1, <2>3, ShareWeighted
    <2>4. CASE selectRandom
      BY <2>4, ShareFree DEF selectRandom, Counting, Loads
    <2>5. CASE kind \in Loads /\ selectLeast
      BY <2>5, ShareLeast DEF Counting
    <2>6. ASSUME NEW d \in Destinations, selectHash(d) PROVE ShareIInv'
      <3>1. PICK i : i = (Hash[d] % Len(servers)) + 1
        OBVIOUS
      <3>2. CASE i \in Indices
        BY <2>6, <3>1, <3>2, ShareFree DEF selectHash, Counting, Loads
      <3>3. CASE i \notin Indices
        <4>1. /\ UNCHANGED <<kind, servers, currentIndex, currentWeights, held, calm>>
              /\ picks' = IF calm THEN [picks EXCEPT ![i] = @ + 1] ELSE picks
          BY <2>6, <3>1 DEF selectHash, Hand, Uncounted, Counting, Loads
        <4>2. picks' = picks
          BY <3>3, <4>1 DEF ShareIInv
        <4> QED
          BY <4>1, <4>2, ShareUntouched
      <3> QED
        BY <3>2, <3>3
    <2>7. ASSUME NEW d \in Destinations, selectLBLCR(d) PROVE ShareIInv'
      <3>1. CASE selectRegistered(d)
        BY <3>1, ShareUntouched DEF selectRegistered
      <3>2. CASE selectLeast
        BY <2>7, <3>2, ShareLeast DEF selectLBLCR, Counting
      <3> QED
        BY <2>7, <3>1, <3>2 DEF selectLBLCR
    <2> QED
      BY <1>3, <2>2, <2>3, <2>4, <2>5, <2>6, <2>7 DEF selectServer
  <1>4. ASSUME NEW i \in Indices, releaseConnection(i) PROVE ShareIInv'
    BY <1>4, ShareReleased
  <1>5. ASSUME NEW r \in Reporters, NEW i \in Indices, ReadConnections(r, i)
        PROVE  ShareIInv'
    BY <1>5, ShareUntouched DEF ReadConnections
  <1>6. ASSUME NEW r \in Reporters, NEW time \in Times, updateServerStats(r, time)
        PROVE  ShareIInv'
    BY <1>6, ShareReported
  <1>7. CASE UNCHANGED vars
    BY <1>7, ShareUntouched DEF vars
  <1> QED
    BY <1>1, <1>2, <1>3, <1>4, <1>5, <1>6, <1>7 DEF Next

(* What the invariant says of a cycle that is complete.                    *)
LEMMA CycleIsClosed == PositiveShares /\ ShareIInv => CycleClosed
  <1> SUFFICES ASSUME PositiveShares, ShareIInv, kind = "WEIGHTED_ROUND_ROBIN", servers # <<>>
               PROVE  /\ Reach(1) # {} /\ Sum(currentWeights) = 0
                      /\ Sum(picks) * gcd = totalWeight =>
                             \A i \in Indices : picks[i] * gcd = servers[i].weight
    BY DEF CycleClosed
  <1>1. Reach(1) # {}
    BY FirstPass
  <1>2. NodesTyped /\ picks \in [Indices -> Nat] /\ currentWeights \in [Indices -> Int]
    BY DEF ShareIInv, InCycle
  <1>3. PICK S, w, p, c, W, N, g :
            /\ S = Indices /\ w = Weights /\ p = picks /\ c = currentWeights
            /\ W = totalWeight /\ N = Sum(picks) /\ g = gcd
    OBVIOUS
  <1>4. /\ IsFiniteSet(S) /\ w \in [S -> Nat] /\ p \in [S -> Nat] /\ c \in [S -> Int]
        /\ W = Sum(w) /\ N = Sum(p) /\ \A i \in S : w[i] = servers[i].weight
    BY <1>2, <1>3, Shapely DEF Weights
  <1>5. g \in Nat /\ W \in Nat
    BY <1>2, <1>3, InUnits, TotalPositive
  <1>6. Sum(currentWeights) = 0
    <2>1. Owed(c, N, w, p, W, S)
      BY <1>3, <1>4 DEF ShareIInv, InCycle, Owed
    <2>2. Sum(c) = 0
      BY <1>4, <2>1, WeightsEven
    <2> QED
      BY <1>3, <2>2
  <1>7. ASSUME N * g = W PROVE \A i \in S : p[i] * g = w[i]
    <2>0. Sum(picks) * gcd <= totalWeight
      BY <1>3, <1>5, <1>7
    <2>1. \A i \in S : p[i] * g <= w[i]
      BY <1>3, <1>4, <2>0 DEF ShareIInv, InCycle
    <2>2. PICK e : e = [i \in S |-> g * p[i]]
      OBVIOUS
    <2>3. ASSUME NEW i \in S PROVE g * p[i] \in Int /\ g * p[i] = p[i] * g /\ e[i] = g * p[i]
      BY <1>4, <1>5, <2>2
    <2>4. /\ e \in [S -> Int] /\ w \in [S -> Int] /\ p \in [S -> Int]
          /\ \A i \in S : e[i] <= w[i]
      BY <1>4, <2>1, <2>2, <2>3
    <2>5. Scales(e, g, p, S)
      BY <2>3 DEF Scales
    <2>6. Sum(e) = g * Sum(p) /\ Sum(p) \in Int
      BY <1>4, <1>5, <2>4, <2>5, SumScaled
    <2>7. Sum(e) = Sum(w)
      BY <1>4, <1>5, <1>7, <2>6
    <2>8. \A i \in S : e[i] = w[i]
      BY <1>4, <2>4, <2>7, SumBelow
    <2> QED
      BY <2>3, <2>8
  <1> QED
    BY <1>1, <1>3, <1>4, <1>6, <1>7

(* With positive weights and powers every server gets its share: nobody is *)
(* ahead of it under round robin and the classes that choose by load, and  *)
(* the weighted round robin, whose loop ends in one pass, gives in each    *)
(* cycle everyone its weight.  For any servers and any number of calls.    *)
THEOREM SharesFair == PositiveShares => (Spec => []SharesKept)
  <1> SUFFICES ASSUME PositiveShares
               PROVE  Spec => []SharesKept
    OBVIOUS
  <1>1. Init => IInv /\ ShareIInv
    BY InitIInv, InitShare
  <1>2. IInv /\ ShareIInv /\ [Next]_vars => IInv' /\ ShareIInv'
    <2> SUFFICES ASSUME IInv, ShareIInv, [Next]_vars
                 PROVE  IInv' /\ ShareIInv'
      OBVIOUS
    <2>1. IInv'
      BY StepIInv
    <2>2. NodesTyped'
      BY <2>1 DEF IInv
    <2> QED
      BY <2>1, <2>2, ShareStep
  <1>3. ShareIInv => SharesKept
    BY CycleIsClosed DEF SharesKept, ShareIInv
  <1> QED
    BY <1>1, <1>2, <1>3, PTL DEF Spec

-----------------------------------------------------------------------------
(* The ring: any capacity, any lengths of writes and reads.                *)

(* Where the stream ends, the write in progress included.                  *)
Frontier == m_uWriteOffset + writing

LapOf(n) == (n \div Capacity) * Capacity

(* b is where the write that has the byte at offset o begins.              *)
Begins(b, o) == b \in ends /\ b <= o /\ \A e \in ends : e <= o => e <= b

RingTyped ==
    /\ mem \in [0 .. Capacity -> Nat]
    /\ m_uWriteOffset \in Nat /\ m_uReadOffset \in Nat
    /\ writing \in 0 .. MaxLen
    /\ \/ reader = NoRead
       \/ \E n \in Nat : \/ reader = [pc |-> "read", size |-> n]
                        \/ reader = [pc |-> "lent", size |-> n]
                        \/ \E x : reader = [pc |-> "copied", size |-> n, bytes |-> x]
    /\ ends \subseteq 0 .. m_uWriteOffset
    /\ 0 \in ends /\ m_uWriteOffset \in ends
    /\ lapped \in BOOLEAN /\ broken \in BOOLEAN

(* A write is no longer than the mapping.                                  *)
WritesFit == \A b, o \in Nat : Begins(b, o) /\ o < Frontier => o < b + Capacity

(* Where a byte is until it is written over: at its offset in the lap in   *)
(* which its write began, or one place before its offset in the next lap.  *)
Stored ==
    \A b, o \in Nat : Begins(b, o) /\ o < Frontier =>
        /\ o - LapOf(b) <= Capacity /\ Frontier <= o + Capacity =>
               mem[o - LapOf(b)] = o + 1
        /\ o - LapOf(b) > Capacity /\ Frontier < o + Capacity =>
               mem[o - LapOf(b) - Capacity - 1] = o + 1

(* The reader is behind the writer, by less than a lap if not lapped.      *)
Behind ==
    /\ ~ lapped => Frontier <= m_uReadOffset + Capacity
    /\ reader # NoRead => m_uReadOffset + reader.size <= m_uWriteOffset
    /\ reader.pc = "lent" => Together(reader.size)

CopyRight ==
    reader.pc = "copied" /\ ~ lapped /\ StartsInPlace /\ EndsWithItsWrite =>
        reader.bytes = [i \in 1 .. reader.size |-> m_uReadOffset + i]

RingIInv == RingTyped /\ WritesFit /\ Stored /\ Behind /\ CopyRight /\ BreaksAtEndOnly

-----------------------------------------------------------------------------
LEMMA Divides ==
    ASSUME NEW n \in Nat, NEW c \in Nat, c >= 1
    PROVE  n \div c \in Nat /\ n % c \in 0 .. c - 1 /\ n = c * (n \div c) + (n % c)
  <1>1. n \div c \in Nat
    OBVIOUS
  <1>2. n % c \in 0 .. c - 1
    OBVIOUS
  <1>3. n = c * (n \div c) + (n % c)
    OBVIOUS
  <1> QED
    BY <1>1, <1>2, <1>3

(* Laps begin at the multiples of the capacity.                            *)
LEMMA Laps ==
    ASSUME NEW m \in Nat, NEW n \in Nat
    PROVE  /\ LapOf(n) \in Nat /\ LapOf(n) <= n /\ n < LapOf(n) + Capacity
           /\ n % Capacity = n - LapOf(n)
           /\ m <= n => \/ LapOf(n) = LapOf(m)
                        \/ LapOf(n) = LapOf(m) + Capacity
                        \/ LapOf(n) >= LapOf(m) + 2 * Capacity
  <1>1. Capacity \in Nat /\ Capacity >= 1
    BY MapFileAssumption
  <1> DEFINE p == m \div Capacity
             q == n \div Capacity
  <1>2. /\ p \in Nat /\ q \in Nat
        /\ n % Capacity \in 0 .. Capacity - 1 /\ m % Capacity \in 0 .. Capacity - 1
        /\ n = Capacity * q + (n % Capacity) /\ m = Capacity * p + (m % Capacity)
    BY <1>1, Divides
  <1> HIDE DEF p, q
  <1>3. Capacity * q = q * Capacity /\ Capacity * p = p * Capacity
        /\ q * Capacity \in Nat /\ p * Capacity \in Nat
    BY <1>1, <1>2
  <1>4. ASSUME m <= n PROVE q - p \in Nat
    <2>1. CASE q < p
      <3>1. (q + 1) * Capacity <= p * Capacity
        BY <1>1, <1>2, <2>1
      <3>2. (q + 1) * Capacity = q * Capacity + Capacity
        BY <1>1, <1>2
      <3>3. PICK x, y : x = q * Capacity /\ y = p * Capacity
        OBVIOUS
      <3>4. x \in Nat /\ y \in Nat /\ x + Capacity <= y
        BY <1>3, <3>1, <3>2, <3>3
      <3>5. n < x + Capacity /\ y <= m
        BY <1>1, <1>2, <1>3, <3>3
      <3> QED
        BY <1>1, <1>4, <3>4, <3>5
    <2> QED
      BY <1>2, <2>1
  <1>5. ASSUME m <= n
        PROVE  \/ q * Capacity = p * Capacity
               \/ q * Capacity = p * Capacity + Capacity
               \/ q * Capacity >= p * Capacity + 2 * Capacity
    <2>1. q = p \/ q = p + 1 \/ q >= p + 2
      BY <1>2, <1>4, <1>5
    <2>2. (p + 1) * Capacity = p * Capacity + Capacity
      BY <1>1, <1>2
    <2>3. q >= p + 2 => q * Capacity >= (p + 2) * Capacity
      BY <1>1, <1>2
    <2>4. (p + 2) * Capacity = p * Capacity + 2 * Capacity
      BY <1>1, <1>2
    <2> QED
      BY <2>1, <2>2, <2>3, <2>4
  <1> QED
    BY <1>1, <1>2, <1>3, <1>5 DEF LapOf, p, q

(* Every byte belongs to some write.                                       *)
LEMMA SomeWrite ==
    ASSUME RingTyped, NEW o \in Nat
    PROVE  \E b \in Nat : Begins(b, o)
  <1> DEFINE T == {o - e : e \in {x \in ends : x <= o}}
  <1>1. ends \subseteq Nat /\ 0 \in ends
    BY DEF RingTyped
  <1>2. T \subseteq Nat /\ o - 0 \in T
    BY <1>1
  <1>3. PICK x \in T : \A y \in T : x <= y
    <2> HIDE DEF T
    <2> QED
      BY <1>2, LeastIn
  <1>4. PICK b \in ends : b <= o /\ x = o - b
    BY <1>3
  <1>5. ASSUME NEW e \in ends, e <= o PROVE e <= b
    <2>1. o - e \in T /\ e \in Nat /\ b \in Nat
      BY <1>1, <1>5
    <2> HIDE DEF T
    <2> QED
      BY <1>3, <1>4, <2>1
  <1> QED
    BY <1>1, <1>4, <1>5 DEF Begins

LEMMA InitRing == RingInit => RingIInv
  <1> SUFFICES ASSUME RingInit PROVE RingIInv
    OBVIOUS
  <1>1. RingTyped
    <2>1. mem \in [0 .. Capacity -> Nat]
      BY DEF RingInit
    <2>2. writing \in 0 .. MaxLen
      BY MapFileAssumption DEF RingInit
    <2>3. ends = {0} /\ m_uWriteOffset = 0 /\ m_uReadOffset = 0 /\ reader = NoRead
      BY DEF RingInit
    <2>4. lapped \in BOOLEAN /\ broken \in BOOLEAN
      BY DEF RingInit
    <2> QED
      BY <2>1, <2>2, <2>3, <2>4 DEF RingTyped
  <1>2. Frontier = 0 /\ \A o \in Nat : ~ (o < Frontier)
    BY DEF RingInit, Frontier
  <1>3. WritesFit /\ Stored
    BY <1>2 DEF WritesFit, Stored
  <1>4. Behind /\ CopyRight /\ BreaksAtEndOnly
    BY <1>2, MapFileAssumption DEF RingInit, Behind, CopyRight, BreaksAtEndOnly, NoRead
  <1> QED
    BY <1>1, <1>3, <1>4 DEF RingIInv

(* The stream, what the mapping has of it, and where writes begin stay.    *)
LEMMA StaysStored ==
    ASSUME RingIInv, Frontier' = Frontier, mem' = mem,
           \A e : e <= m_uWriteOffset => (e \in ends' <=> e \in ends),
           \A e \in ends' \ ends : e >= Frontier
    PROVE  WritesFit' /\ Stored'
  <1>1. \A b, o \in Nat : Begins(b, o)' /\ o < Frontier => Begins(b, o)
    BY DEF Begins, RingIInv, RingTyped, Frontier
  <1> QED
    BY <1>1 DEF WritesFit, Stored, RingIInv

(* A place that a write of len bytes writes over had a byte that was       *)
(* written a lap ago at least: more, if this byte was not put back a place.*)
LEMMA WriteStored ==
    ASSUME RingIInv, NEW len \in 1 .. MaxLen, writeMap(len)
    PROVE  WritesFit' /\ Stored'
  <1>1. PICK W, C, L : W = m_uWriteOffset /\ C = Capacity /\ L = LapOf(W)
    OBVIOUS
  <1>2. /\ W \in Nat /\ C \in Nat /\ C >= 1 /\ len \in Nat /\ 1 <= len /\ len <= C
        /\ W \in ends /\ ends \subseteq 0 .. W
        /\ mem \in [0 .. C -> Nat]
    BY <1>1, MapFileAssumption DEF RingIInv, RingTyped
  <1>3. L \in Nat /\ L <= W /\ W < L + C /\ W % C = W - L
    BY <1>1, <1>2, Laps
  <1>4. Frontier = W /\ Frontier' = W + len /\ ends' = ends
    BY <1>1, <1>2 DEF writeMap, Frontier
  <1>5. \A i \in 0 .. C :
            mem'[i] = IF W - L <= i /\ i < W - L + len THEN W + i - (W - L) + 1
                      ELSE IF i + (C - (W - L) + 1) < len THEN W + i + (C - (W - L) + 1) + 1
                      ELSE IF i + (C - (W - L) + 1) = len THEN 0
                      ELSE mem[i]
    BY <1>1, <1>3 DEF writeMap, Written, ToEnd
  <1>6. \A b, o \in Nat : Begins(b, o)' <=> Begins(b, o)
    BY <1>4 DEF Begins
  <1>7. \A b, o \in Nat : Begins(b, o) /\ o >= W => b = W
    BY <1>2 DEF Begins
  <1>8. \A b, o \in Nat : Begins(b, o) /\ o < W => o < b + C
    BY <1>1, <1>4 DEF RingIInv, WritesFit
  <1>9. WritesFit'
    <2> SUFFICES ASSUME NEW b \in Nat, NEW o \in Nat, Begins(b, o), o < W + len
                 PROVE  o < b + C
      BY <1>1, <1>4, <1>6 DEF WritesFit
    <2> QED
      BY <1>2, <1>7, <1>8
  <1>10. ASSUME NEW b \in Nat, NEW o \in Nat, Begins(b, o), o < W + len
         PROVE  /\ o - LapOf(b) <= C /\ W + len <= o + C => mem'[o - LapOf(b)] = o + 1
                /\ o - LapOf(b) > C /\ W + len < o + C => mem'[o - LapOf(b) - C - 1] = o + 1
    <2>1. PICK K : K = LapOf(b)
      OBVIOUS
    <2>2. K \in Nat /\ K <= b /\ b < K + C /\ b <= o /\ o < b + C
      <3>1. K \in Nat /\ K <= b /\ b < K + C
        BY <1>1, <2>1, Laps
      <3>2. b <= o
        BY <1>10 DEF Begins
      <3>3. o < b + C
        BY <1>2, <1>7, <1>8, <1>10
      <3> QED
        BY <3>1, <3>2, <3>3
    <2>3. CASE o >= W
      <3>1. b = W /\ K = L
        BY <1>1, <1>7, <1>10, <2>1, <2>3
      <3>2. CASE o - K <= C
        <4>1. o - K \in 0 .. C /\ o - K - (W - L) = o - W /\ o - K < W - L + len
          BY <1>2, <1>3, <1>10, <2>2, <2>3, <3>1, <3>2
        <4>2. mem'[o - K] = W + (o - K) - (W - L) + 1
          BY <1>2, <1>3, <1>5, <2>3, <3>1, <4>1
        <4> QED
          BY <1>2, <1>3, <2>1, <2>2, <3>1, <3>2, <4>2
      <3>3. CASE o - K > C
        <4>1. PICK i : i = o - K - C - 1
          OBVIOUS
        <4>2. i \in 0 .. C /\ i < W - L /\ i + (C - (W - L) + 1) = o - W
          BY <1>2, <1>3, <2>2, <2>3, <3>1, <3>3, <4>1
        <4>3. ~ (W - L <= i) /\ i + (C - (W - L) + 1) < len
          BY <1>2, <1>3, <1>10, <2>3, <4>2
        <4>4. mem'[i] = W + i + (C - (W - L) + 1) + 1
          BY <1>5, <4>2, <4>3
        <4>5. mem'[i] = o + 1
          BY <1>2, <1>3, <4>2, <4>4
        <4> QED
          BY <1>2, <2>1, <2>2, <3>3, <4>1, <4>5
      <3> QED
        BY <1>2, <2>2, <3>2, <3>3
    <2>4. CASE o < W
      <3>1. b <= W
        BY <2>2, <2>4, <1>2
      <3>2. L = K \/ L = K + C \/ L >= K + 2 * C
        BY <1>1, <1>2, <2>1, <3>1, Laps
      <3>3. /\ o - K <= C /\ W <= o + C => mem[o - K] = o + 1
            /\ o - K > C /\ W < o + C => mem[o - K - C - 1] = o + 1
        BY <1>1, <1>4, <1>10, <2>1, <2>4 DEF RingIInv, Stored
      <3>4. ASSUME o - K <= C, W + len <= o + C PROVE mem'[o - K] = o + 1
        <4>1. mem[o - K] = o + 1 /\ o - K \in 0 .. C
          BY <1>2, <2>2, <3>3, <3>4
        <4>2. ~ (W - L <= o - K /\ o - K < W - L + len)
          BY <1>2, <1>3, <2>2, <2>4, <3>2, <3>4
        <4>3. ~ (o - K + (C - (W - L) + 1) <= len)
          BY <1>2, <1>3, <2>2, <2>4, <3>2, <3>4
        <4> QED
          BY <1>2, <1>3, <1>5, <4>1, <4>2, <4>3
      <3>5. ASSUME o - K > C, W + len < o + C PROVE mem'[o - K - C - 1] = o + 1
        <4>1. PICK i : i = o - K - C - 1
          OBVIOUS
        <4>2. mem[i] = o + 1 /\ i \in 0 .. C
          BY <1>2, <2>2, <3>3, <3>5, <4>1
        <4>3. ~ (W - L <= i /\ i < W - L + len)
          BY <1>2, <1>3, <2>2, <2>4, <3>2, <3>5, <4>1
        <4>4. ~ (i + (C - (W - L) + 1) <= len)
          BY <1>2, <1>3, <2>2, <2>4, <3>2, <3>5, <4>1
        <4>5. mem'[i] = mem[i]
          BY <1>2, <1>3, <1>5, <4>2, <4>3, <4>4
        <4> QED
          BY <4>1, <4>2, <4>5
      <3> QED
        BY <2>1, <3>4, <3>5
    <2> QED
      BY <1>2, <2>3, <2>4
  <1>11. Stored'
    BY <1>1, <1>4, <1>6, <1>10 DEF Stored, LapOf
  <1> QED
    BY <1>9, <1>11

-----------------------------------------------------------------------------
(* The bytes between the offsets of the reader, if it does not go on past  *)
(* a write that went round and did not begin in one, and was not lapped.   *)
LEMMA Legible ==
    ASSUME RingIInv, reader # NoRead, ~ lapped, StartsInPlace, EndsWithItsWrite,
           NEW o \in Nat, m_uReadOffset <= o, o < m_uReadOffset + reader.size
    PROVE  /\ o - Lap <= Capacity => mem[o - Lap] = o + 1
           /\ o - Lap > Capacity => mem[o - Lap - Capacity - 1] = o + 1
  <1>1. PICK R, W, C, z : /\ R = m_uReadOffset /\ W = m_uWriteOffset
                          /\ C = Capacity /\ z = reader.size
    OBVIOUS
  <1>2. /\ R \in Nat /\ W \in Nat /\ C \in Nat /\ C >= 1 /\ z \in Nat
        /\ ends \subseteq Nat /\ Frontier \in Nat /\ W <= Frontier
    <2>1. z \in Nat
      BY <1>1 DEF RingIInv, RingTyped
    <2> QED
      BY <1>1, <2>1, MapFileAssumption DEF RingIInv, RingTyped, Frontier
  <1>3. R + z <= W /\ Frontier <= R + C
    BY <1>1 DEF RingIInv, Behind
  <1>4. Lap = LapOf(R) /\ NextLap = Lap + C
    BY <1>1 DEF Lap, LapOf, NextLap
  <1>5. PICK k : k = Lap
    OBVIOUS
  <1>6. k \in Nat /\ k <= R /\ R < k + C
    BY <1>1, <1>2, <1>4, <1>5, Laps
  <1>7. PICK b \in Nat : Begins(b, o)
    BY SomeWrite DEF RingIInv
  <1>8. k <= b /\ b <= o
    <2>1. PICK s \in ends : k <= s /\ s <= R
      BY <1>1, <1>5 DEF StartsInPlace
    <2>2. s <= b /\ b <= o
      BY <1>1, <1>2, <1>7, <2>1 DEF Begins
    <2> QED
      BY <1>2, <1>6, <2>1, <2>2
  <1>9. b < k + C
    <2> SUFFICES ASSUME b >= k + C PROVE FALSE
      BY <1>2, <1>6
    <2>1. R + z > k + C /\ b < R + z /\ b \in ends
      BY <1>1, <1>2, <1>6, <1>7, <1>8 DEF Begins
    <2> QED
      BY <1>1, <1>4, <1>5, <2>1 DEF EndsWithItsWrite
  <1>10. LapOf(b) = k
    <2>1. LapOf(b) \in Nat /\ LapOf(b) <= b /\ b < LapOf(b) + C
      BY <1>1, Laps
    <2>2. CASE R <= b
      <3>1. LapOf(b) = k \/ LapOf(b) = k + C \/ LapOf(b) >= k + 2 * C
        BY <1>1, <1>2, <1>4, <1>5, <2>2, Laps
      <3> QED
        BY <1>2, <1>6, <1>9, <2>1, <3>1
    <2>3. CASE b < R
      <3>1. k = LapOf(b) \/ k = LapOf(b) + C \/ k >= LapOf(b) + 2 * C
        BY <1>1, <1>2, <1>4, <1>5, <2>3, Laps
      <3> QED
        BY <1>2, <1>6, <1>8, <2>1, <3>1
    <2> QED
      BY <1>2, <2>2, <2>3
  <1>11. o < Frontier /\ Frontier <= o + C /\ (o - k > C => Frontier < o + C)
    BY <1>1, <1>2, <1>3, <1>6
  <1>12. /\ o - k <= C => mem[o - k] = o + 1
         /\ o - k > C => mem[o - k - C - 1] = o + 1
    BY <1>1, <1>7, <1>10, <1>11 DEF RingIInv, Stored
  <1> QED
    BY <1>1, <1>5, <1>12

(* Where the reader is in the mapping.                                     *)
LEMMA PlaceIs ==
    ASSUME RingTyped
    PROVE  /\ Place \in Nat /\ Place = m_uReadOffset - Lap
           /\ Lap \in Nat /\ Lap <= m_uReadOffset /\ m_uReadOffset < Lap + Capacity
  <1>1. m_uReadOffset \in Nat
    BY DEF RingTyped
  <1>2. Lap = LapOf(m_uReadOffset)
    BY DEF Lap, LapOf
  <1>3. /\ LapOf(m_uReadOffset) \in Nat /\ LapOf(m_uReadOffset) <= m_uReadOffset
        /\ m_uReadOffset < LapOf(m_uReadOffset) + Capacity
        /\ m_uReadOffset % Capacity = m_uReadOffset - LapOf(m_uReadOffset)
    BY <1>1, Laps
  <1> QED
    BY <1>1, <1>2, <1>3 DEF Place

(* The caller of readMap who got a place in the mapping.                   *)
LEMMA LentRight ==
    ASSUME RingIInv, reader.pc = "lent", ~ lapped, StartsInPlace, EndsWithItsWrite,
           NEW i \in 1 .. reader.size
    PROVE  mem[Place + i - 1] = m_uReadOffset + i
  <1>1. PICK R, C, z, k : R = m_uReadOffset /\ C = Capacity /\ z = reader.size /\ k = Lap
    OBVIOUS
  <1>2. R \in Nat /\ C \in Nat /\ z \in Nat /\ i \in Nat /\ 1 <= i /\ i <= z /\ reader # NoRead
    <2>1. z \in Nat /\ reader # NoRead
      BY <1>1 DEF RingIInv, RingTyped, NoRead
    <2> QED
      BY <1>1, <2>1, MapFileAssumption DEF RingIInv, RingTyped
  <1>3. k \in Nat /\ k <= R /\ Place = R - k /\ R - k + z < C
    BY <1>1, PlaceIs DEF RingIInv, Together, Behind
  <1>4. PICK o : o = R + i - 1
    OBVIOUS
  <1>5. o \in Nat /\ R <= o /\ o < R + z /\ o - k <= C
    BY <1>2, <1>3, <1>4
  <1>6. mem[o - k] = o + 1
    BY <1>1, <1>2, <1>5, Legible
  <1>7. o - k = R - k + i - 1 /\ o + 1 = R + i
    BY <1>2, <1>3, <1>4
  <1> QED
    BY <1>1, <1>3, <1>6, <1>7

(* The caller of readMap who got a copy.                                   *)
LEMMA CopiedRight ==
    ASSUME RingIInv, reader.pc = "read", ~ Together(reader.size), reader.size >= ToEnd(Place),
           ~ lapped, StartsInPlace, EndsWithItsWrite, NEW i \in 1 .. reader.size
    PROVE  Copied(reader.size)[i] = m_uReadOffset + i
  <1>1. PICK R, C, z, k : R = m_uReadOffset /\ C = Capacity /\ z = reader.size /\ k = Lap
    OBVIOUS
  <1>2. R \in Nat /\ C \in Nat /\ z \in Nat /\ i \in Nat /\ 1 <= i /\ i <= z /\ reader # NoRead
    <2>1. z \in Nat /\ reader # NoRead
      BY <1>1 DEF RingIInv, RingTyped, NoRead
    <2> QED
      BY <1>1, <2>1, MapFileAssumption DEF RingIInv, RingTyped
  <1>3. k \in Nat /\ k <= R /\ R < k + C /\ Place = R - k /\ ToEnd(Place) = C - (R - k) + 1
    BY <1>1, PlaceIs DEF RingIInv, ToEnd
  <1>4. PICK o : o = R + i - 1
    OBVIOUS
  <1>5. o \in Nat /\ R <= o /\ o < R + z /\ o + 1 = R + i
    BY <1>2, <1>4
  <1>6. /\ o - k <= C => mem[o - k] = o + 1
        /\ o - k > C => mem[o - k - C - 1] = o + 1
    BY <1>1, <1>2, <1>5, Legible
  <1>7. Copied(reader.size)[i] = IF i <= ToEnd(Place) THEN mem[Place + i - 1]
                                 ELSE mem[i - ToEnd(Place) - 1]
    BY <1>1 DEF Copied
  <1>8. CASE i <= ToEnd(Place)
    <2>1. o - k <= C /\ Place + i - 1 = o - k
      BY <1>2, <1>3, <1>4, <1>8
    <2> QED
      BY <1>1, <1>5, <1>6, <1>7, <1>8, <2>1
  <1>9. CASE ~ (i <= ToEnd(Place))
    <2>1. o - k > C /\ i - ToEnd(Place) - 1 = o - k - C - 1
      BY <1>2, <1>3, <1>4, <1>9
    <2> QED
      BY <1>1, <1>5, <1>6, <1>7, <1>9, <2>1
  <1> QED
    BY <1>8, <1>9

-----------------------------------------------------------------------------
(* What is copied stays right: writes that end later do not concern it.    *)
LEMMA CopyStays ==
    ASSUME RingIInv, UNCHANGED <<m_uReadOffset, reader>>, lapped => lapped',
           ends \subseteq ends', \A e \in ends' \ ends : e \in Nat /\ e > m_uWriteOffset
    PROVE  CopyRight'
  <1> SUFFICES ASSUME reader.pc = "copied", ~ lapped', StartsInPlace', EndsWithItsWrite'
               PROVE  reader.bytes = [i \in 1 .. reader.size |-> m_uReadOffset + i]
    BY DEF CopyRight
  <1>1. /\ m_uReadOffset \in Nat /\ m_uWriteOffset \in Nat /\ reader.size \in Nat
        /\ m_uReadOffset + reader.size <= m_uWriteOffset
    <2>1. reader # NoRead
      BY DEF NoRead
    <2> QED
      BY <2>1 DEF RingIInv, RingTyped, Behind
  <1>2. StartsInPlace
    <2>1. PICK b \in ends' : Lap <= b /\ b <= m_uReadOffset
      BY DEF StartsInPlace, Lap
    <2>2. b \in ends
      BY <1>1, <2>1
    <2> QED
      BY <2>1, <2>2 DEF StartsInPlace
  <1>3. EndsWithItsWrite
    BY DEF EndsWithItsWrite, NextLap, Lap
  <1> QED
    BY <1>2, <1>3 DEF CopyRight, RingIInv

LEMMA WriteRing ==
    ASSUME RingIInv, NEW len \in 1 .. MaxLen, writeMap(len), ~ broken
    PROVE  RingIInv'
  <1>1. WritesFit' /\ Stored'
    BY WriteStored
  <1>2. /\ UNCHANGED <<m_uWriteOffset, m_uReadOffset, reader, ends, broken>>
        /\ writing = 0 /\ writing' = len
        /\ lapped' = (lapped \/ m_uWriteOffset + len > m_uReadOffset + Capacity)
    BY DEF writeMap
  <1>3. m_uWriteOffset \in Nat /\ m_uReadOffset \in Nat /\ Capacity \in Nat /\ len \in Nat
        /\ Capacity >= 1 /\ len <= Capacity
    BY MapFileAssumption DEF RingIInv, RingTyped
  <1>4. mem' \in [0 .. Capacity -> Nat]
    <2>1. m_uWriteOffset % Capacity \in 0 .. Capacity
      BY <1>3
    <2>2. PICK pos \in 0 .. Capacity : pos = m_uWriteOffset % Capacity
      BY <2>1
    <2>3. mem' = Written(pos, len) /\ mem \in [0 .. Capacity -> Nat]
      BY <2>2 DEF writeMap, RingIInv, RingTyped
    <2>4. ASSUME NEW i \in 0 .. Capacity
          PROVE  (IF pos <= i /\ i < pos + len THEN m_uWriteOffset + i - pos + 1
                  ELSE IF i + ToEnd(pos) < len THEN m_uWriteOffset + i + ToEnd(pos) + 1
                  ELSE IF i + ToEnd(pos) = len THEN 0 ELSE mem[i]) \in Nat
      BY <1>3, <2>3 DEF ToEnd
    <2> QED
      BY <2>3, <2>4 DEF Written
  <1>5. RingTyped'
    <2>1. lapped' \in BOOLEAN
      BY <1>2
    <2>2. broken' \in BOOLEAN
      BY <1>2 DEF RingIInv, RingTyped
    <2> QED
      BY <1>2, <1>4, <2>1, <2>2 DEF RingIInv, RingTyped
  <1>6. Behind'
    <2>1. Frontier' = m_uWriteOffset + len
      BY <1>2 DEF Frontier
    <2>2. ~ lapped' => Frontier' <= m_uReadOffset' + Capacity
      <3>1. ~ lapped' => ~ (m_uWriteOffset + len > m_uReadOffset + Capacity)
        BY <1>2, Zenon
      <3>2. PICK w, p : w = m_uWriteOffset /\ p = m_uReadOffset
        OBVIOUS
      <3>3. ~ (w + len > p + Capacity) => w + len <= p + Capacity
        BY <1>3, <3>2
      <3>4. m_uReadOffset' = p
        BY <1>2, <3>2
      <3> QED
        BY <2>1, <3>1, <3>2, <3>3, <3>4
    <2>3. reader' # NoRead => m_uReadOffset' + reader'.size <= m_uWriteOffset'
      BY <1>2 DEF RingIInv, Behind
    <2>4. reader'.pc = "lent" => Together(reader.size)'
      BY <1>2 DEF RingIInv, Behind, Together, Place
    <2> QED
      BY <2>2, <2>3, <2>4 DEF Behind
  <1>7. CopyRight'
    BY <1>2, CopyStays
  <1>8. BreaksAtEndOnly'
    BY <1>2 DEF BreaksAtEndOnly
  <1> QED
    BY <1>1, <1>5, <1>6, <1>7, <1>8 DEF RingIInv

LEMMA AdvanceRing ==
    ASSUME RingIInv, Advance, ~ broken
    PROVE  RingIInv'
  <1>1. /\ UNCHANGED <<mem, m_uReadOffset, reader, lapped, broken>>
        /\ writing > 0 /\ writing' = 0 /\ m_uWriteOffset' = m_uWriteOffset + writing
        /\ ends' = ends \cup {m_uWriteOffset + writing}
    BY DEF Advance
  <1>2. m_uWriteOffset \in Nat /\ m_uReadOffset \in Nat /\ Capacity \in Nat /\ writing \in Nat
        /\ 0 \in 0 .. MaxLen /\ ends \subseteq 0 .. m_uWriteOffset
    BY MapFileAssumption DEF RingIInv, RingTyped
  <1>3. Frontier' = Frontier
    BY <1>1, <1>2 DEF Frontier
  <1>4. WritesFit' /\ Stored'
    BY <1>1, <1>2, <1>3, StaysStored DEF Frontier
  <1>5. RingTyped'
    <2>1. lapped' \in BOOLEAN /\ broken' \in BOOLEAN
      BY <1>1 DEF RingIInv, RingTyped
    <2>2. /\ ends' \subseteq 0 .. m_uWriteOffset' /\ 0 \in ends' /\ m_uWriteOffset' \in ends'
          /\ m_uWriteOffset' \in Nat
      BY <1>1, <1>2 DEF RingIInv, RingTyped
    <2> QED
      BY <1>1, <1>2, <2>1, <2>2 DEF RingIInv, RingTyped
  <1>6. Behind'
    <2>1. reader # NoRead => reader.size \in Nat
      BY DEF RingIInv, RingTyped
    <2> QED
      BY <1>1, <1>2, <1>3, <2>1 DEF RingIInv, Behind, Together, Place
  <1>7. CopyRight'
    BY <1>1, <1>2, CopyStays
  <1>8. BreaksAtEndOnly'
    BY <1>1 DEF BreaksAtEndOnly
  <1> QED
    BY <1>4, <1>5, <1>6, <1>7, <1>8 DEF RingIInv

(* What a step of the reader leaves alone.                                 *)
LEMMA ReaderMoves ==
    ASSUME RingIInv, UNCHANGED <<mem, m_uWriteOffset, writing, ends, lapped>>
    PROVE  /\ WritesFit' /\ Stored'
           /\ Frontier' = Frontier
  <1>1. Frontier' = Frontier
    BY DEF Frontier
  <1>2. ASSUME NEW e PROVE e \in ends' <=> e \in ends
    OBVIOUS
  <1> QED
    BY <1>1, <1>2, StaysStored

LEMMA ReadRing ==
    ASSUME RingIInv, readMap, ~ broken
    PROVE  RingIInv'
  <1>1. /\ UNCHANGED <<mem, m_uWriteOffset, m_uReadOffset, writing, ends, lapped, broken>>
        /\ reader = NoRead
    BY DEF readMap
  <1>2. PICK n : /\ n = IF Unread < MaxRead THEN Unread ELSE MaxRead
                 /\ reader' = [pc |-> "read", size |-> n]
    BY DEF readMap
  <1>3. n \in Nat /\ m_uReadOffset + n <= m_uWriteOffset
    BY <1>2, MapFileAssumption DEF readMap, Unread, RingIInv, RingTyped
  <1>4. WritesFit' /\ Stored' /\ Frontier' = Frontier
    BY <1>1, ReaderMoves
  <1>5. RingTyped'
    BY <1>1, <1>2, <1>3 DEF RingIInv, RingTyped
  <1>6. Behind' /\ CopyRight' /\ BreaksAtEndOnly'
    BY <1>1, <1>2, <1>3, <1>4 DEF RingIInv, Behind, CopyRight, BreaksAtEndOnly
  <1> QED
    BY <1>4, <1>5, <1>6 DEF RingIInv

LEMMA LendRing ==
    ASSUME RingIInv, Lend, ~ broken
    PROVE  RingIInv'
  <1>1. /\ UNCHANGED <<mem, m_uWriteOffset, m_uReadOffset, writing, ends, lapped, broken>>
        /\ reader.pc = "read" /\ Together(reader.size)
        /\ reader' = [reader EXCEPT !.pc = "lent"]
    BY DEF Lend
  <1>2. PICK n \in Nat : reader = [pc |-> "read", size |-> n]
    BY <1>1 DEF RingIInv, RingTyped, NoRead
  <1>3. reader' = [pc |-> "lent", size |-> n]
    BY <1>1, <1>2
  <1>4. m_uReadOffset + n <= m_uWriteOffset /\ Together(n)
    BY <1>1, <1>2 DEF RingIInv, Behind, NoRead
  <1>5. WritesFit' /\ Stored' /\ Frontier' = Frontier
    BY <1>1, ReaderMoves
  <1>6. RingTyped'
    BY <1>1, <1>3 DEF RingIInv, RingTyped
  <1>7. Behind'
    BY <1>1, <1>3, <1>4, <1>5 DEF RingIInv, Behind, Together, Place
  <1>8. CopyRight' /\ BreaksAtEndOnly'
    BY <1>1, <1>3 DEF CopyRight, BreaksAtEndOnly
  <1> QED
    BY <1>5, <1>6, <1>7, <1>8 DEF RingIInv

LEMMA CopyRing ==
    ASSUME RingIInv, Copy, ~ broken
    PROVE  RingIInv'
  <1>1. /\ UNCHANGED <<mem, m_uWriteOffset, m_uReadOffset, writing, ends, lapped>>
        /\ reader.pc = "read" /\ ~ Together(reader.size)
    BY DEF Copy
  <1>2. PICK n \in Nat : reader = [pc |-> "read", size |-> n]
    BY <1>1 DEF RingIInv, RingTyped, NoRead
  <1>3. m_uReadOffset + n <= m_uWriteOffset
    BY <1>2 DEF RingIInv, Behind, NoRead
  <1>4. WritesFit' /\ Stored' /\ Frontier' = Frontier
    BY <1>1, ReaderMoves
  <1>5. CASE reader.size < ToEnd(Place)
    <2>1. broken' = TRUE /\ reader' = reader
      BY <1>5 DEF Copy
    <2>2. RingTyped'
      BY <1>1, <2>1 DEF RingIInv, RingTyped
    <2>3. Behind' /\ CopyRight'
      BY <1>1, <1>2, <1>4, <2>1 DEF RingIInv, Behind, CopyRight, Together, Place
    <2>4. m_uReadOffset + n = NextLap
      <3>1. /\ m_uReadOffset \in Nat /\ Place = m_uReadOffset - Lap /\ Lap \in Nat
            /\ Capacity \in Nat
        BY PlaceIs, MapFileAssumption DEF RingIInv, RingTyped
      <3>2. ~ (Place + n < Capacity) /\ n < Capacity - Place + 1
        BY <1>1, <1>2, <1>5 DEF Together, ToEnd
      <3> QED
        BY <3>1, <3>2 DEF NextLap
    <2>5. BreaksAtEndOnly'
      BY <1>1, <1>2, <2>1, <2>4 DEF BreaksAtEndOnly, NextLap, Lap
    <2> QED
      BY <1>4, <2>2, <2>3, <2>5 DEF RingIInv
  <1>6. CASE ~ (reader.size < ToEnd(Place))
    <2>1. broken' = FALSE /\ reader' = [pc |-> "copied", size |-> n, bytes |-> Copied(n)]
      BY <1>2, <1>6 DEF Copy
    <2>2. RingTyped'
      BY <1>1, <2>1 DEF RingIInv, RingTyped
    <2>3. Behind' /\ BreaksAtEndOnly'
      BY <1>1, <1>3, <1>4, <2>1 DEF RingIInv, Behind, BreaksAtEndOnly
    <2>4. CopyRight'
      <3> SUFFICES ASSUME ~ lapped, StartsInPlace', EndsWithItsWrite'
                   PROVE  Copied(n) = [i \in 1 .. n |-> m_uReadOffset + i]
        BY <1>1, <2>1 DEF CopyRight
      <3>1. StartsInPlace
        BY <1>1 DEF StartsInPlace, Lap
      <3>2. EndsWithItsWrite
        BY <1>1, <1>2, <2>1 DEF EndsWithItsWrite, NextLap, Lap
      <3>3. n >= ToEnd(Place)
        <4>1. ToEnd(Place) \in Int
          BY PlaceIs, MapFileAssumption DEF RingIInv, RingTyped, ToEnd
        <4> QED
          BY <1>2, <1>6, <4>1
      <3>4. \A i \in 1 .. n : Copied(n)[i] = m_uReadOffset + i
        BY <1>1, <1>2, <3>1, <3>2, <3>3, CopiedRight
      <3> QED
        BY <3>4 DEF Copied
    <2> QED
      BY <1>4, <2>2, <2>3, <2>4 DEF RingIInv
  <1> QED
    BY <1>5, <1>6

(* The reader is done, or steps ahead.                                     *)
LEMMA OffsetRing ==
    ASSUME RingIInv, moveReadOffset \/ \E offset \in 1 .. MaxStream : setCurReadOffset(offset),
           ~ broken
    PROVE  RingIInv'
  <1>1. /\ UNCHANGED <<mem, m_uWriteOffset, writing, ends, lapped, broken>>
        /\ reader' = NoRead
    BY DEF moveReadOffset, setCurReadOffset
  <1>2. m_uReadOffset' \in Nat /\ m_uReadOffset <= m_uReadOffset'
    <2>1. m_uReadOffset \in Nat
      BY DEF RingIInv, RingTyped
    <2>2. CASE moveReadOffset
      <3>1. m_uReadOffset' = m_uReadOffset + reader.size /\ reader.pc \in {"lent", "copied"}
        BY <2>2 DEF moveReadOffset, Held
      <3>2. reader.size \in Nat
        BY <3>1 DEF RingIInv, RingTyped, NoRead
      <3> QED
        BY <2>1, <3>1, <3>2
    <2>3. ASSUME NEW offset \in 1 .. MaxStream, setCurReadOffset(offset)
          PROVE  m_uReadOffset' \in Nat /\ m_uReadOffset <= m_uReadOffset'
      BY <2>1, <2>3, MapFileAssumption DEF setCurReadOffset
    <2> QED
      BY <2>2, <2>3
  <1>3. WritesFit' /\ Stored' /\ Frontier' = Frontier
    BY <1>1, ReaderMoves
  <1>4. RingTyped'
    BY <1>1, <1>2 DEF RingIInv, RingTyped
  <1>5. Behind'
    <2>1. ~ lapped => Frontier <= m_uReadOffset + Capacity
      BY DEF RingIInv, Behind
    <2>2. m_uReadOffset \in Nat /\ Frontier \in Nat /\ Capacity \in Nat
      BY MapFileAssumption DEF RingIInv, RingTyped, Frontier
    <2>3. ~ lapped => Frontier <= m_uReadOffset' + Capacity
      <3>1. PICK f, p, q : f = Frontier /\ p = m_uReadOffset /\ q = m_uReadOffset'
        OBVIOUS
      <3>2. ~ lapped => f <= p + Capacity
        BY <2>1, <3>1
      <3>3. f \in Nat /\ p \in Nat /\ q \in Nat /\ p <= q /\ Capacity \in Nat
        BY <1>2, <2>2, <3>1
      <3>4. ~ lapped => f <= q + Capacity
        BY <3>2, <3>3
      <3> QED
        BY <3>1, <3>4
    <2> QED
      BY <1>1, <1>3, <2>3 DEF Behind, NoRead
  <1>6. CopyRight' /\ BreaksAtEndOnly'
    BY <1>1 DEF CopyRight, BreaksAtEndOnly, NoRead
  <1> QED
    BY <1>3, <1>4, <1>5, <1>6 DEF RingIInv

LEMMA StepRing == RingIInv /\ [RingNext]_ringVars => RingIInv'
  <1> SUFFICES ASSUME RingIInv, [RingNext]_ringVars PROVE RingIInv'
    OBVIOUS
  <1>1. CASE UNCHANGED ringVars
    BY <1>1 DEF ringVars, RingIInv, RingTyped, WritesFit, Stored, Behind, CopyRight, BreaksAtEndOnly,
                Begins, Frontier, Together, Place, StartsInPlace, EndsWithItsWrite, Lap, NextLap
  <1>2. CASE RingNext
    BY <1>2, WriteRing, AdvanceRing, ReadRing, LendRing, CopyRing, OffsetRing DEF RingNext
  <1> QED
    BY <1>1, <1>2

LEMMA RingSafe == RingIInv => RingSound
  <1> SUFFICES ASSUME RingIInv, Held, ~ lapped, StartsInPlace, EndsWithItsWrite
               PROVE  Seen = [i \in 1 .. reader.size |-> m_uReadOffset + i]
    BY DEF RingSound, ReadsWhatWasWritten, RingIInv
  <1>1. CASE reader.pc = "lent"
    <2>1. \A i \in 1 .. reader.size : mem[Place + i - 1] = m_uReadOffset + i
      BY <1>1, LentRight
    <2> QED
      BY <1>1, <2>1 DEF Seen
  <1>2. CASE reader.pc = "copied"
    BY <1>2 DEF Seen, RingIInv, CopyRight
  <1> QED
    BY <1>1, <1>2 DEF Held

(* readMap: for any sizes of the mapping, of writes and of reads, the      *)
(* caller gets what writeMap wrote, also round the end of the mapping and  *)
(* while the next write is under way; the second copy is of the wrong      *)
(* length only for a read that ends with the mapping.  (The exceptions are *)
(* those of ReadsWhatWasWritten.)                                          *)
THEOREM ReadsAreWrites == RingSpec => []RingSound
  BY InitRing, StepRing, RingSafe, PTL DEF RingSpec

-----------------------------------------------------------------------------
(* The free lists: any threads and objects, one memory access at a time.   *)

(* The object that t took out of its list, or is about to put in.          *)
Flying(t) == IF op[t].at \in {"popSize", "popCount", "push"} THEN {op[t].obj} ELSE {}

(* How many objects the list of t has: _size follows later.                *)
Depth(t) ==
    size[CacheOf[t]] + (IF op[t].at \in {"popSize", "popCount"} THEN -1
                        ELSE IF op[t].at \in {"pushSize", "pushCount"} THEN 1 ELSE 0)

(* s[t] is the list of t from its end: s[t][Depth(t)] is the first object. *)
Listing == [Threads -> [Nat -> Objects \union {Null}]]

LinkedAs(s) ==
    \A t \in Threads :
        /\ s[t][0] = Null /\ Depth(t) \in Nat
        /\ m_freeList[CacheOf[t]] = s[t][Depth(t)]
        /\ \A i \in 1 .. Depth(t) : s[t][i] \in Objects /\ next[s[t][i]] = s[t][i - 1]

Separate(s) ==
    /\ \A t, u \in Threads : \A i \in 1 .. Depth(t), j \in 1 .. Depth(u) :
           s[t][i] = s[u][j] => t = u /\ i = j
    /\ \A t, u \in Threads : \A i \in 1 .. Depth(t) :
           s[t][i] \notin hold[u] /\ s[t][i] \notin Flying(u)

Owned ==
    \A t, u \in Threads :
        /\ hold[t] \intersect Flying(u) = {}
        /\ t # u => hold[t] \intersect hold[u] = {} /\ Flying(t) \intersect Flying(u) = {}

(* What each call has read so far is still so.                             *)
UpToDate(t) ==
    /\ op[t].at \in {"load", "next", "pop"} => Depth(t) >= 1
    /\ op[t].at \in {"next", "pop"} => op[t].obj = m_freeList[CacheOf[t]]
    /\ op[t].at = "pop" => op[t].to = next[op[t].obj]
    /\ op[t].at \in {"popCount", "pushCount"} => op[t].n = Depth(t)
    /\ op[t].at = "push" => next[op[t].obj] = m_freeList[CacheOf[t]]

Registers == \A t \in Threads : UpToDate(t)

Unused ==
    \A c \in Caches : (\A t \in Threads : CacheOf[t] # c) => m_freeList[c] = Null /\ size[c] = 0

CacheIInv ==
    /\ CacheTypeOK /\ Owned /\ Registers /\ Unused
    /\ \E s \in Listing : LinkedAs(s) /\ Separate(s)
-----------------------------------------------------------------------------
LEMMA OpForm ==
    ASSUME CacheTypeOK, NEW t \in Threads
    PROVE  /\ op[t] \in Ops /\ CacheOf[t] \in Caches
           /\ size[CacheOf[t]] \in Nat
           /\ m_freeList[CacheOf[t]] \in Objects \union {Null}
           /\ op[t].at \in {"next", "popSize", "push", "pushSize", "pop", "popCount", "pushCount"}
                  => op[t].obj \in Objects
           /\ op[t].at \in {"popCount", "pushCount"} => op[t].n \in Int
           /\ op[t].at = "pop" => op[t].to \in Objects \union {Null}
  <1>1. op[t] \in Ops /\ CacheOf[t] \in Caches
    BY FreeListAssumption DEF CacheTypeOK
  <1>2. size[CacheOf[t]] \in Nat /\ m_freeList[CacheOf[t]] \in Objects \union {Null}
    BY <1>1 DEF CacheTypeOK
  <1> QED
    BY <1>1, <1>2 DEF Ops, Idle

(* A step of thread t does not touch the lists and the calls of others.    *)
LEMMA Others ==
    ASSUME OwnCache, CacheTypeOK, Unused, NEW t \in Threads, NEW o \in Ops, NEW f, NEW z,
           op' = [op EXCEPT ![t] = o],
           m_freeList' = [m_freeList EXCEPT ![CacheOf[t]] = f],
           size' = [size EXCEPT ![CacheOf[t]] = z]
    PROVE  /\ op'[t] = o /\ m_freeList'[CacheOf[t]] = f /\ size'[CacheOf[t]] = z
           /\ op' \in [Threads -> Ops]
           /\ \A u \in Threads : u # t =>
                 /\ op'[u] = op[u] /\ m_freeList'[CacheOf[u]] = m_freeList[CacheOf[u]]
                 /\ Depth(u)' = Depth(u) /\ Flying(u)' = Flying(u)
           /\ Unused'
  <1>1. /\ op \in [Threads -> Ops] /\ CacheOf \in [Threads -> Caches]
        /\ m_freeList \in [Caches -> Objects \union {Null}] /\ size \in [Caches -> Nat]
    BY FreeListAssumption DEF CacheTypeOK
  <1>2. op'[t] = o /\ m_freeList'[CacheOf[t]] = f /\ size'[CacheOf[t]] = z
    BY <1>1
  <1>3. op' \in [Threads -> Ops]
    BY <1>1
  <1>4. ASSUME NEW u \in Threads, u # t
        PROVE  /\ op'[u] = op[u] /\ m_freeList'[CacheOf[u]] = m_freeList[CacheOf[u]]
               /\ size'[CacheOf[u]] = size[CacheOf[u]]
    <2>1. CacheOf[u] # CacheOf[t] /\ CacheOf[u] \in Caches
      BY <1>1, <1>4 DEF OwnCache
    <2> QED
      BY <1>1, <1>4, <2>1
  <1>5. \A u \in Threads : u # t => Depth(u)' = Depth(u) /\ Flying(u)' = Flying(u)
    BY <1>4 DEF Depth, Flying
  <1>6. Unused'
    BY <1>1 DEF Unused
  <1> QED
    BY <1>2, <1>3, <1>4, <1>5, <1>6

(* The objects, with their links, stay where they are.                     *)
LEMMA QuietStep ==
    ASSUME OwnCache, CacheIInv, NEW t \in Threads, NEW o \in Ops, NEW z \in Nat,
           op' = [op EXCEPT ![t] = o],
           size' = [size EXCEPT ![CacheOf[t]] = z],
           UNCHANGED <<m_freeList, next, hold>>,
           Depth(t)' = Depth(t), Flying(t)' = Flying(t), UpToDate(t)'
    PROVE  CacheIInv'
  <1>1. CacheTypeOK /\ CacheOf[t] \in Caches /\ m_freeList \in [Caches -> Objects \union {Null}]
    BY FreeListAssumption DEF CacheIInv, CacheTypeOK
  <1>2. m_freeList' = [m_freeList EXCEPT ![CacheOf[t]] = m_freeList[CacheOf[t]]]
    BY <1>1
  <1>3. /\ op' \in [Threads -> Ops] /\ Unused'
        /\ \A u \in Threads : u # t => op'[u] = op[u]
        /\ \A u \in Threads : Depth(u)' = Depth(u) /\ Flying(u)' = Flying(u)
    <2>1. PICK f : f = m_freeList[CacheOf[t]]
      OBVIOUS
    <2>2. m_freeList' = [m_freeList EXCEPT ![CacheOf[t]] = f]
      BY <1>2, <2>1
    <2>3. Unused
      BY DEF CacheIInv
    <2>4. /\ op' \in [Threads -> Ops] /\ Unused'
          /\ \A u \in Threads : u # t => op'[u] = op[u] /\ Depth(u)' = Depth(u) /\ Flying(u)' = Flying(u)
      BY <1>1, <2>2, <2>3, Others
    <2> QED
      BY <2>4
  <1>4. CacheTypeOK'
    BY <1>1, <1>3 DEF CacheTypeOK
  <1>5. Owned'
    BY <1>3 DEF CacheIInv, Owned
  <1>6. Registers'
    <2>1. ASSUME NEW u \in Threads, u # t PROVE UpToDate(u)'
      BY <1>3, <2>1 DEF CacheIInv, Registers, UpToDate
    <2> QED
      BY <2>1 DEF Registers
  <1>7. PICK s \in Listing : LinkedAs(s) /\ Separate(s)
    BY DEF CacheIInv
  <1>8. LinkedAs(s)' /\ Separate(s)'
    BY <1>3, <1>7 DEF LinkedAs, Separate
  <1> QED
    BY <1>3, <1>4, <1>5, <1>6, <1>7, <1>8 DEF CacheIInv

(* The registers of the steps that take an object, and of those that put   *)
(* one, as far as they do not move it.                                     *)
LEMMA ReadingSteps ==
    ASSUME OwnCache, CacheIInv, NEW t \in Threads,
           BeginPop(t) \/ PopLoad(t) \/ PopNext(t) \/ PopCount(t) \/ PushCount(t)
    PROVE  CacheIInv'
  <1>1. /\ UNCHANGED <<m_freeList, next, size, hold>>
        /\ CacheTypeOK /\ op \in [Threads -> Ops] /\ size \in [Caches -> Nat]
        /\ CacheOf[t] \in Caches
    BY FreeListAssumption DEF BeginPop, PopLoad, PopNext, PopCount, PushCount, CacheIInv, CacheTypeOK
  <1>2. size' = [size EXCEPT ![CacheOf[t]] = size[CacheOf[t]]] /\ size[CacheOf[t]] \in Nat
    BY <1>1
  <1>3. ASSUME NEW o \in Ops, op' = [op EXCEPT ![t] = o],
               Depth(t)' = Depth(t), Flying(t)' = Flying(t), UpToDate(t)'
        PROVE  CacheIInv'
    <2>1. PICK z \in Nat : z = size[CacheOf[t]]
      BY <1>2
    <2>2. size' = [size EXCEPT ![CacheOf[t]] = z]
      BY <1>2, <2>1
    <2> QED
      BY <1>1, <1>3, <2>2, QuietStep
  <1>4. PICK d : d = Depth(t)
    OBVIOUS
  <1>5. PICK s \in Listing : LinkedAs(s)
    BY DEF CacheIInv
  <1>6. /\ d \in Nat /\ s[t][0] = Null /\ m_freeList[CacheOf[t]] = s[t][d]
        /\ \A i \in 1 .. d : s[t][i] \in Objects
    BY <1>4, <1>5 DEF LinkedAs
  <1>7. UpToDate(t)
    BY DEF CacheIInv, Registers
  <1>8. ASSUME BeginPop(t) PROVE CacheIInv'
    <2>1. PICK o : o = [at |-> "load"]
      OBVIOUS
    <2>2. op' = [op EXCEPT ![t] = o] /\ op[t] = Idle /\ size[CacheOf[t]] # 0 /\ o \in Ops
      BY <1>8, <2>1 DEF BeginPop, MyCache, Ops
    <2>3. op'[t] = o
      BY <1>1, <2>2
    <2>4. Depth(t) = size[CacheOf[t]] /\ Depth(t)' = Depth(t) /\ Flying(t)' = Flying(t)
      BY <1>1, <1>2, <2>1, <2>2, <2>3 DEF Depth, Flying, Idle
    <2>5. UpToDate(t)'
      BY <1>2, <2>1, <2>2, <2>3, <2>4 DEF UpToDate
    <2> QED
      BY <1>3, <2>2, <2>4, <2>5
  <1>9. ASSUME PopLoad(t) PROVE CacheIInv'
    <2>1. PICK o : o = [at |-> "next", obj |-> m_freeList[CacheOf[t]]]
      OBVIOUS
    <2>2. op' = [op EXCEPT ![t] = o] /\ op[t].at = "load"
      BY <1>9, <2>1 DEF PopLoad, MyCache
    <2>3. d >= 1
      BY <1>4, <1>7, <2>2 DEF UpToDate
    <2>4. o \in Ops
      BY <1>6, <2>1, <2>3 DEF Ops
    <2>5. op'[t] = o
      BY <1>1, <2>2
    <2>6. Depth(t)' = Depth(t) /\ Flying(t)' = Flying(t)
      BY <1>1, <2>1, <2>2, <2>5 DEF Depth, Flying
    <2>7. UpToDate(t)'
      BY <1>1, <1>4, <2>1, <2>3, <2>5, <2>6 DEF UpToDate
    <2> QED
      BY <1>3, <2>2, <2>4, <2>6, <2>7
  <1>10. ASSUME PopNext(t) PROVE CacheIInv'
    <2>1. PICK x, y : x = op[t].obj /\ y = next[x]
      OBVIOUS
    <2>2. PICK o : o = [at |-> "pop", obj |-> x, to |-> y]
      OBVIOUS
    <2>3. op' = [op EXCEPT ![t] = o] /\ op[t].at = "next"
      BY <1>10, <2>1, <2>2 DEF PopNext
    <2>4. d >= 1 /\ x = m_freeList[CacheOf[t]]
      BY <1>4, <1>7, <2>1, <2>3 DEF UpToDate
    <2>5. x \in Objects
      BY <1>6, <2>4
    <2>6. y \in Objects \union {Null}
      BY <1>1, <2>1, <2>5 DEF CacheTypeOK
    <2>7. o \in Ops
      BY <2>2, <2>5, <2>6 DEF Ops
    <2>8. op'[t] = o
      BY <1>1, <2>3
    <2>9. Depth(t)' = Depth(t) /\ Flying(t)' = Flying(t)
      BY <1>1, <2>2, <2>3, <2>8 DEF Depth, Flying
    <2>10. op'[t].at = "pop" /\ op'[t].obj = x /\ op'[t].to = y
      BY <2>2, <2>8
    <2>11. y = next'[x] /\ x = m_freeList'[CacheOf[t]] /\ Depth(t)' >= 1
      BY <1>1, <1>4, <2>1, <2>4, <2>9
    <2>12. UpToDate(t)'
      BY <2>10, <2>11 DEF UpToDate
    <2> QED
      BY <1>3, <2>3, <2>7, <2>9, <2>12
  <1>11. ASSUME PopCount(t) \/ PushCount(t) PROVE CacheIInv'
    <2>1. PICK p \in {"popCount", "pushCount"} :
              /\ op' = [op EXCEPT ![t] = [at |-> p, obj |-> op[t].obj, n |-> Depth(t)]]
              /\ p = "popCount" => op[t].at = "popSize"
              /\ p = "pushCount" => op[t].at = "pushSize"
      <3>1. CASE PopCount(t)
        <4>1. op[t].at = "popSize" /\ Depth(t) = size[MyCache(t)] - 1
          BY <1>1, <1>2, <3>1 DEF PopCount, Depth, MyCache
        <4> QED
          BY <3>1, <4>1 DEF PopCount
      <3>2. CASE PushCount(t)
        <4>1. op[t].at = "pushSize" /\ Depth(t) = size[MyCache(t)] + 1
          BY <1>1, <1>2, <3>2 DEF PushCount, Depth, MyCache
        <4> QED
          BY <3>2, <4>1 DEF PushCount
      <3> QED
        BY <1>11, <3>1, <3>2
    <2>2. PICK x, o : x = op[t].obj /\ o = [at |-> p, obj |-> x, n |-> d]
      OBVIOUS
    <2>3. op' = [op EXCEPT ![t] = o] /\ op[t].at \in {"popSize", "pushSize"}
      BY <1>4, <2>1, <2>2
    <2>4. x \in Objects
      BY <1>1, <2>2, <2>3, OpForm
    <2>5. o \in Ops
      BY <1>6, <2>2, <2>4 DEF Ops
    <2>6. op'[t] = o
      BY <1>1, <2>3
    <2>7. Depth(t)' = Depth(t) /\ Flying(t)' = Flying(t)
      BY <1>1, <2>1, <2>2, <2>6 DEF Depth, Flying
    <2>8. UpToDate(t)'
      BY <1>4, <2>2, <2>6, <2>7 DEF UpToDate
    <2> QED
      BY <1>3, <2>3, <2>5, <2>7, <2>8
  <1> QED
    BY <1>8, <1>9, <1>10, <1>11

(* _size gets the number that was computed from it.                        *)
LEMMA EndPushStep ==
    ASSUME OwnCache, CacheIInv, NEW t \in Threads, EndPush(t)
    PROVE  CacheIInv'
  <1>1. /\ UNCHANGED <<m_freeList, next, hold>> /\ op[t].at = "pushCount"
        /\ op' = [op EXCEPT ![t] = Idle]
        /\ size' = [size EXCEPT ![CacheOf[t]] = op[t].n]
    BY DEF EndPush, MyCache
  <1>2. /\ CacheTypeOK /\ op \in [Threads -> Ops] /\ size \in [Caches -> Nat]
        /\ CacheOf[t] \in Caches /\ Idle \in Ops
    BY FreeListAssumption DEF CacheIInv, CacheTypeOK, Ops
  <1>3. PICK z : z = op[t].n
    OBVIOUS
  <1>4. z = Depth(t) /\ Depth(t) \in Nat
    BY <1>1, <1>3 DEF CacheIInv, Registers, UpToDate, LinkedAs
  <1>5. size' = [size EXCEPT ![CacheOf[t]] = z] /\ op'[t] = Idle /\ size'[CacheOf[t]] = z
    BY <1>1, <1>2, <1>3
  <1>6. Depth(t)' = Depth(t) /\ Flying(t)' = Flying(t)
    BY <1>1, <1>4, <1>5 DEF Depth, Flying, Idle
  <1>7. UpToDate(t)'
    BY <1>5 DEF UpToDate, Idle
  <1> QED
    BY <1>1, <1>2, <1>4, <1>5, <1>6, <1>7, QuietStep

(* Objects move between the list, the call and the callers of t.           *)
LEMMA MovingStep ==
    ASSUME OwnCache, CacheIInv, NEW t \in Threads, NEW o \in Ops, NEW f \in Objects \union {Null},
           NEW z \in Nat,
           op' = [op EXCEPT ![t] = o],
           m_freeList' = [m_freeList EXCEPT ![CacheOf[t]] = f],
           size' = [size EXCEPT ![CacheOf[t]] = z],
           hold' \in [Threads -> SUBSET Objects], next' \in [Objects -> Objects \union {Null}],
           \A u \in Threads : u # t => hold'[u] = hold[u],
           \A u \in Threads : \A x \in Flying(u) : u # t => next'[x] = next[x],
           NEW s \in Listing, LinkedAs(s), Separate(s),
           \A u \in Threads : \A i \in 1 .. Depth(u) : u # t => next'[s[u][i]] = next[s[u][i]],
           hold'[t] \intersect Flying(t)' = {},
           hold'[t] \union Flying(t)' \subseteq hold[t] \union Flying(t)
               \union (IF Depth(t) >= 1 THEN {m_freeList[CacheOf[t]]} ELSE {}),
           UpToDate(t)',
           NEW r \in Listing, LinkedAs(r)', Separate(r)'
    PROVE  CacheIInv'
  <1>1. CacheTypeOK /\ CacheOf[t] \in Caches /\ Unused
    BY FreeListAssumption DEF CacheIInv, CacheTypeOK
  <1>2. /\ op'[t] = o /\ m_freeList'[CacheOf[t]] = f
        /\ op' \in [Threads -> Ops] /\ Unused'
        /\ \A u \in Threads : u # t =>
              /\ op'[u] = op[u] /\ m_freeList'[CacheOf[u]] = m_freeList[CacheOf[u]]
              /\ Depth(u)' = Depth(u) /\ Flying(u)' = Flying(u)
    BY <1>1, Others
  <1>3. CacheTypeOK'
    BY <1>1, <1>2 DEF CacheTypeOK
  <1>4. Owned'
    <2>1. PICK top : top = IF Depth(t) >= 1 THEN {m_freeList[CacheOf[t]]} ELSE {}
      OBVIOUS
    <2>2. \A u \in Threads : top \intersect hold[u] = {} /\ top \intersect Flying(u) = {}
      <3>1. Depth(t) \in Nat /\ m_freeList[CacheOf[t]] = s[t][Depth(t)]
        BY DEF LinkedAs
      <3>2. Depth(t) >= 1 => \A u \in Threads : s[t][Depth(t)] \notin hold[u] /\ s[t][Depth(t)] \notin Flying(u)
        BY <3>1 DEF Separate
      <3> QED
        BY <2>1, <3>1, <3>2
    <2>3. hold'[t] \union Flying(t)' \subseteq hold[t] \union Flying(t) \union top
      BY <2>1
    <2>4. \A u \in Threads : u # t =>
              (hold'[t] \union Flying(t)') \intersect (hold'[u] \union Flying(u)') = {}
      BY <1>2, <2>2, <2>3 DEF CacheIInv, Owned
    <2>5. \A u, v \in Threads : u # t /\ v # t =>
              /\ hold'[u] \intersect Flying(v)' = {}
              /\ u # v => hold'[u] \intersect hold'[v] = {} /\ Flying(u)' \intersect Flying(v)' = {}
      BY <1>2 DEF CacheIInv, Owned
    <2> QED
      BY <2>4, <2>5 DEF Owned
  <1>5. Registers'
    <2>1. ASSUME NEW u \in Threads, u # t PROVE UpToDate(u)'
      <3>1. UpToDate(u) /\ op'[u] = op[u] /\ Depth(u)' = Depth(u)
            /\ m_freeList'[CacheOf[u]] = m_freeList[CacheOf[u]]
        BY <1>2, <2>1 DEF CacheIInv, Registers
      <3>2. op[u].at = "push" => next'[op[u].obj] = next[op[u].obj]
        <4>1. op[u].at = "push" => op[u].obj \in Flying(u)
          BY DEF Flying
        <4> QED
          BY <2>1, <4>1
      <3>3. op[u].at = "pop" => next'[op[u].obj] = next[op[u].obj]
        <4>1. op[u].at = "pop" => Depth(u) >= 1 /\ op[u].obj = s[u][Depth(u)] /\ Depth(u) \in Nat
          BY <3>1 DEF UpToDate, LinkedAs
        <4> QED
          BY <2>1, <4>1
      <3> QED
        BY <3>1, <3>2, <3>3 DEF UpToDate
    <2> QED
      BY <2>1 DEF Registers
  <1> QED
    BY <1>2, <1>3, <1>4, <1>5 DEF CacheIInv

(* What the steps below know of thread t, its call and its list.           *)
LEMMA ListOf ==
    ASSUME CacheIInv, NEW t \in Threads, NEW s \in Listing, LinkedAs(s)
    PROVE  /\ Depth(t) \in Nat /\ s[t][0] = Null /\ m_freeList[CacheOf[t]] = s[t][Depth(t)]
           /\ \A i \in 1 .. Depth(t) : s[t][i] \in Objects /\ next[s[t][i]] = s[t][i - 1]
           /\ \A i \in Nat : s[t][i] \in Objects \union {Null}
           /\ CacheOf[t] \in Caches /\ size \in [Caches -> Nat] /\ size[CacheOf[t]] \in Nat
           /\ size = [size EXCEPT ![CacheOf[t]] = size[CacheOf[t]]]
           /\ m_freeList = [m_freeList EXCEPT ![CacheOf[t]] = m_freeList[CacheOf[t]]]
           /\ op \in [Threads -> Ops] /\ hold \in [Threads -> SUBSET Objects]
           /\ next \in [Objects -> Objects \union {Null}]
           /\ UpToDate(t) /\ Idle \in Ops /\ Unused /\ CacheTypeOK
  <1>1. CacheTypeOK /\ CacheOf[t] \in Caches /\ UpToDate(t) /\ Idle \in Ops /\ Unused
    BY FreeListAssumption DEF CacheIInv, Registers, Ops
  <1>2. s[t] \in [Nat -> Objects \union {Null}]
    BY DEF Listing
  <1> QED
    BY <1>1, <1>2 DEF CacheTypeOK, LinkedAs

(* The lists are linked and apart after a step of t if that of t is, and   *)
(* what others have is as before.                                          *)
LEMMA ListsAfter ==
    ASSUME CacheIInv, NEW t \in Threads, NEW s \in Listing, LinkedAs(s), Separate(s), NEW r \in Listing,
           \A u \in Threads : u # t =>
               /\ r[u] = s[u] /\ m_freeList'[CacheOf[u]] = m_freeList[CacheOf[u]]
               /\ Depth(u)' = Depth(u) /\ Flying(u)' = Flying(u) /\ hold'[u] = hold[u],
           \A u \in Threads : \A i \in 1 .. Depth(u) : u # t => next'[s[u][i]] = next[s[u][i]],
           r[t][0] = Null, Depth(t)' \in Nat, m_freeList'[CacheOf[t]] = r[t][Depth(t)'],
           \A i \in 1 .. Depth(t)' : r[t][i] \in Objects /\ next'[r[t][i]] = r[t][i - 1],
           \A i, j \in 1 .. Depth(t)' : r[t][i] = r[t][j] => i = j,
           \A i \in 1 .. Depth(t)' : r[t][i] \notin hold'[t] /\ r[t][i] \notin Flying(t)',
           \A i \in 1 .. Depth(t)' : \/ \E j \in 1 .. Depth(t) : r[t][i] = s[t][j]
                                     \/ r[t][i] \in Flying(t),
           \A x \in hold'[t] \union Flying(t)' :
               \/ x \in hold[t] \union Flying(t)
               \/ \E j \in 1 .. Depth(t) : x = s[t][j]
    PROVE  LinkedAs(r)' /\ Separate(r)'
  <1>1. LinkedAs(r)'
    <2>1. ASSUME NEW u \in Threads, u # t
          PROVE  /\ r[u][0] = Null /\ Depth(u)' \in Nat
                 /\ m_freeList'[CacheOf[u]] = r[u][Depth(u)']
                 /\ \A i \in 1 .. Depth(u)' : r[u][i] \in Objects /\ next'[r[u][i]] = r[u][i - 1]
      BY <2>1 DEF LinkedAs
    <2> QED
      BY <2>1 DEF LinkedAs
  <1>2. ASSUME NEW u \in Threads, u # t, NEW i \in 1 .. Depth(t)', NEW j \in 1 .. Depth(u)
        PROVE  r[t][i] # s[u][j]
    <2>1. CASE \E k \in 1 .. Depth(t) : r[t][i] = s[t][k]
      BY <1>2, <2>1 DEF Separate
    <2>2. CASE r[t][i] \in Flying(t)
      BY <1>2, <2>2 DEF Separate
    <2> QED
      BY <2>1, <2>2
  <1>3. ASSUME NEW u \in Threads, u # t, NEW i \in 1 .. Depth(t)'
        PROVE  r[t][i] \notin hold[u] /\ r[t][i] \notin Flying(u)
    <2>1. CASE \E k \in 1 .. Depth(t) : r[t][i] = s[t][k]
      BY <1>3, <2>1 DEF Separate
    <2>2. CASE r[t][i] \in Flying(t)
      BY <1>3, <2>2 DEF CacheIInv, Owned
    <2> QED
      BY <2>1, <2>2
  <1>4. ASSUME NEW u \in Threads, u # t, NEW i \in 1 .. Depth(u)
        PROVE  s[u][i] \notin hold'[t] /\ s[u][i] \notin Flying(t)'
    <2>1. s[u][i] \notin hold[t] /\ s[u][i] \notin Flying(t)
      BY DEF Separate
    <2>2. \A j \in 1 .. Depth(t) : s[u][i] # s[t][j]
      BY <1>4 DEF Separate
    <2> QED
      BY <2>1, <2>2
  <1>5. ASSUME NEW u \in Threads, NEW v \in Threads,
               NEW i \in 1 .. Depth(u)', NEW j \in 1 .. Depth(v)', r[u][i] = r[v][j]
        PROVE  u = v /\ i = j
    <2>1. CASE u = t /\ v = t
      BY <1>5, <2>1
    <2>2. CASE u = t /\ v # t
      BY <1>2, <1>5, <2>2
    <2>3. CASE u # t /\ v = t
      BY <1>2, <1>5, <2>3
    <2>4. CASE u # t /\ v # t
      BY <1>5, <2>4 DEF Separate
    <2> QED
      BY <2>1, <2>2, <2>3, <2>4
  <1>6. ASSUME NEW u \in Threads, NEW v \in Threads, NEW i \in 1 .. Depth(u)'
        PROVE  r[u][i] \notin hold'[v] /\ r[u][i] \notin Flying(v)'
    <2>1. CASE u = t /\ v = t
      BY <2>1
    <2>2. CASE u = t /\ v # t
      BY <1>3, <2>2
    <2>3. CASE u # t /\ v = t
      BY <1>4, <2>3
    <2>4. CASE u # t /\ v # t
      BY <2>4 DEF Separate
    <2> QED
      BY <2>1, <2>2, <2>3, <2>4
  <1>7. Separate(r)'
    BY <1>5, <1>6 DEF Separate
  <1> QED
    BY <1>1, <1>7

LEMMA EndPopStep ==
    ASSUME OwnCache, CacheIInv, NEW t \in Threads, EndPop(t)
    PROVE  CacheIInv'
  <1>1. PICK s \in Listing : LinkedAs(s) /\ Separate(s)
    BY DEF CacheIInv
  <1>2. PICK c, d, f, x, z : /\ c = CacheOf[t] /\ d = Depth(t) /\ f = m_freeList[c]
                             /\ x = op[t].obj /\ z = op[t].n
    OBVIOUS
  <1>3. /\ op[t].at = "popCount" /\ UNCHANGED <<m_freeList, next>>
        /\ size' = [size EXCEPT ![c] = z] /\ op' = [op EXCEPT ![t] = Idle]
        /\ hold' = [hold EXCEPT ![t] = @ \union {x}]
    BY <1>2 DEF EndPop, MyCache
  <1>4. /\ d \in Nat /\ z = d /\ f = s[t][d] /\ f \in Objects \union {Null}
        /\ m_freeList' = [m_freeList EXCEPT ![c] = f]
    BY <1>1, <1>2, <1>3, ListOf DEF UpToDate
  <1>5. x \in Objects /\ Flying(t) = {x}
    <2>1. x \in Objects
      BY <1>2, <1>3, OpForm DEF CacheIInv
    <2> QED
      BY <1>2, <1>3, <2>1 DEF Flying
  <1>6. /\ op'[t] = Idle /\ size'[c] = z /\ m_freeList'[c] = f
        /\ \A u \in Threads : u # t =>
              /\ op'[u] = op[u] /\ m_freeList'[CacheOf[u]] = m_freeList[CacheOf[u]]
              /\ Depth(u)' = Depth(u) /\ Flying(u)' = Flying(u)
    BY <1>1, <1>2, <1>3, <1>4, ListOf, Others
  <1>7. Depth(t)' = d /\ Flying(t)' = {} /\ UpToDate(t)'
    <2>1. op'[t].at = "idle"
      BY <1>6 DEF Idle
    <2>2. size'[CacheOf[t]] = d /\ d \in Nat
      BY <1>2, <1>4, <1>6
    <2>3. Depth(t)' = d
      BY <2>1, <2>2 DEF Depth
    <2> QED
      BY <2>1, <2>3 DEF Flying, UpToDate
  <1>8. /\ hold' \in [Threads -> SUBSET Objects] /\ hold'[t] = hold[t] \union {x}
        /\ \A u \in Threads : u # t => hold'[u] = hold[u]
    BY <1>1, <1>3, <1>5, ListOf
  <1>9. LinkedAs(s)' /\ Separate(s)'
    <2>1. \A i \in 1 .. d : s[t][i] \notin hold'[t]
      BY <1>1, <1>2, <1>5, <1>8 DEF Separate
    <2>2. /\ s[t][0] = Null
          /\ \A i \in 1 .. d : s[t][i] \in Objects /\ next'[s[t][i]] = s[t][i - 1]
      BY <1>1, <1>2, <1>3, ListOf
    <2>3. \A i, j \in 1 .. d : s[t][i] = s[t][j] => i = j
      BY <1>1, <1>2 DEF Separate
    <2>4. \A i \in 1 .. Depth(t)' :
              /\ s[t][i] \notin hold'[t] /\ s[t][i] \notin Flying(t)'
              /\ \E j \in 1 .. Depth(t) : s[t][i] = s[t][j]
      BY <1>2, <1>7, <2>1
    <2>5. \A y \in hold'[t] \union Flying(t)' : y \in hold[t] \union Flying(t)
      BY <1>5, <1>7, <1>8
    <2>6. Depth(t)' \in Nat /\ m_freeList'[CacheOf[t]] = s[t][Depth(t)']
      BY <1>2, <1>4, <1>6, <1>7
    <2> QED
      BY <1>1, <1>2, <1>3, <1>6, <1>7, <1>8, <2>2, <2>3, <2>4, <2>5, <2>6, ListsAfter
  <1>10. next' \in [Objects -> Objects \union {Null}] /\ Idle \in Ops
    BY <1>1, <1>3, ListOf
  <1> QED
    BY <1>1, <1>2, <1>3, <1>4, <1>5, <1>6, <1>7, <1>8, <1>9, <1>10, MovingStep

LEMMA PopStoreStep ==
    ASSUME OwnCache, CacheIInv, NEW t \in Threads, PopStore(t)
    PROVE  CacheIInv'
  <1>1. PICK s \in Listing : LinkedAs(s) /\ Separate(s)
    BY DEF CacheIInv
  <1>2. PICK c, d, f, x, z : /\ c = CacheOf[t] /\ d = Depth(t) /\ f = op[t].to
                             /\ x = op[t].obj /\ z = size[c]
    OBVIOUS
  <1>3. PICK o : o = [at |-> "popSize", obj |-> x]
    OBVIOUS
  <1>4. /\ op[t].at = "pop" /\ UNCHANGED <<size, next, hold>>
        /\ m_freeList' = [m_freeList EXCEPT ![c] = f] /\ op' = [op EXCEPT ![t] = o]
    BY <1>2, <1>3 DEF PopStore, MyCache
  <1>5. /\ d \in Nat /\ d >= 1 /\ x = m_freeList[c] /\ x = s[t][d] /\ f = s[t][d - 1]
        /\ z \in Nat /\ size' = [size EXCEPT ![c] = z]
    BY <1>1, <1>2, <1>4, ListOf DEF UpToDate
  <1>6. x \in Objects /\ f \in Objects \union {Null} /\ o \in Ops
    <2>1. x \in Objects /\ f \in Objects \union {Null}
      BY <1>1, <1>2, <1>5, ListOf
    <2> QED
      BY <1>3, <2>1 DEF Ops
  <1>7. /\ op'[t] = o /\ size'[c] = z /\ m_freeList'[c] = f
        /\ \A u \in Threads : u # t =>
              /\ op'[u] = op[u] /\ m_freeList'[CacheOf[u]] = m_freeList[CacheOf[u]]
              /\ Depth(u)' = Depth(u) /\ Flying(u)' = Flying(u)
    <2>1. CacheTypeOK /\ Unused
      BY DEF CacheIInv
    <2>2. /\ op' = [op EXCEPT ![t] = o] /\ o \in Ops
          /\ m_freeList' = [m_freeList EXCEPT ![CacheOf[t]] = f]
          /\ size' = [size EXCEPT ![CacheOf[t]] = z]
      BY <1>2, <1>4, <1>5, <1>6
    <2>3. op' = [op EXCEPT ![t] = o]
      BY <2>2
    <2>4. m_freeList' = [m_freeList EXCEPT ![CacheOf[t]] = f]
      BY <2>2
    <2>5. size' = [size EXCEPT ![CacheOf[t]] = z]
      BY <2>2
    <2>6. /\ op'[t] = o /\ m_freeList'[CacheOf[t]] = f /\ size'[CacheOf[t]] = z
          /\ op' \in [Threads -> Ops]
          /\ \A u \in Threads : u # t =>
                /\ op'[u] = op[u] /\ m_freeList'[CacheOf[u]] = m_freeList[CacheOf[u]]
                /\ Depth(u)' = Depth(u) /\ Flying(u)' = Flying(u)
          /\ Unused'
      <3>1. o \in Ops
        BY <1>6
      <3> QED
        BY <2>1, <2>3, <2>4, <2>5, <3>1, Others
    <2> QED
      BY <1>2, <2>6
  <1>8. Depth(t)' = d - 1 /\ Flying(t)' = {x} /\ Flying(t) = {} /\ UpToDate(t)'
    <2>1. d = z
      BY <1>2, <1>4, <1>5 DEF Depth
    <2>2. Flying(t)' = {x} /\ Flying(t) = {}
      BY <1>3, <1>4, <1>7 DEF Flying
    <2>3. Depth(t)' = d - 1
      BY <1>2, <1>3, <1>5, <1>7, <2>1 DEF Depth
    <2> QED
      BY <1>3, <1>7, <2>2, <2>3 DEF UpToDate
  <1>9. /\ hold' \in [Threads -> SUBSET Objects] /\ hold' = hold
        /\ next' \in [Objects -> Objects \union {Null}] /\ next' = next
    BY <1>1, <1>4, ListOf
  <1>10. /\ \A i \in 1 .. d : s[t][i] \notin hold[t]
         /\ \A i, j \in 1 .. d : s[t][i] = s[t][j] => i = j
         /\ s[t][0] = Null /\ d - 1 \in Nat
         /\ \A i \in 1 .. d : s[t][i] \in Objects /\ next[s[t][i]] = s[t][i - 1]
    BY <1>1, <1>2, <1>5, ListOf DEF Separate
  <1>11. LinkedAs(s)' /\ Separate(s)'
    <2>1. \A i \in 1 .. d - 1 : i \in 1 .. d /\ i # d
      BY <1>5
    <2>2. d \in 1 .. d
      BY <1>5
    <2>3. \A i \in 1 .. d - 1 : s[t][i] # x
      BY <1>5, <1>10, <2>1, <2>2
    <2>4. \A y \in hold[t] \union {x} :
              y \in hold[t] \union Flying(t) \/ \E j \in 1 .. d : y = s[t][j]
      BY <1>5, <2>2
    <2>5. /\ \A i \in 1 .. d - 1 : s[t][i] \in Objects /\ next'[s[t][i]] = s[t][i - 1]
          /\ \A i, j \in 1 .. d - 1 : s[t][i] = s[t][j] => i = j
          /\ \A i \in 1 .. d - 1 : s[t][i] \notin hold'[t] /\ s[t][i] \notin {x}
          /\ \A i \in 1 .. d - 1 : \E j \in 1 .. d : s[t][i] = s[t][j]
      BY <1>9, <1>10, <2>1, <2>3
    <2>6. /\ Depth(t)' \in Nat /\ m_freeList'[CacheOf[t]] = s[t][Depth(t)']
          /\ \A i \in 1 .. Depth(t)' : s[t][i] \in Objects /\ next'[s[t][i]] = s[t][i - 1]
          /\ \A i, j \in 1 .. Depth(t)' : s[t][i] = s[t][j] => i = j
          /\ \A i \in 1 .. Depth(t)' : s[t][i] \notin hold'[t] /\ s[t][i] \notin Flying(t)'
          /\ \A i \in 1 .. Depth(t)' : \E j \in 1 .. Depth(t) : s[t][i] = s[t][j]
      BY <1>2, <1>5, <1>7, <1>8, <1>10, <2>5
    <2>7. \A y \in hold'[t] \union Flying(t)' :
              y \in hold[t] \union Flying(t) \/ \E j \in 1 .. Depth(t) : y = s[t][j]
      BY <1>2, <1>8, <1>9, <2>4
    <2>8. \A u \in Threads : u # t =>
              /\ m_freeList'[CacheOf[u]] = m_freeList[CacheOf[u]]
              /\ Depth(u)' = Depth(u) /\ Flying(u)' = Flying(u) /\ hold'[u] = hold[u]
      BY <1>7, <1>9
    <2>9. \A u \in Threads : \A i \in 1 .. Depth(u) : u # t => next'[s[u][i]] = next[s[u][i]]
      BY <1>9
    <2> QED
      BY <1>1, <1>10, <2>6, <2>7, <2>8, <2>9, ListsAfter
  <1>12. hold'[t] \intersect Flying(t)' = {}
    <2>1. d \in 1 .. d
      BY <1>5
    <2> QED
      BY <1>5, <1>8, <1>9, <1>10, <2>1
  <1>13. hold'[t] \union Flying(t)' \subseteq hold[t] \union Flying(t)
               \union (IF Depth(t) >= 1 THEN {m_freeList[CacheOf[t]]} ELSE {})
    BY <1>2, <1>5, <1>8, <1>9
  <1> QED
    BY <1>1, <1>2, <1>4, <1>5, <1>6, <1>8, <1>9, <1>11, <1>12, <1>13, MovingStep

LEMMA PushStoreStep ==
    ASSUME OwnCache, CacheIInv, NEW t \in Threads, PushStore(t)
    PROVE  CacheIInv'
  <1>1. PICK s \in Listing : LinkedAs(s) /\ Separate(s)
    BY DEF CacheIInv
  <1>2. PICK c, d, x, z : c = CacheOf[t] /\ d = Depth(t) /\ x = op[t].obj /\ z = size[c]
    OBVIOUS
  <1>3. PICK o : o = [at |-> "pushSize", obj |-> x]
    OBVIOUS
  <1>4. /\ op[t].at = "push" /\ UNCHANGED <<size, next, hold>>
        /\ m_freeList' = [m_freeList EXCEPT ![c] = x] /\ op' = [op EXCEPT ![t] = o]
    BY <1>2, <1>3 DEF PushStore, MyCache
  <1>5. /\ d \in Nat /\ next[x] = s[t][d]
        /\ z \in Nat /\ size' = [size EXCEPT ![c] = z]
    BY <1>1, <1>2, <1>4, ListOf DEF UpToDate
  <1>6. x \in Objects /\ o \in Ops
    <2>1. x \in Objects
      BY <1>2, <1>4, OpForm DEF CacheIInv
    <2> QED
      BY <1>3, <2>1 DEF Ops
  <1>7. /\ op'[t] = o /\ size'[c] = z /\ m_freeList'[c] = x
        /\ \A u \in Threads : u # t =>
              /\ op'[u] = op[u] /\ m_freeList'[CacheOf[u]] = m_freeList[CacheOf[u]]
              /\ Depth(u)' = Depth(u) /\ Flying(u)' = Flying(u)
    <2>1. CacheTypeOK /\ Unused
      BY DEF CacheIInv
    <2>2. /\ op' = [op EXCEPT ![t] = o]
          /\ m_freeList' = [m_freeList EXCEPT ![CacheOf[t]] = x]
          /\ size' = [size EXCEPT ![CacheOf[t]] = z]
      BY <1>2, <1>4, <1>5
    <2>3. op' = [op EXCEPT ![t] = o]
      BY <2>2
    <2>4. m_freeList' = [m_freeList EXCEPT ![CacheOf[t]] = x]
      BY <2>2
    <2>5. size' = [size EXCEPT ![CacheOf[t]] = z]
      BY <2>2
    <2>6. /\ op'[t] = o /\ m_freeList'[CacheOf[t]] = x /\ size'[CacheOf[t]] = z
          /\ op' \in [Threads -> Ops]
          /\ \A u \in Threads : u # t =>
                /\ op'[u] = op[u] /\ m_freeList'[CacheOf[u]] = m_freeList[CacheOf[u]]
                /\ Depth(u)' = Depth(u) /\ Flying(u)' = Flying(u)
          /\ Unused'
      <3>1. o \in Ops
        BY <1>6
      <3> QED
        BY <2>1, <2>3, <2>4, <2>5, <3>1, Others
    <2> QED
      BY <1>2, <2>6
  <1>8. Depth(t)' = d + 1 /\ Flying(t)' = {} /\ Flying(t) = {x} /\ UpToDate(t)'
    <2>1. d = z
      BY <1>2, <1>4, <1>5 DEF Depth
    <2>2. Flying(t)' = {} /\ Flying(t) = {x}
      BY <1>2, <1>3, <1>4, <1>7 DEF Flying
    <2>3. Depth(t)' = d + 1
      BY <1>2, <1>3, <1>5, <1>7, <2>1 DEF Depth
    <2> QED
      BY <1>3, <1>7, <2>2, <2>3 DEF UpToDate
  <1>9. /\ hold' \in [Threads -> SUBSET Objects] /\ hold' = hold
        /\ next' \in [Objects -> Objects \union {Null}] /\ next' = next
    BY <1>1, <1>4, ListOf
  <1>10. /\ \A i \in 1 .. d : s[t][i] \notin hold[t] /\ s[t][i] # x
         /\ \A i, j \in 1 .. d : s[t][i] = s[t][j] => i = j
         /\ s[t][0] = Null
         /\ \A i \in 1 .. d : s[t][i] \in Objects /\ next[s[t][i]] = s[t][i - 1]
    BY <1>1, <1>2, <1>8, ListOf DEF Separate
  <1>11. x \notin hold[t]
    BY <1>8 DEF CacheIInv, Owned
  <1>12. PICK r \in Listing :
             /\ \A u \in Threads : u # t => r[u] = s[u]
             /\ r[t][d + 1] = x
             /\ \A i \in Nat : i # d + 1 => r[t][i] = s[t][i]
    <2>1. PICK q : q = [i \in Nat |-> IF i = d + 1 THEN x ELSE s[t][i]]
      OBVIOUS
    <2>2. \A i \in Nat : s[t][i] \in Objects \union {Null}
      BY <1>1, ListOf
    <2>3. q \in [Nat -> Objects \union {Null}]
      BY <1>6, <2>1, <2>2
    <2>4. PICK r : r = [u \in Threads |-> IF u = t THEN q ELSE s[u]]
      OBVIOUS
    <2>5. r \in Listing /\ r[t] = q /\ \A u \in Threads : u # t => r[u] = s[u]
      BY <1>1, <2>3, <2>4 DEF Listing
    <2>6. q[d + 1] = x /\ \A i \in Nat : i # d + 1 => q[i] = s[t][i]
      BY <1>5, <2>1
    <2> QED
      BY <2>5, <2>6
  <1>13. LinkedAs(r)' /\ Separate(r)'
    <2>1. /\ \A i \in 1 .. d + 1 : i \in Nat /\ (i # d + 1 => i \in 1 .. d)
          /\ \A i \in 1 .. d : i \in Nat /\ i # d + 1 /\ i - 1 \in Nat /\ i - 1 # d + 1
          /\ d \in Nat /\ d # d + 1 /\ d + 1 - 1 = d /\ 0 # d + 1 /\ d + 1 \in Nat
      BY <1>5
    <2>2. \A i \in 1 .. d : r[t][i] = s[t][i] /\ r[t][i - 1] = s[t][i - 1]
      BY <1>12, <2>1
    <2>3. r[t][0] = Null /\ r[t][d] = s[t][d]
      BY <1>10, <1>12, <2>1
    <2>4. ASSUME NEW i \in 1 .. d + 1
          PROVE  /\ r[t][i] \in Objects /\ next'[r[t][i]] = r[t][i - 1]
                 /\ r[t][i] \notin hold'[t]
                 /\ \/ \E j \in 1 .. d : r[t][i] = s[t][j]
                    \/ r[t][i] \in Flying(t)
      <3>1. CASE i = d + 1
        BY <1>5, <1>6, <1>8, <1>9, <1>11, <1>12, <2>1, <2>3, <3>1
      <3>2. CASE i \in 1 .. d
        BY <1>9, <1>10, <2>2, <3>2
      <3> QED
        BY <2>1, <3>1, <3>2
    <2>5. ASSUME NEW i \in 1 .. d + 1, NEW j \in 1 .. d + 1, r[t][i] = r[t][j]
          PROVE  i = j
      BY <1>10, <1>12, <2>1, <2>2, <2>5
    <2>6. /\ Depth(t)' \in Nat /\ m_freeList'[CacheOf[t]] = r[t][Depth(t)']
          /\ \A i \in 1 .. Depth(t)' : r[t][i] \in Objects /\ next'[r[t][i]] = r[t][i - 1]
          /\ \A i, j \in 1 .. Depth(t)' : r[t][i] = r[t][j] => i = j
          /\ \A i \in 1 .. Depth(t)' : r[t][i] \notin hold'[t] /\ r[t][i] \notin Flying(t)'
          /\ \A i \in 1 .. Depth(t)' : \/ \E j \in 1 .. Depth(t) : r[t][i] = s[t][j]
                                       \/ r[t][i] \in Flying(t)
      BY <1>2, <1>7, <1>8, <1>12, <2>1, <2>4, <2>5
    <2>7. \A y \in hold'[t] \union Flying(t)' : y \in hold[t] \union Flying(t)
      BY <1>8, <1>9
    <2>8. \A u \in Threads : u # t =>
              /\ r[u] = s[u] /\ m_freeList'[CacheOf[u]] = m_freeList[CacheOf[u]]
              /\ Depth(u)' = Depth(u) /\ Flying(u)' = Flying(u) /\ hold'[u] = hold[u]
      BY <1>7, <1>9, <1>12
    <2> QED
      BY <1>1, <1>9, <2>3, <2>6, <2>7, <2>8, ListsAfter
  <1>14. /\ hold'[t] \intersect Flying(t)' = {}
         /\ hold'[t] \union Flying(t)' \subseteq hold[t] \union Flying(t)
               \union (IF Depth(t) >= 1 THEN {m_freeList[CacheOf[t]]} ELSE {})
    BY <1>8, <1>9
  <1> QED
    BY <1>1, <1>2, <1>4, <1>5, <1>6, <1>8, <1>9, <1>12, <1>13, <1>14, MovingStep

(* The object goes from the caller's hands to the call.                    *)
LEMMA BeginPushStep ==
    ASSUME OwnCache, CacheIInv, NEW t \in Threads, NEW x \in Objects, BeginPush(t, x)
    PROVE  CacheIInv'
  <1>1. PICK s \in Listing : LinkedAs(s) /\ Separate(s)
    BY DEF CacheIInv
  <1>2. PICK c, d, f, z : c = CacheOf[t] /\ d = Depth(t) /\ f = m_freeList[c] /\ z = size[c]
    OBVIOUS
  <1>3. PICK o : o = [at |-> "push", obj |-> x]
    OBVIOUS
  <1>4. /\ op[t] = Idle /\ x \in hold[t] /\ UNCHANGED <<m_freeList, size>>
        /\ hold' = [hold EXCEPT ![t] = @ \ {x}]
        /\ next' = [next EXCEPT ![x] = f] /\ op' = [op EXCEPT ![t] = o]
    BY <1>2, <1>3 DEF BeginPush, MyCache
  <1>5. /\ d \in Nat /\ f = s[t][d] /\ f \in Objects \union {Null} /\ z \in Nat
        /\ size' = [size EXCEPT ![c] = z] /\ m_freeList' = [m_freeList EXCEPT ![c] = f]
    BY <1>1, <1>2, <1>4, ListOf
  <1>6. o \in Ops
    BY <1>3 DEF Ops
  <1>7. /\ op'[t] = o /\ size'[c] = z /\ m_freeList'[c] = f
        /\ \A u \in Threads : u # t =>
              /\ op'[u] = op[u] /\ m_freeList'[CacheOf[u]] = m_freeList[CacheOf[u]]
              /\ Depth(u)' = Depth(u) /\ Flying(u)' = Flying(u)
    <2>1. CacheTypeOK /\ Unused
      BY DEF CacheIInv
    <2>2. /\ op' = [op EXCEPT ![t] = o]
          /\ m_freeList' = [m_freeList EXCEPT ![CacheOf[t]] = f]
          /\ size' = [size EXCEPT ![CacheOf[t]] = z]
      BY <1>2, <1>4, <1>5
    <2>3. op' = [op EXCEPT ![t] = o]
      BY <2>2
    <2>4. m_freeList' = [m_freeList EXCEPT ![CacheOf[t]] = f]
      BY <2>2
    <2>5. size' = [size EXCEPT ![CacheOf[t]] = z]
      BY <2>2
    <2>6. /\ op'[t] = o /\ m_freeList'[CacheOf[t]] = f /\ size'[CacheOf[t]] = z
          /\ op' \in [Threads -> Ops]
          /\ \A u \in Threads : u # t =>
                /\ op'[u] = op[u] /\ m_freeList'[CacheOf[u]] = m_freeList[CacheOf[u]]
                /\ Depth(u)' = Depth(u) /\ Flying(u)' = Flying(u)
          /\ Unused'
      <3>1. o \in Ops
        BY <1>6
      <3> QED
        BY <2>1, <2>3, <2>4, <2>5, <3>1, Others
    <2> QED
      BY <1>2, <2>6
  <1>8. /\ hold' \in [Threads -> SUBSET Objects] /\ hold'[t] = hold[t] \ {x}
        /\ \A u \in Threads : u # t => hold'[u] = hold[u]
    BY <1>1, <1>4, ListOf
  <1>9. /\ next' \in [Objects -> Objects \union {Null}] /\ next'[x] = f
        /\ \A y \in Objects : y # x => next'[y] = next[y]
    BY <1>1, <1>4, <1>5, ListOf
  <1>10. Depth(t)' = d /\ Flying(t)' = {x} /\ Flying(t) = {} /\ UpToDate(t)'
    <2>1. d = z
      BY <1>2, <1>4, <1>5 DEF Depth, Idle
    <2>2. Flying(t)' = {x} /\ Flying(t) = {}
      BY <1>3, <1>4, <1>7 DEF Flying, Idle
    <2>3. Depth(t)' = d
      BY <1>2, <1>3, <1>5, <1>7, <2>1 DEF Depth
    <2>4. op'[t].at = "push" /\ op'[t].obj = x
      BY <1>3, <1>7
    <2>5. next'[x] = m_freeList'[CacheOf[t]]
      BY <1>2, <1>7, <1>9
    <2>6. UpToDate(t)'
      BY <2>4, <2>5 DEF UpToDate
    <2> QED
      BY <2>2, <2>3, <2>6
  <1>11. \A u \in Threads : \A i \in 1 .. Depth(u) :
             s[u][i] # x /\ s[u][i] \in Objects /\ next'[s[u][i]] = next[s[u][i]]
    BY <1>1, <1>4, <1>9 DEF Separate, LinkedAs
  <1>12. \A u \in Threads : \A y \in Flying(u) : next'[y] = next[y]
    <2>1. ASSUME NEW u \in Threads, NEW y \in Flying(u) PROVE y # x /\ y \in Objects
      <3>1. y # x
        BY <1>4 DEF CacheIInv, Owned
      <3>2. y = op[u].obj /\ op[u].at \in {"popSize", "popCount", "push"}
        BY DEF Flying
      <3> QED
        BY <3>1, <3>2, OpForm DEF CacheIInv
    <2> QED
      BY <1>9, <2>1
  <1>13. LinkedAs(s)' /\ Separate(s)'
    <2>1. /\ \A i \in 1 .. d : s[t][i] \notin hold[t] /\ s[t][i] # x
          /\ \A i, j \in 1 .. d : s[t][i] = s[t][j] => i = j
          /\ s[t][0] = Null
          /\ \A i \in 1 .. d : s[t][i] \in Objects /\ next'[s[t][i]] = s[t][i - 1]
      BY <1>1, <1>2, <1>11, ListOf DEF Separate
    <2>2. /\ Depth(t)' \in Nat /\ m_freeList'[CacheOf[t]] = s[t][Depth(t)']
          /\ \A i \in 1 .. Depth(t)' : s[t][i] \in Objects /\ next'[s[t][i]] = s[t][i - 1]
          /\ \A i, j \in 1 .. Depth(t)' : s[t][i] = s[t][j] => i = j
          /\ \A i \in 1 .. Depth(t)' : s[t][i] \notin hold'[t] /\ s[t][i] \notin Flying(t)'
          /\ \A i \in 1 .. Depth(t)' : \E j \in 1 .. Depth(t) : s[t][i] = s[t][j]
      BY <1>2, <1>5, <1>7, <1>8, <1>10, <2>1
    <2>3. \A y \in hold'[t] \union Flying(t)' : y \in hold[t] \union Flying(t)
      BY <1>4, <1>8, <1>10
    <2>4. \A u \in Threads : u # t =>
              /\ m_freeList'[CacheOf[u]] = m_freeList[CacheOf[u]]
              /\ Depth(u)' = Depth(u) /\ Flying(u)' = Flying(u) /\ hold'[u] = hold[u]
      BY <1>7, <1>8
    <2> QED
      BY <1>1, <1>11, <2>1, <2>2, <2>3, <2>4, ListsAfter
  <1>14. /\ hold'[t] \intersect Flying(t)' = {}
         /\ hold'[t] \union Flying(t)' \subseteq hold[t] \union Flying(t)
               \union (IF Depth(t) >= 1 THEN {m_freeList[CacheOf[t]]} ELSE {})
    BY <1>4, <1>8, <1>10
  <1>15. /\ \A u \in Threads : \A y \in Flying(u) : u # t => next'[y] = next[y]
         /\ \A u \in Threads : \A i \in 1 .. Depth(u) : u # t => next'[s[u][i]] = next[s[u][i]]
    BY <1>11, <1>12
  <1>16. /\ op' = [op EXCEPT ![t] = o]
         /\ m_freeList' = [m_freeList EXCEPT ![CacheOf[t]] = f]
         /\ size' = [size EXCEPT ![CacheOf[t]] = z]
    BY <1>2, <1>4, <1>5
  <1>17. UpToDate(t)' /\ f \in Objects \union {Null} /\ z \in Nat
         /\ next' \in [Objects -> Objects \union {Null}]
    BY <1>5, <1>9, <1>10
  <1> QED
    BY <1>1, <1>6, <1>8, <1>13, <1>14, <1>15, <1>16, <1>17, MovingStep

(* Only who holds it changes.                                              *)
LEMMA PassStep ==
    ASSUME CacheIInv, NEW t \in Threads, NEW v \in Threads, t # v, NEW x \in Objects, Pass(t, v, x)
    PROVE  CacheIInv'
  <1>1. /\ x \in hold[t] /\ UNCHANGED <<m_freeList, next, size, op>>
        /\ hold' = [hold EXCEPT ![t] = @ \ {x}, ![v] = @ \union {x}]
    BY DEF Pass
  <1>2. hold \in [Threads -> SUBSET Objects]
    BY DEF CacheIInv, CacheTypeOK
  <1>3. /\ hold' \in [Threads -> SUBSET Objects]
        /\ hold'[t] = hold[t] \ {x} /\ hold'[v] = hold[v] \union {x}
        /\ \A u \in Threads : u # t /\ u # v => hold'[u] = hold[u]
    BY <1>1, <1>2
  <1>4. \A u \in Threads : Depth(u)' = Depth(u) /\ Flying(u)' = Flying(u) /\ (UpToDate(u) => UpToDate(u)')
    BY <1>1 DEF Depth, Flying, UpToDate
  <1>5. CacheTypeOK'
    BY <1>1, <1>3 DEF CacheIInv, CacheTypeOK
  <1>6. Registers' /\ Unused'
    BY <1>1, <1>4 DEF CacheIInv, Registers, Unused
  <1>7. \A u \in Threads : x \notin Flying(u) /\ (u # t => x \notin hold[u])
    BY <1>1 DEF CacheIInv, Owned
  <1>8. Owned'
    <2>1. ASSUME NEW u \in Threads, NEW w \in Threads
          PROVE  /\ hold'[u] \intersect Flying(w)' = {}
                 /\ u # w => hold'[u] \intersect hold'[w] = {} /\ Flying(u)' \intersect Flying(w)' = {}
      <3>1. /\ hold[u] \intersect Flying(w) = {}
            /\ u # w => hold[u] \intersect hold[w] = {} /\ Flying(u) \intersect Flying(w) = {}
        BY DEF CacheIInv, Owned
      <3>2. hold'[u] \subseteq hold[u] \union {x} /\ hold'[w] \subseteq hold[w] \union {x}
        BY <1>3
      <3>3. x \in hold'[u] => u = v
        BY <1>3, <1>7
      <3>4. x \in hold'[w] => w = v
        BY <1>3, <1>7
      <3> QED
        BY <1>4, <1>7, <3>1, <3>2, <3>3, <3>4
    <2> QED
      BY <2>1 DEF Owned
  <1>9. PICK s \in Listing : LinkedAs(s) /\ Separate(s)
    BY DEF CacheIInv
  <1>10. LinkedAs(s)' /\ Separate(s)'
    <2>1. LinkedAs(s)'
      BY <1>1, <1>4, <1>9 DEF LinkedAs
    <2>2. \A u \in Threads : \A i \in 1 .. Depth(u) : s[u][i] # x
      BY <1>1, <1>9 DEF Separate
    <2>3. \A u \in Threads : hold'[u] \subseteq hold[u] \union {x}
      BY <1>3
    <2>4. Separate(s)'
      BY <1>4, <1>9, <2>2, <2>3 DEF Separate
    <2> QED
      BY <2>1, <2>4
  <1> QED
    BY <1>5, <1>6, <1>8, <1>9, <1>10 DEF CacheIInv

LEMMA InitCaches == CacheInit => CacheIInv
  <1> SUFFICES ASSUME CacheInit PROVE CacheIInv
    OBVIOUS
  <1>1. PICK owner \in [Objects -> Threads] :
            hold = [t \in Threads |-> {o \in Objects : owner[o] = t}]
    BY DEF CacheInit
  <1>2. \A t \in Threads : hold[t] = {o \in Objects : owner[o] = t}
    BY <1>1
  <1>3. \A t \in Threads : op[t] = Idle /\ op[t].at = "idle"
    BY DEF CacheInit, Idle
  <1>4. /\ \A t \in Threads : CacheOf[t] \in Caches
        /\ \A c \in Caches : m_freeList[c] = Null /\ size[c] = 0
    BY FreeListAssumption DEF CacheInit
  <1>5. \A t \in Threads : Depth(t) = 0 /\ Flying(t) = {} /\ UpToDate(t)
    BY <1>3, <1>4 DEF Depth, Flying, UpToDate
  <1>6. CacheTypeOK
    <2>1. hold \in [Threads -> SUBSET Objects]
      BY <1>1
    <2>2. Idle \in Ops
      BY DEF Ops
    <2>3. op \in [Threads -> Ops]
      BY <2>2 DEF CacheInit
    <2> QED
      BY <2>1, <2>3 DEF CacheInit, CacheTypeOK
  <1>7. Owned
    BY <1>2, <1>5 DEF Owned
  <1>8. PICK s : s = [t \in Threads |-> [i \in Nat |-> Null]]
    OBVIOUS
  <1>9. s \in Listing /\ \A t \in Threads : s[t][0] = Null
    BY <1>8 DEF Listing
  <1>10. LinkedAs(s) /\ Separate(s)
    BY <1>4, <1>5, <1>9 DEF LinkedAs, Separate
  <1> QED
    BY <1>4, <1>5, <1>6, <1>7, <1>9, <1>10 DEF CacheIInv, Registers, Unused

LEMMA StepCaches == OwnCache /\ CacheIInv /\ [CacheNext]_cacheVars => CacheIInv'
  <1> SUFFICES ASSUME OwnCache, CacheIInv, [CacheNext]_cacheVars PROVE CacheIInv'
    OBVIOUS
  <1>1. CASE UNCHANGED cacheVars
    <2>1. UNCHANGED <<m_freeList, next, size, hold, op>>
      BY <1>1 DEF cacheVars
    <2>2. CacheTypeOK' /\ Owned' /\ Registers' /\ Unused'
      BY <2>1 DEF CacheIInv, CacheTypeOK, Owned, Registers, Unused, Flying, UpToDate, Depth
    <2>3. PICK s \in Listing : LinkedAs(s) /\ Separate(s)
      BY DEF CacheIInv
    <2>4. \A t \in Threads : Depth(t)' = Depth(t) /\ Flying(t)' = Flying(t)
      BY <2>1 DEF Depth, Flying
    <2>5. LinkedAs(s)'
      BY <2>1, <2>3, <2>4 DEF LinkedAs
    <2>6. Separate(s)'
      BY <2>1, <2>3, <2>4 DEF Separate
    <2> QED
      BY <2>2, <2>3, <2>5, <2>6 DEF CacheIInv
  <1>2. CASE CacheNext
    <2>1. PICK t \in Threads :
            \/ BeginPop(t) \/ PopLoad(t) \/ PopNext(t) \/ PopStore(t) \/ PopCount(t) \/ EndPop(t)
            \/ \E o \in Objects : BeginPush(t, o) \/ \E u \in Threads \ {t} : Pass(t, u, o)
            \/ PushStore(t) \/ PushCount(t) \/ EndPush(t)
      BY <1>2 DEF CacheNext
    <2>2. CASE BeginPop(t) \/ PopLoad(t) \/ PopNext(t) \/ PopCount(t) \/ PushCount(t)
      BY <2>2, ReadingSteps
    <2>3. CASE PopStore(t)
      BY <2>3, PopStoreStep
    <2>4. CASE EndPop(t)
      BY <2>4, EndPopStep
    <2>5. CASE \E o \in Objects : BeginPush(t, o)
      BY <2>5, BeginPushStep
    <2>6. CASE \E o \in Objects : \E u \in Threads \ {t} : Pass(t, u, o)
      <3>1. PICK o \in Objects : \E u \in Threads \ {t} : Pass(t, u, o)
        BY <2>6
      <3>2. PICK u \in Threads : u # t /\ Pass(t, u, o)
        BY <3>1
      <3> QED
        BY <3>2, PassStep
    <2>7. CASE PushStore(t)
      BY <2>7, PushStoreStep
    <2>8. CASE EndPush(t)
      BY <2>8, EndPushStep
    <2> QED
      BY <2>1, <2>2, <2>3, <2>4, <2>5, <2>6, <2>7, <2>8
  <1> QED
    BY <1>1, <1>2

-----------------------------------------------------------------------------
(* What a call has taken is in nobody's hands: it was the first object of  *)
(* the list, or has just left it.                                          *)
LEMMA OneHolderHolds == OwnCache /\ CacheIInv => OneHolder
  <1> SUFFICES ASSUME OwnCache, CacheIInv PROVE OneHolder
    OBVIOUS
  <1>1. PICK s \in Listing : LinkedAs(s) /\ Separate(s)
    BY DEF CacheIInv
  <1>2. ASSUME NEW t \in Threads, NEW x \in Popped(t)
        PROVE  \/ x \in Flying(t)
               \/ \E i \in 1 .. Depth(t) : x = s[t][i]
    <2>1. x = op[t].obj /\ op[t].at \in {"next", "pop", "popSize", "popCount"}
      BY <1>2 DEF Popped
    <2>2. CASE op[t].at \in {"popSize", "popCount"}
      BY <2>1, <2>2 DEF Flying
    <2>3. CASE op[t].at \in {"next", "pop"}
      <3>1. Depth(t) >= 1 /\ x = m_freeList[CacheOf[t]]
        BY <2>1, <2>3 DEF CacheIInv, Registers, UpToDate
      <3>2. Depth(t) \in Nat /\ m_freeList[CacheOf[t]] = s[t][Depth(t)]
        BY <1>1 DEF LinkedAs
      <3>3. Depth(t) \in 1 .. Depth(t)
        BY <3>1, <3>2
      <3> QED
        BY <3>1, <3>2, <3>3
    <2> QED
      BY <2>1, <2>2, <2>3
  <1>3. ASSUME NEW t \in Threads, NEW u \in Threads, t # u, NEW x, x \in hold[t] \union Popped(t)
        PROVE  x \notin hold[u] \union Popped(u)
    <2>1. CASE x \in hold[t] \/ x \in Flying(t)
      <3>1. x \notin hold[u] /\ x \notin Flying(u)
        BY <1>3, <2>1 DEF CacheIInv, Owned
      <3>2. \A i \in 1 .. Depth(u) : x # s[u][i]
        BY <1>1, <2>1 DEF Separate
      <3> QED
        BY <1>2, <3>1, <3>2
    <2>2. CASE \E i \in 1 .. Depth(t) : x = s[t][i]
      <3>1. x \notin hold[u] /\ x \notin Flying(u)
        BY <1>1, <2>2 DEF Separate
      <3>2. \A i \in 1 .. Depth(u) : x # s[u][i]
        BY <1>1, <1>3, <2>2 DEF Separate
      <3> QED
        BY <1>2, <3>1, <3>2
    <2> QED
      BY <1>2, <1>3, <2>1, <2>2
  <1> QED
    BY <1>3 DEF OneHolder

(* The last i + 1 of k numbers.                                            *)
TopOf(k, i) == {j \in 1 .. k : j >= k - i}

LastOf(q, k, i) == {q[j] : j \in TopOf(k, i)}

(* S, and what follows in the lists.                                       *)
Onward(S) == S \union ({next[o] : o \in S} \ {Null})

(* q is the list of cache c from its end, k objects long.                  *)
Chained(c, k, q) ==
    /\ q[0] = Null /\ m_freeList[c] = q[k]
    /\ \A j \in 1 .. k : q[j] \in Objects /\ next[q[j]] = q[j - 1]

(* Walking a list from its first object, one link a step.                  *)
LEMMA Walk ==
    ASSUME NEW c, NEW k \in Nat, NEW q, Chained(c, k, q)
    PROVE  /\ {m_freeList[c]} \ {Null} = LastOf(q, k, 0)
           /\ \A i \in Nat : i # 0 => LastOf(q, k, i) = Onward(LastOf(q, k, i - 1))
  <1>0. /\ q[0] = Null /\ m_freeList[c] = q[k]
        /\ \A j \in 1 .. k : q[j] \in Objects /\ next[q[j]] = q[j - 1]
    BY DEF Chained
  <1>1. \A j \in 1 .. k : q[j] # Null
    BY <1>0, FreeListAssumption
  <1>2. {m_freeList[c]} \ {Null} = LastOf(q, k, 0)
    <2>1. CASE k = 0
      BY <1>0, <2>1 DEF TopOf, LastOf
    <2>2. CASE k # 0
      <3>1. TopOf(k, 0) = {k}
        BY <2>2 DEF TopOf
      <3>2. q[k] # Null
        BY <1>1, <2>2
      <3> QED
        BY <1>0, <3>1, <3>2 DEF LastOf
    <2> QED
      BY <2>1, <2>2
  <1>3. ASSUME NEW i \in Nat, i # 0
        PROVE  LastOf(q, k, i) = Onward(LastOf(q, k, i - 1))
    <2>1. ASSUME NEW j \in TopOf(k, i)
          PROVE  j \in TopOf(k, i - 1) \/ j + 1 \in TopOf(k, i - 1)
      BY <1>3 DEF TopOf
    <2>2. ASSUME NEW j \in TopOf(k, i - 1)
          PROVE  j \in TopOf(k, i) /\ (j # 1 => j - 1 \in TopOf(k, i))
      BY <1>3 DEF TopOf
    <2>3. ASSUME NEW j \in TopOf(k, i), j + 1 \in TopOf(k, i - 1)
          PROVE  q[j] = next[q[j + 1]] /\ q[j] # Null
      <3>1. j \in 1 .. k /\ j + 1 \in 1 .. k /\ j + 1 - 1 = j
        BY <2>3 DEF TopOf
      <3> QED
        BY <1>0, <1>1, <3>1
    <2>4. ASSUME NEW j \in TopOf(k, i - 1), next[q[j]] # Null
          PROVE  j - 1 \in TopOf(k, i) /\ next[q[j]] = q[j - 1]
      <3>1. j \in 1 .. k
        BY DEF TopOf
      <3>2. next[q[j]] = q[j - 1]
        BY <1>0, <3>1
      <3>3. j # 1
        BY <1>0, <2>4, <3>2
      <3> QED
        BY <2>2, <3>2, <3>3
    <2> DEFINE Near == LastOf(q, k, i - 1)
               Off == LastOf(q, k, i)
    <2>5. ASSUME NEW x \in Off PROVE x \in Near \union ({next[o] : o \in Near} \ {Null})
      <3>1. PICK j \in TopOf(k, i) : x = q[j]
        BY DEF LastOf
      <3>2. CASE j \in TopOf(k, i - 1)
        BY <3>1, <3>2 DEF LastOf
      <3>3. CASE j + 1 \in TopOf(k, i - 1)
        BY <2>3, <3>1, <3>3 DEF LastOf
      <3> QED
        BY <2>1, <3>2, <3>3
    <2>6. ASSUME NEW x \in Near PROVE x \in Off
      BY <2>2 DEF LastOf
    <2>7. ASSUME NEW o \in Near, next[o] # Null PROVE next[o] \in Off
      <3>1. PICK j \in TopOf(k, i - 1) : o = q[j]
        BY DEF LastOf
      <3> QED
        BY <2>4, <2>7, <3>1 DEF LastOf
    <2>8. Off = Near \union ({next[o] : o \in Near} \ {Null})
      <3> HIDE DEF Near, Off
      <3> QED
        BY <2>5, <2>6, <2>7
    <2> QED
      BY <2>8 DEF Onward
  <1> QED
    BY <1>2, <1>3

(* The function that Reachable defines by recursion exists, and there is   *)
(* only one.                                                               *)
LEMMA ReachableIs ==
    ASSUME NEW c, NEW k \in Nat, NEW q, Chained(c, k, q),
           \A i, j \in 1 .. k : q[i] = q[j] => i = j
    PROVE  Reachable(c) = {q[j] : j \in 1 .. k} /\ Cardinality(Reachable(c)) = k
  <1> DEFINE List == {q[j] : j \in 1 .. k}
             n == Cardinality(Objects)
             f == [j \in 1 .. k |-> q[j]]
             Walked == [i \in 0 .. n |-> LastOf(q, k, i)]
             Steps(g) == g = [i \in 0 .. n |->
                 IF i = 0 THEN {m_freeList[c]} \ {Null}
                 ELSE Onward(g[i - 1])]
  <1>1. IsFiniteSet(1 .. k) /\ Cardinality(1 .. k) = k
    BY FS_Interval
  <1>2. k <= n /\ n \in Nat
    <2>1. f \in Injection(1 .. k, Objects)
      BY DEF Chained, Injection, IsInjective
    <2>2. IsFiniteSet(Objects)
      BY FreeListAssumption
    <2> HIDE DEF f
    <2> QED
      BY <1>1, <2>1, <2>2, FS_Injection, FS_CardinalityType
  <1>3. Cardinality(List) = k
    <2>1. f \in Bijection(1 .. k, List)
      BY DEF Bijection, Injection, Surjection, IsInjective
    <2>2. ExistsBijection(1 .. k, List)
      BY <2>1 DEF ExistsBijection
    <2> HIDE DEF List, f
    <2> QED
      BY <1>1, <2>2, FS_Bijection
  <1>4. /\ {m_freeList[c]} \ {Null} = LastOf(q, k, 0)
        /\ \A i \in Nat : i # 0 => LastOf(q, k, i) = Onward(LastOf(q, k, i - 1))
    BY Walk
  <1>5. Steps(Walked)
    <2>1. ASSUME NEW i \in 0 .. n, i # 0
          PROVE  Walked[i] = Onward(Walked[i - 1])
      <3>1. i \in Nat /\ i - 1 \in 0 .. n
        BY <1>2, <2>1
      <3>2. Walked[i] = LastOf(q, k, i) /\ Walked[i - 1] = LastOf(q, k, i - 1)
        BY <3>1
      <3> HIDE DEF Walked
      <3> QED
        BY <2>1, <3>1, <3>2, <1>4
    <2>2. 0 \in 0 .. n
      BY <1>2
    <2>3. Walked[0] = {m_freeList[c]} \ {Null}
      <3>1. Walked[0] = LastOf(q, k, 0)
        BY <2>2
      <3> HIDE DEF Walked
      <3> QED
        BY <3>1, <1>4
    <2>4. Walked = [i \in 0 .. n |-> Walked[i]]
      OBVIOUS
    <2> HIDE DEF Walked
    <2> QED
      BY <2>1, <2>3, <2>4
  <1>6. ASSUME NEW g, Steps(g) PROVE g[n] = List
    <2>1. /\ g[0] = {m_freeList[c]} \ {Null}
          /\ \A i \in 0 .. n : i # 0 => g[i] = Onward(g[i - 1])
      <3>1. PICK h : h = g
        OBVIOUS
      <3>2. h = [i \in 0 .. n |-> IF i = 0 THEN {m_freeList[c]} \ {Null} ELSE Onward(g[i - 1])]
        BY <1>6, <3>1
      <3>3. 0 \in 0 .. n
        BY <1>2
      <3>4. /\ h[0] = {m_freeList[c]} \ {Null}
            /\ \A i \in 0 .. n : i # 0 => h[i] = Onward(g[i - 1])
        BY <3>2, <3>3
      <3> QED
        BY <3>1, <3>4
    <2>2. ASSUME NEW i \in 0 .. n, i # 0, g[i - 1] = LastOf(q, k, i - 1)
          PROVE  g[i] = LastOf(q, k, i)
      <3>1. i \in Nat
        OBVIOUS
      <3> QED
        BY <2>1, <2>2, <3>1, <1>4
    <2>3. g[0] = LastOf(q, k, 0)
      BY <2>1, <1>4
    <2> DEFINE Bad == {i \in 0 .. n : g[i] # LastOf(q, k, i)}
    <2>4. Bad = {}
      <3>1. SUFFICES ASSUME Bad # {} PROVE FALSE
        OBVIOUS
      <3>2. Bad \subseteq Nat
        BY <1>2
      <3>3. PICK i \in Bad : \A y \in Bad : i <= y
        <4> HIDE DEF Bad
        <4> QED
          BY <3>1, <3>2, LeastIn
      <3>4. i \in 0 .. n /\ g[i] # LastOf(q, k, i) /\ i # 0
        BY <2>3
      <3>5. i - 1 \in 0 .. n /\ i - 1 \in Nat /\ i \in Nat /\ i - 1 < i
        BY <1>2, <3>4
      <3>6. i - 1 \notin Bad
        BY <3>3, <3>5
      <3>7. g[i - 1] = LastOf(q, k, i - 1)
        BY <3>5, <3>6
      <3> QED
        BY <2>2, <3>4, <3>7
    <2>5. n \in 0 .. n
      BY <1>2
    <2>6. TopOf(k, n) = 1 .. k
      BY <1>2 DEF TopOf
    <2>7. g[n] = LastOf(q, k, n)
      BY <2>4, <2>5
    <2> QED
      BY <2>6, <2>7 DEF LastOf
  <1>7. PICK g : Steps(g) /\ Reachable(c) = g[n]
    BY <1>5 DEF Reachable, Onward
  <1>8. Reachable(c) = List
    BY <1>6, <1>7
  <1> QED
    BY <1>3, <1>8

LEMMA ListIntactHolds == OwnCache /\ CacheIInv => ListIntact
  <1> SUFFICES ASSUME OwnCache, CacheIInv, NEW c \in Caches,
                      \A t \in Threads : MyCache(t) = c => op[t] = Idle
               PROVE  /\ size[c] = Cardinality(Reachable(c))
                      /\ \A t \in Threads : Reachable(c) \intersect hold[t] = {}
    BY DEF ListIntact
  <1>1. CASE \A t \in Threads : CacheOf[t] # c
    <2>1. m_freeList[c] = Null /\ size[c] = 0
      BY <1>1 DEF CacheIInv, Unused
    <2>2. PICK q : q = [i \in Nat |-> Null]
      OBVIOUS
    <2>3. q[0] = Null /\ 1 .. 0 = {}
      BY <2>2
    <2>4. Reachable(c) = {q[j] : j \in 1 .. 0} /\ Cardinality(Reachable(c)) = 0
      BY <2>1, <2>3, ReachableIs DEF Chained
    <2> QED
      BY <2>1, <2>3, <2>4
  <1>2. ASSUME NEW t \in Threads, CacheOf[t] = c
        PROVE  /\ size[c] = Cardinality(Reachable(c))
               /\ \A u \in Threads : Reachable(c) \intersect hold[u] = {}
    <2>1. PICK s \in Listing : LinkedAs(s) /\ Separate(s)
      BY DEF CacheIInv
    <2>2. op[t].at = "idle"
      BY <1>2 DEF MyCache, Idle
    <2>3. PICK k, q : k = Depth(t) /\ q = s[t]
      OBVIOUS
    <2>4. k \in Nat /\ size[c] = k
      BY <1>2, <2>1, <2>2, <2>3 DEF Depth, LinkedAs, CacheIInv, CacheTypeOK
    <2>5. /\ q[0] = Null /\ m_freeList[c] = q[k]
          /\ \A j \in 1 .. k : q[j] \in Objects /\ next[q[j]] = q[j - 1]
          /\ \A i, j \in 1 .. k : q[i] = q[j] => i = j
          /\ \A u \in Threads : \A i \in 1 .. k : q[i] \notin hold[u]
      BY <1>2, <2>1, <2>3 DEF LinkedAs, Separate
    <2>6. Reachable(c) = {q[j] : j \in 1 .. k} /\ Cardinality(Reachable(c)) = k
      <3>1. Chained(c, k, q)
        BY <2>5 DEF Chained
      <3> QED
        BY <2>4, <2>5, <3>1, ReachableIs
    <2> QED
      BY <2>4, <2>5, <2>6
  <1> QED
    BY <1>1, <1>2

(* THREAD_LOCAL is enough: with a cache for every thread, no object has two*)
(* holders, and a list that nobody is in matches its count.                *)
THEOREM OwnCachesSound == OwnCache => (CacheSpec => []CachesSound)
  <1> SUFFICES ASSUME OwnCache PROVE CacheSpec => []CachesSound
    OBVIOUS
  <1>1. CacheInit => CacheIInv
    BY InitCaches
  <1>2. CacheIInv /\ [CacheNext]_cacheVars => CacheIInv'
    BY StepCaches
  <1>3. CacheIInv => CachesSound
    BY OneHolderHolds, ListIntactHolds DEF CachesSound
  <1> QED
    BY <1>1, <1>2, <1>3, PTL DEF CacheSpec

-----------------------------------------------------------------------------
(* The skip list.                                                          *)

(* m comes after n on level i.                                             *)
After(n, i, m) ==
    /\ m \in OnLevel(i) \cup {End} /\ n < m
    /\ \A k \in OnLevel(i) : n < k => m <= k

(* The nodes and their heights: no level in use is empty, but the lowest.  *)
Heights ==
    /\ DOMAIN forward \subseteq Keys \cup {Header}
    /\ Header \in DOMAIN forward /\ DOMAIN forward[Header] = Levels
    /\ \A n \in DOMAIN forward : \E h \in Levels : DOMAIN forward[n] = 1 .. h
    /\ DOMAIN value = DOMAIN forward \ {Header}
    /\ curLevel \in Levels
    /\ \A i \in Levels : i > curLevel => OnLevel(i) = {Header}
    /\ curLevel > 1 => OnLevel(curLevel) # {Header}

Sorted == \A n \in DOMAIN forward : \A i \in DOMAIN forward[n] : After(n, i, forward[n][i])

ListIInv == Heights /\ Sorted

(* Nodes are numbers below End, and each level is part of the one below.   *)
LEMMA Numbers ==
    ASSUME KeysFit, Heights
    PROVE  /\ DOMAIN forward \subseteq 0 .. End - 1 /\ End \in Nat
           /\ \A i \in Levels : OnLevel(i) \subseteq 0 .. End - 1 /\ Header \in OnLevel(i)
           /\ \A i, j \in Levels : i <= j => OnLevel(j) \subseteq OnLevel(i)
           /\ OnLevel(1) = DOMAIN forward /\ 1 \in Levels
           /\ \A n \in DOMAIN forward : DOMAIN forward[n] \subseteq Levels
  <1>1. /\ DOMAIN forward \subseteq 0 .. End - 1 /\ End \in Nat /\ 1 \in Levels
        /\ MaxLevel \in Nat \ {0}
    <2>1. End \in Nat \ {0} /\ Keys \subseteq 1 .. End - 1 /\ MaxLevel \in Nat \ {0}
      BY DEF KeysFit
    <2>2. 0 \in 0 .. End - 1 /\ \A k \in 1 .. End - 1 : k \in 0 .. End - 1
      BY <2>1
    <2>3. DOMAIN forward \subseteq 0 .. End - 1
      BY <2>1, <2>2 DEF Heights, Header
    <2> QED
      BY <2>1, <2>3 DEF Levels
  <1>2. \A i \in Levels : OnLevel(i) \subseteq 0 .. End - 1 /\ Header \in OnLevel(i)
    BY <1>1 DEF Heights, OnLevel
  <1>3. ASSUME NEW n \in DOMAIN forward
        PROVE  /\ DOMAIN forward[n] \subseteq Levels /\ 1 \in DOMAIN forward[n]
               /\ \A i, j \in Levels : i <= j /\ j \in DOMAIN forward[n] => i \in DOMAIN forward[n]
    <2>1. PICK h \in Levels : DOMAIN forward[n] = 1 .. h
      BY DEF Heights
    <2> QED
      BY <1>1, <2>1 DEF Levels
  <1> QED
    BY <1>1, <1>2, <1>3 DEF OnLevel

-----------------------------------------------------------------------------
(* The last node before key on level i.                                    *)
LastBelow(i, key, n) ==
    /\ n \in OnLevel(i) /\ n < key
    /\ \A k \in OnLevel(i) : k < key => k <= n

(* Of numbers below a bound one is the greatest.                           *)
LEMMA GreatestBelow ==
    ASSUME NEW S, NEW b \in Nat, S \subseteq 0 .. b, S # {}
    PROVE  \E x \in S : \A y \in S : y <= x
  <1>1. PICK T : T = {b - x : x \in S}
    OBVIOUS
  <1>2. T \subseteq Nat /\ T # {}
    <2>1. \A x \in S : x \in 0 .. b /\ b - x \in Nat
      OBVIOUS
    <2> QED
      BY <1>1, <2>1
  <1>3. PICK t \in T : \A u \in T : t <= u
    BY <1>2, LeastIn
  <1>4. PICK x \in S : t = b - x
    BY <1>1
  <1>5. ASSUME NEW y \in S PROVE y <= x
    <2>1. b - y \in T /\ x \in 0 .. b /\ y \in 0 .. b
      BY <1>1
    <2> QED
      BY <1>3, <1>4, <2>1
  <1> QED
    BY <1>5

LEMMA SomeLast ==
    ASSUME KeysFit, Heights, NEW i \in Levels, NEW key \in Keys
    PROVE  \E n : LastBelow(i, key, n)
  <1>1. PICK S : S = {n \in OnLevel(i) : n < key}
    OBVIOUS
  <1>2. OnLevel(i) \subseteq 0 .. End - 1 /\ Header \in OnLevel(i) /\ End \in Nat
    BY Numbers
  <1>3. key \in 1 .. End - 1 /\ Header < key
    BY DEF KeysFit, Header
  <1>4. S \subseteq 0 .. key /\ S # {} /\ key \in Nat
    BY <1>1, <1>2, <1>3
  <1>5. PICK x \in S : \A y \in S : y <= x
    BY <1>4, GreatestBelow
  <1> QED
    BY <1>1, <1>5 DEF LastBelow

LEMMA OneLast ==
    ASSUME KeysFit, Heights, NEW i \in Levels, NEW key, NEW n, NEW m,
           LastBelow(i, key, n), LastBelow(i, key, m)
    PROVE  n = m
  BY Numbers DEF LastBelow

(* The node after the last one before key is key, if key is on the level.  *)
LEMMA Ahead ==
    ASSUME KeysFit, Heights, Sorted, NEW i \in Levels, NEW key \in Keys, NEW n, LastBelow(i, key, n)
    PROVE  /\ n \in DOMAIN forward /\ i \in DOMAIN forward[n]
           /\ forward[n][i] \in OnLevel(i) \cup {End}
           /\ key <= forward[n][i]
           /\ \A k \in OnLevel(i) : key <= k => forward[n][i] <= k
           /\ forward[n][i] = key <=> key \in OnLevel(i)
  <1>1. /\ OnLevel(i) \subseteq 0 .. End - 1 /\ End \in Nat /\ key \in 1 .. End - 1
    BY Numbers DEF KeysFit
  <1>2. n \in DOMAIN forward /\ i \in DOMAIN forward[n] /\ After(n, i, forward[n][i])
    BY DEF LastBelow, OnLevel, Sorted
  <1>3. PICK m : m = forward[n][i]
    OBVIOUS
  <1>4. /\ m \in OnLevel(i) \cup {End} /\ n < m /\ \A k \in OnLevel(i) : n < k => m <= k
    BY <1>2, <1>3 DEF After
  <1>5. n \in OnLevel(i) /\ n < key /\ \A k \in OnLevel(i) : k < key => k <= n
    BY DEF LastBelow
  <1>6. key <= m
    BY <1>1, <1>4, <1>5
  <1>7. \A k \in OnLevel(i) : key <= k => m <= k
    BY <1>1, <1>4, <1>5
  <1>8. m = key <=> key \in OnLevel(i)
    BY <1>1, <1>4, <1>5, <1>6
  <1> QED
    BY <1>2, <1>3, <1>4, <1>6, <1>7, <1>8

-----------------------------------------------------------------------------
(* The walk along a level defines a function: the last node before key from*)
(* nodes before key.                                                       *)
Walks(i, key, f) ==
    f = [n \in OnLevel(i) |-> IF forward[n][i] < key THEN f[forward[n][i]] ELSE n]

LEMMA AlongWalks ==
    ASSUME NEW i, NEW key, NEW n
    PROVE  Along(n, i, key) = (CHOOSE f : Walks(i, key, f))[n]
  BY DEF Along, Walks

LEMMA SomeWalk ==
    ASSUME KeysFit, ListIInv, NEW i \in Levels, NEW key \in Keys
    PROVE  \E f : Walks(i, key, f)
  <1>1. PICK b : LastBelow(i, key, b)
    BY SomeLast DEF ListIInv
  <1>2. PICK f : f = [n \in OnLevel(i) |-> IF n < key THEN b ELSE n]
    OBVIOUS
  <1>3. /\ OnLevel(i) \subseteq 0 .. End - 1 /\ End \in Nat /\ key \in 1 .. End - 1
    BY Numbers DEF ListIInv, KeysFit
  <1>4. ASSUME NEW n \in OnLevel(i)
        PROVE  f[n] = IF forward[n][i] < key THEN f[forward[n][i]] ELSE n
    <2>1. PICK m : m = forward[n][i]
      OBVIOUS
    <2>2. m \in OnLevel(i) \cup {End} /\ n < m /\ \A k \in OnLevel(i) : n < k => m <= k
      BY <2>1 DEF ListIInv, Sorted, After, OnLevel
    <2>3. b \in OnLevel(i) /\ b < key /\ \A k \in OnLevel(i) : k < key => k <= b
      BY <1>1 DEF LastBelow
    <2>4. CASE m < key
      <3>1. m \in OnLevel(i) /\ n < key
        BY <1>3, <2>2, <2>4
      <3> QED
        BY <1>2, <2>1, <2>4, <3>1
    <2>5. CASE ~ (m < key)
      <3>1. n < key => b = n
        BY <1>3, <2>2, <2>3, <2>5
      <3> QED
        BY <1>2, <2>1, <2>5, <3>1
    <2> QED
      BY <2>4, <2>5
  <1>5. PICK g : g = [n \in OnLevel(i) |-> IF forward[n][i] < key THEN f[forward[n][i]] ELSE n]
    OBVIOUS
  <1>6. f = g
    BY <1>2, <1>4, <1>5
  <1> QED
    BY <1>5, <1>6 DEF Walks

LEMMA WalkEnds ==
    ASSUME KeysFit, ListIInv, NEW i \in Levels, NEW key \in Keys,
           NEW f, Walks(i, key, f), NEW b, LastBelow(i, key, b)
    PROVE  \A n \in OnLevel(i) : n < key => f[n] = b
  <1>1. PICK S : S = {n \in OnLevel(i) : n < key /\ f[n] # b}
    OBVIOUS
  <1>2. OnLevel(i) \subseteq 0 .. End - 1 /\ End \in Nat /\ key \in 1 .. End - 1
    BY Numbers DEF ListIInv, KeysFit
  <1>3. CASE S # {}
    <2>1. S \subseteq 0 .. key /\ key \in Nat
      BY <1>1, <1>2
    <2>2. PICK n \in S : \A k \in S : k <= n
      BY <1>3, <2>1, GreatestBelow
    <2>3. PICK m : m = forward[n][i]
      OBVIOUS
    <2>4. n \in OnLevel(i) /\ n < key /\ f[n] # b
      BY <1>1
    <2>5. m \in OnLevel(i) \cup {End} /\ n < m /\ \A k \in OnLevel(i) : n < k => m <= k
      BY <2>3, <2>4 DEF ListIInv, Sorted, After, OnLevel
    <2>6. f[n] = IF m < key THEN f[m] ELSE n
      BY <2>3, <2>4 DEF Walks
    <2>7. CASE m < key
      <3>1. m \in OnLevel(i) /\ m \notin S
        BY <1>2, <2>2, <2>4, <2>5, <2>7
      <3> QED
        BY <1>1, <2>4, <2>6, <2>7, <3>1
    <2>8. CASE ~ (m < key)
      <3>1. LastBelow(i, key, n)
        BY <1>2, <2>4, <2>5, <2>8 DEF LastBelow
      <3> QED
        BY <2>4, <2>6, <2>8, <3>1, OneLast DEF ListIInv
    <2> QED
      BY <2>7, <2>8
  <1> QED
    BY <1>1, <1>3

LEMMA AlongIs ==
    ASSUME KeysFit, ListIInv, NEW i \in Levels, NEW key \in Keys,
           NEW n \in OnLevel(i), n < key
    PROVE  LastBelow(i, key, Along(n, i, key))
  <1>1. PICK f : f = CHOOSE g : Walks(i, key, g)
    OBVIOUS
  <1>2. Walks(i, key, f)
    BY <1>1, SomeWalk
  <1>3. PICK b : LastBelow(i, key, b)
    BY SomeLast DEF ListIInv
  <1>4. f[n] = b
    BY <1>2, <1>3, WalkEnds
  <1> QED
    BY <1>1, <1>3, <1>4, AlongWalks

(* And so does the walk down the levels.                                   *)
Descends(key, u) ==
    u = [j \in Levels |->
            IF j > curLevel THEN Header
            ELSE Along(IF j = MaxLevel THEN Header ELSE u[j + 1], j, key)]

LEMMA UpdateDescends ==
    ASSUME NEW i, NEW key
    PROVE  Update(i, key) = (CHOOSE u : Descends(key, u))[i]
  BY DEF Update, Descends

(* One step down: from the header, or from where the level above was left. *)
LEMMA OneDown ==
    ASSUME KeysFit, ListIInv, NEW j \in Levels, NEW key \in Keys, NEW above,
           j # MaxLevel => j + 1 \in Levels /\ LastBelow(j + 1, key, above)
    PROVE  LastBelow(j, key, IF j > curLevel THEN Header
                        ELSE Along(IF j = MaxLevel THEN Header ELSE above, j, key))
  <1>1. /\ OnLevel(j) \subseteq 0 .. End - 1 /\ Header \in OnLevel(j) /\ End \in Nat
        /\ key \in 1 .. End - 1 /\ Header < key
    BY Numbers DEF ListIInv, KeysFit, Header
  <1>2. CASE j > curLevel
    <2>1. OnLevel(j) = {Header}
      BY <1>2 DEF ListIInv, Heights
    <2>2. LastBelow(j, key, Header)
      BY <1>1, <2>1 DEF LastBelow, Header
    <2> QED
      BY <1>2, <2>2
  <1>3. CASE ~ (j > curLevel)
    <2>1. PICK n : n = IF j = MaxLevel THEN Header ELSE above
      OBVIOUS
    <2>2. n \in OnLevel(j) /\ n < key
      <3>1. CASE j = MaxLevel
        BY <1>1, <2>1, <3>1
      <3>2. CASE j # MaxLevel
        <4>1. j + 1 \in Levels /\ above \in OnLevel(j + 1) /\ above < key
          BY <3>2 DEF LastBelow
        <4>2. j <= j + 1
          BY DEF Levels
        <4>3. OnLevel(j + 1) \subseteq OnLevel(j)
          BY <4>1, <4>2, Numbers DEF ListIInv
        <4> QED
          BY <2>1, <3>2, <4>1, <4>3
      <3> QED
        BY <3>1, <3>2
    <2>3. LastBelow(j, key, Along(n, j, key))
      BY <2>2, AlongIs
    <2> QED
      BY <1>3, <2>1, <2>3
  <1> QED
    BY <1>2, <1>3

LEMMA SomeDescent ==
    ASSUME KeysFit, ListIInv, NEW key \in Keys
    PROVE  \E u : Descends(key, u)
  <1>1. PICK u : u = [j \in Levels |-> CHOOSE b : LastBelow(j, key, b)]
    OBVIOUS
  <1>2. \A j \in Levels : LastBelow(j, key, u[j])
    BY <1>1, SomeLast DEF ListIInv
  <1>3. PICK w : w = [j \in Levels |->
            IF j > curLevel THEN Header
            ELSE Along(IF j = MaxLevel THEN Header ELSE u[j + 1], j, key)]
    OBVIOUS
  <1>4. ASSUME NEW j \in Levels PROVE u[j] = w[j]
    <2>1. j # MaxLevel => j + 1 \in Levels /\ LastBelow(j + 1, key, u[j + 1])
      BY <1>2 DEF Levels, KeysFit
    <2>2. LastBelow(j, key, w[j])
      BY <1>3, <2>1, OneDown
    <2> QED
      BY <1>2, <2>2, OneLast DEF ListIInv
  <1>5. u = w
    BY <1>1, <1>3, <1>4
  <1> QED
    BY <1>3, <1>5 DEF Descends

LEMMA DescentEnds ==
    ASSUME KeysFit, ListIInv, NEW key \in Keys, NEW u, Descends(key, u)
    PROVE  \A j \in Levels : LastBelow(j, key, u[j])
  <1>1. PICK S : S = {j \in Levels : ~ LastBelow(j, key, u[j])}
    OBVIOUS
  <1>2. MaxLevel \in Nat \ {0} /\ S \subseteq 0 .. MaxLevel
    BY <1>1 DEF KeysFit, Levels
  <1>3. CASE S # {}
    <2>1. PICK j \in S : \A k \in S : k <= j
      BY <1>2, <1>3, GreatestBelow
    <2>2. j \in Levels /\ ~ LastBelow(j, key, u[j])
      BY <1>1
    <2>3. j # MaxLevel => j + 1 \in Levels /\ LastBelow(j + 1, key, u[j + 1])
      <3>1. j # MaxLevel => j + 1 \in Levels /\ j + 1 \notin S
        BY <1>2, <2>1, <2>2 DEF Levels
      <3> QED
        BY <1>1, <3>1
    <2>4. u[j] = IF j > curLevel THEN Header
                 ELSE Along(IF j = MaxLevel THEN Header ELSE u[j + 1], j, key)
      BY <2>2 DEF Descends
    <2> QED
      BY <2>2, <2>3, <2>4, OneDown
  <1> QED
    BY <1>1, <1>3

(* update[i] is the last node before key, on every level.                  *)
LEMMA UpdateIs ==
    ASSUME KeysFit, ListIInv, NEW i \in Levels, NEW key \in Keys
    PROVE  LastBelow(i, key, Update(i, key))
  <1>1. PICK u : u = CHOOSE w : Descends(key, w)
    OBVIOUS
  <1>2. Descends(key, u)
    BY <1>1, SomeDescent
  <1> QED
    BY <1>1, <1>2, DescentEnds, UpdateDescends

(* The walk finds what is there, and nothing else.                         *)
LEMMA FoundIs ==
    ASSUME KeysFit, ListIInv, NEW key \in Keys
    PROVE  Found(key) <=> key \in DOMAIN value
  <1>1. 1 \in Levels /\ OnLevel(1) = DOMAIN forward
    BY Numbers DEF ListIInv
  <1>2. forward[Update(1, key)][1] = key <=> key \in OnLevel(1)
    BY <1>1, UpdateIs, Ahead DEF ListIInv
  <1>3. key # Header
    BY DEF KeysFit, Header
  <1> QED
    BY <1>1, <1>2, <1>3 DEF Found, ListIInv, Heights

-----------------------------------------------------------------------------
LEMMA InitList == KeysFit /\ ListInit => ListIInv
  <1> SUFFICES ASSUME KeysFit, ListInit PROVE ListIInv
    OBVIOUS
  <1>1. DOMAIN forward = {Header} /\ forward[Header] = [i \in Levels |-> End]
    BY DEF ListInit
  <1>2. /\ MaxLevel \in Levels /\ Levels = 1 .. MaxLevel /\ 1 \in Levels /\ curLevel = 1
        /\ DOMAIN value = {} /\ Header < End /\ MaxLevel \in Nat
    BY DEF KeysFit, Levels, ListInit, Header
  <1>3. \A i \in Levels : OnLevel(i) = {Header}
    BY <1>1 DEF OnLevel
  <1>4. Heights
    BY <1>1, <1>2, <1>3 DEF Heights
  <1>5. Sorted
    <2>1. ASSUME NEW i \in Levels PROVE After(Header, i, End)
      BY <1>2, <1>3 DEF After, Header
    <2> QED
      BY <1>1, <2>1 DEF Sorted
  <1> QED
    BY <1>4, <1>5 DEF ListIInv

(* What a new node of some height changes.                                 *)
LEMMA Inserted ==
    ASSUME KeysFit, ListIInv, NEW key \in Keys, NEW v, Insert(key, v), key \notin DOMAIN value
    PROVE  ListIInv'
  <1>1. ~ Found(key)
    BY FoundIs
  <1>2. PICK height \in Levels :
           /\ curLevel' = IF height > curLevel THEN height ELSE curLevel
           /\ forward' =
                [n \in DOMAIN forward \cup {key} |->
                   IF n = key
                   THEN [i \in 1 .. height |-> forward[Update(i, key)][i]]
                   ELSE [i \in DOMAIN forward[n] |->
                           IF i <= height /\ n = Update(i, key)
                           THEN key ELSE forward[n][i]]]
    BY <1>1 DEF Insert
  <1>3. DOMAIN value' = DOMAIN value \cup {key}
    BY <1>1 DEF Insert
  <1>4. /\ DOMAIN forward \subseteq 0 .. End - 1 /\ End \in Nat /\ key \in 1 .. End - 1
        /\ \A i \in Levels : OnLevel(i) \subseteq 0 .. End - 1 /\ OnLevel(i) \subseteq DOMAIN forward
        /\ \A n \in DOMAIN forward : DOMAIN forward[n] \subseteq Levels
    BY Numbers DEF ListIInv, KeysFit, OnLevel
  <1>5. key \notin DOMAIN forward /\ key # Header
    BY <1>4 DEF ListIInv, Heights, Header
  <1>6. Levels = 1 .. MaxLevel /\ MaxLevel \in Nat /\ height \in Nat /\ 1 .. height \subseteq Levels
    BY DEF Levels, KeysFit
  <1>7. /\ DOMAIN forward' = DOMAIN forward \cup {key}
        /\ DOMAIN forward'[key] = 1 .. height
        /\ \A n \in DOMAIN forward : DOMAIN forward'[n] = DOMAIN forward[n]
        /\ \A i \in 1 .. height : forward'[key][i] = forward[Update(i, key)][i]
        /\ \A n \in DOMAIN forward : \A i \in DOMAIN forward[n] :
               forward'[n][i] = IF i <= height /\ n = Update(i, key) THEN key ELSE forward[n][i]
    BY <1>2, <1>5
  <1>8. ASSUME NEW i \in Levels
        PROVE  OnLevel(i)' = OnLevel(i) \cup (IF i <= height THEN {key} ELSE {})
    <2>1. i \in 1 .. height <=> i <= height
      BY <1>6
    <2> QED
      BY <1>5, <1>7, <2>1 DEF OnLevel
  <1>9. Heights'
    <2>1. DOMAIN forward' \subseteq Keys \cup {Header} /\ Header \in DOMAIN forward'
          /\ DOMAIN forward'[Header] = Levels
      BY <1>7 DEF ListIInv, Heights
    <2>2. \A n \in DOMAIN forward' : \E h \in Levels : DOMAIN forward'[n] = 1 .. h
      BY <1>7 DEF ListIInv, Heights
    <2>3. DOMAIN value' = DOMAIN forward' \ {Header}
      BY <1>3, <1>5, <1>7 DEF ListIInv, Heights
    <2>4. curLevel' \in Levels /\ curLevel' >= height /\ curLevel' >= curLevel
      BY <1>2, <1>6 DEF ListIInv, Heights
    <2>5. ASSUME NEW i \in Levels, i > curLevel' PROVE OnLevel(i)' = {Header}
      <3>1. i > curLevel /\ ~ (i <= height)
        BY <1>6, <2>4, <2>5 DEF ListIInv, Heights
      <3> QED
        BY <1>8, <3>1 DEF ListIInv, Heights
    <2>6. ASSUME NEW c, c = curLevel', c > 1 PROVE OnLevel(c)' # {Header}
      <3>1. c \in Levels
        BY <2>4, <2>6
      <3>2. CASE c <= height
        BY <1>5, <1>8, <3>1, <3>2
      <3>3. CASE ~ (c <= height)
        <4>1. c = curLevel
          BY <1>2, <1>6, <2>6, <3>1, <3>3
        <4>2. OnLevel(c)' = OnLevel(c) /\ OnLevel(c) # {Header}
          BY <1>8, <2>6, <3>1, <3>3, <4>1 DEF ListIInv, Heights
        <4> QED
          BY <4>2
      <3> QED
        BY <3>2, <3>3
    <2>7. curLevel' > 1 => OnLevel(curLevel)' # {Header}
      BY <2>6
    <2> QED
      BY <2>1, <2>2, <2>3, <2>4, <2>5, <2>7 DEF Heights
  <1>10. ASSUME NEW n \in DOMAIN forward', NEW i \in DOMAIN forward'[n]
         PROVE  After(n, i, forward[n][i])'
    <2>1. i \in Levels
      BY <1>4, <1>6, <1>7
    <2>2. PICK u : u = Update(i, key)
      OBVIOUS
    <2>3. LastBelow(i, key, u)
      BY <2>1, <2>2, UpdateIs
    <2>4. PICK m : m = forward[u][i]
      OBVIOUS
    <2>5. /\ u \in OnLevel(i) /\ u < key /\ \A k \in OnLevel(i) : k < key => k <= u
          /\ m \in OnLevel(i) \cup {End} /\ key <= m
          /\ \A k \in OnLevel(i) : key <= k => m <= k
      BY <2>1, <2>3, <2>4, Ahead DEF ListIInv, LastBelow
    <2>6. PICK S : S = OnLevel(i)'
      OBVIOUS
    <2>7. S = OnLevel(i) \cup (IF i <= height THEN {key} ELSE {})
      BY <1>8, <2>1, <2>6
    <2>8. key \notin OnLevel(i) /\ OnLevel(i) \subseteq 0 .. End - 1
      BY <1>4, <1>5, <2>1
    <2>9. PICK w : w = forward'[n][i]
      OBVIOUS
    <2>10. SUFFICES w \in S \cup {End} /\ n < w /\ \A k \in S : n < k => w <= k
      BY <2>6, <2>9 DEF After
    <2>11. CASE n = key
      <3>1. i <= height /\ w = m
        BY <1>6, <1>7, <2>2, <2>4, <2>9, <2>11
      <3> QED
        BY <1>4, <2>5, <2>7, <2>8, <2>11, <3>1
    <2>12. CASE n # key
      <3>1. /\ n \in DOMAIN forward /\ i \in DOMAIN forward[n] /\ n \in OnLevel(i)
            /\ w = IF i <= height /\ n = u THEN key ELSE forward[n][i]
        BY <1>7, <2>2, <2>9, <2>12 DEF OnLevel
      <3>2. PICK x : x = forward[n][i]
        OBVIOUS
      <3>3. x \in OnLevel(i) \cup {End} /\ n < x /\ \A k \in OnLevel(i) : n < k => x <= k
        BY <3>1, <3>2 DEF ListIInv, Sorted, After
      <3>4. CASE i <= height /\ n = u
        BY <1>4, <2>5, <2>7, <2>8, <3>1, <3>4
      <3>5. CASE ~ (i <= height /\ n = u)
        <4>1. w = x
          BY <3>1, <3>2, <3>5
        <4>2. ASSUME i <= height, n < key PROVE x <= key
          <5>1. n < u
            BY <1>4, <2>5, <2>8, <3>1, <3>5, <4>2
          <5>2. x <= u
            BY <2>5, <3>3, <5>1
          <5> QED
            BY <1>4, <2>5, <2>8, <3>3, <5>2
        <4> QED
          BY <2>7, <3>3, <4>1, <4>2
      <3> QED
        BY <3>4, <3>5
    <2> QED
      BY <2>11, <2>12
  <1> QED
    BY <1>9, <1>10 DEF ListIInv, Sorted

(* Unlinking stops above the levels the node is on, and nowhere below.     *)
LEMMA UnlinkedIs ==
    ASSUME KeysFit, ListIInv, NEW key \in Keys, key \in DOMAIN value, NEW i \in Levels
    PROVE  i <= curLevel /\ Unlinked(key, i) <=> i \in DOMAIN forward[key]
  <1>1. \A j \in Levels : forward[Update(j, key)][j] = key <=> key \in OnLevel(j)
    BY UpdateIs, Ahead DEF ListIInv
  <1>2. key \in DOMAIN forward /\ key # Header
    BY DEF ListIInv, Heights
  <1>3. PICK h \in Levels : DOMAIN forward[key] = 1 .. h
    BY <1>2 DEF ListIInv, Heights
  <1>4. i \in Nat /\ h \in Nat /\ curLevel \in Nat /\ i >= 1 /\ 1 .. i \subseteq Levels
    BY DEF Levels, KeysFit, ListIInv, Heights
  <1>5. Unlinked(key, i) <=> \A j \in 1 .. i : j \in 1 .. h
    BY <1>1, <1>2, <1>3, <1>4 DEF Unlinked, OnLevel
  <1>6. (\A j \in 1 .. i : j \in 1 .. h) <=> i <= h
    BY <1>4
  <1>7. h <= curLevel
    <2>1. key \in OnLevel(h)
      BY <1>2, <1>3, <1>4 DEF OnLevel, Levels
    <2> QED
      BY <1>2, <1>4, <2>1 DEF ListIInv, Heights
  <1> QED
    BY <1>3, <1>4, <1>5, <1>6, <1>7

LEMMA Erased ==
    ASSUME KeysFit, ListIInv, NEW key \in Keys, Erase(key)
    PROVE  ListIInv' /\ key \in DOMAIN value
  <1>1. key \in DOMAIN value /\ key \in DOMAIN forward /\ key # Header
    BY FoundIs DEF Erase, ListIInv, Heights
  <1>2. forward' = [n \in DOMAIN forward \ {key} |->
                        [i \in DOMAIN forward[n] |->
                           IF i <= curLevel /\ n = Update(i, key) /\ Unlinked(key, i)
                           THEN forward[key][i] ELSE forward[n][i]]]
    BY DEF Erase
  <1>3. /\ curLevel' \in 1 .. curLevel
        /\ curLevel' = 1 \/ forward'[Header][curLevel'] # End
        /\ \A i \in curLevel' + 1 .. curLevel : forward'[Header][i] = End
    BY <1>2 DEF Erase
  <1>4. DOMAIN value' = DOMAIN value \ {key}
    BY DEF Erase
  <1>5. /\ DOMAIN forward \subseteq 0 .. End - 1 /\ End \in Nat /\ key \in 1 .. End - 1
        /\ \A i \in Levels : OnLevel(i) \subseteq 0 .. End - 1
        /\ \A i \in Levels : Header \in OnLevel(i)
        /\ \A n \in DOMAIN forward : DOMAIN forward[n] \subseteq Levels
    BY Numbers DEF ListIInv, KeysFit, OnLevel
  <1>6. /\ DOMAIN forward' = DOMAIN forward \ {key}
        /\ \A n \in DOMAIN forward' : DOMAIN forward'[n] = DOMAIN forward[n]
        /\ \A n \in DOMAIN forward' : \A i \in DOMAIN forward[n] :
               forward'[n][i] = IF n = Update(i, key) /\ i \in DOMAIN forward[key]
                                THEN forward[key][i] ELSE forward[n][i]
    <2>1. \A i \in Levels : i <= curLevel /\ Unlinked(key, i) <=> i \in DOMAIN forward[key]
      BY <1>1, UnlinkedIs
    <2> QED
      BY <1>2, <1>5, <2>1
  <1>7. \A i \in Levels : OnLevel(i)' = OnLevel(i) \ {key}
    BY <1>6 DEF OnLevel
  <1>8. Sorted'
    <2> SUFFICES ASSUME NEW n \in DOMAIN forward', NEW i \in DOMAIN forward'[n]
                 PROVE  After(n, i, forward[n][i])'
      BY DEF Sorted
    <2>1. /\ i \in Levels /\ n \in DOMAIN forward /\ n # key /\ i \in DOMAIN forward[n]
          /\ n \in OnLevel(i)
      BY <1>5, <1>6 DEF OnLevel
    <2>2. PICK u : u = Update(i, key)
      OBVIOUS
    <2>3. u \in OnLevel(i) /\ u < key /\ \A k \in OnLevel(i) : k < key => k <= u
      BY <2>1, <2>2, UpdateIs DEF LastBelow
    <2>4. PICK S : S = OnLevel(i)'
      OBVIOUS
    <2>5. S = OnLevel(i) \ {key} /\ OnLevel(i) \subseteq 0 .. End - 1
      BY <1>5, <1>7, <2>1, <2>4
    <2>6. PICK w : w = forward'[n][i]
      OBVIOUS
    <2>7. SUFFICES w \in S \cup {End} /\ n < w /\ \A k \in S : n < k => w <= k
      BY <2>4, <2>6 DEF After
    <2>8. PICK x : x = forward[n][i]
      OBVIOUS
    <2>9. x \in OnLevel(i) \cup {End} /\ n < x /\ \A k \in OnLevel(i) : n < k => x <= k
      BY <2>1, <2>8 DEF ListIInv, Sorted, After
    <2>10. CASE n = u /\ i \in DOMAIN forward[key]
      <3>1. PICK m : m = forward[key][i]
        OBVIOUS
      <3>2. m \in OnLevel(i) \cup {End} /\ key < m /\ \A k \in OnLevel(i) : key < k => m <= k
        BY <1>1, <2>10, <3>1 DEF ListIInv, Sorted, After
      <3>3. w = m
        BY <1>6, <2>1, <2>2, <2>6, <2>10, <3>1
      <3> QED
        BY <1>5, <2>3, <2>5, <2>10, <3>2, <3>3
    <2>11. CASE ~ (n = u /\ i \in DOMAIN forward[key])
      <3>1. w = x
        BY <1>6, <2>1, <2>2, <2>6, <2>8, <2>11
      <3>2. x # key
        <4>1. SUFFICES ASSUME x = key PROVE FALSE
          OBVIOUS
        <4>2. key \in OnLevel(i)
          BY <1>5, <2>9, <4>1
        <4>3. n < key /\ u <= n
          BY <1>5, <2>1, <2>3, <2>5, <2>9, <4>1
        <4>4. n = u
          BY <2>1, <2>3, <2>5, <4>3
        <4> QED
          BY <2>11, <4>2, <4>4 DEF OnLevel
      <3> QED
        BY <2>5, <2>9, <3>1, <3>2
    <2> QED
      BY <2>10, <2>11
  <1>9. Header \in DOMAIN forward' /\ DOMAIN forward'[Header] = Levels
    BY <1>1, <1>6 DEF ListIInv, Heights
  <1>10. /\ curLevel' \in Levels /\ curLevel \in Levels
         /\ \A i \in Levels : i \in Nat
    BY <1>3 DEF ListIInv, Heights, Levels, KeysFit
  <1>11. ASSUME NEW i \in Levels PROVE forward'[Header][i] = End <=> OnLevel(i)' = {Header}
    <2>1. PICK S : S = OnLevel(i)'
      OBVIOUS
    <2>2. S = OnLevel(i) \ {key} /\ OnLevel(i) \subseteq 0 .. End - 1 /\ Header \in S
      BY <1>1, <1>5, <1>7, <2>1
    <2>3. PICK w : w = forward'[Header][i]
      OBVIOUS
    <2>4. w \in S \cup {End} /\ Header < w /\ \A k \in S : Header < k => w <= k
      BY <1>8, <1>9, <2>1, <2>3 DEF Sorted, After
    <2>5. w = End => S = {Header}
      BY <1>5, <2>2, <2>4 DEF Header
    <2>6. S = {Header} => w = End
      BY <2>4 DEF Header
    <2> QED
      BY <2>1, <2>3, <2>5, <2>6
  <1>12. Heights'
    <2>1. DOMAIN forward' \subseteq Keys \cup {Header} /\ DOMAIN value' = DOMAIN forward' \ {Header}
      BY <1>1, <1>4, <1>6 DEF ListIInv, Heights
    <2>2. \A n \in DOMAIN forward' : \E h \in Levels : DOMAIN forward'[n] = 1 .. h
      BY <1>6 DEF ListIInv, Heights
    <2>3. ASSUME NEW i \in Levels, i > curLevel' PROVE OnLevel(i)' = {Header}
      <3>1. CASE i \in curLevel' + 1 .. curLevel
        BY <1>3, <1>11, <3>1
      <3>2. CASE i \notin curLevel' + 1 .. curLevel
        <4>1. i > curLevel
          BY <1>10, <2>3, <3>2
        <4>2. OnLevel(i) = {Header}
          BY <4>1 DEF ListIInv, Heights
        <4> QED
          BY <1>1, <1>7, <4>2
      <3> QED
        BY <3>1, <3>2
    <2>4. ASSUME NEW c, c = curLevel', c > 1 PROVE OnLevel(c)' # {Header}
      BY <1>3, <1>10, <1>11, <2>4
    <2>5. curLevel' > 1 => OnLevel(curLevel)' # {Header}
      BY <2>4
    <2> QED
      BY <1>9, <1>10, <2>1, <2>2, <2>3, <2>5 DEF Heights
  <1> QED
    BY <1>1, <1>8, <1>12 DEF ListIInv

(* The dictionary that find sees.                                          *)
Visible == [k \in {k \in Keys : Found(k)} |-> value[k]]

LEMMA VisibleIs == KeysFit /\ ListIInv => Visible = [k \in DOMAIN value |-> value[k]]
  <1> SUFFICES ASSUME KeysFit, ListIInv PROVE Visible = [k \in DOMAIN value |-> value[k]]
    OBVIOUS
  <1>1. DOMAIN value \subseteq Keys
    BY DEF ListIInv, Heights
  <1>2. {k \in Keys : Found(k)} = DOMAIN value
    BY <1>1, FoundIs
  <1> QED
    BY <1>2 DEF Visible

LEMMA VisibleAfter ==
    ASSUME KeysFit, ListIInv'
    PROVE  Visible' = [k \in DOMAIN value' |-> value'[k]]
  <1>1. (KeysFit /\ ListIInv => Visible = [k \in DOMAIN value |-> value[k]])'
    BY VisibleIs, PTL
  <1>2. KeysFit'
    BY DEF KeysFit
  <1> QED
    BY <1>1, <1>2

(* An insertion has the effect it should have on the values.               *)
LEMMA InsertValue ==
    ASSUME KeysFit, ListIInv, NEW key \in Keys, NEW v, Insert(key, v)
    PROVE  /\ ListIInv'
           /\ value' = [k \in DOMAIN value \cup {key} |-> IF k = key THEN v ELSE value[k]]
  <1>1. CASE key \in DOMAIN value
    <2>1. Found(key)
      BY <1>1, FoundIs
    <2>2. value' = [value EXCEPT ![key] = v] /\ UNCHANGED <<forward, curLevel>>
      BY <2>1 DEF Insert
    <2>3. DOMAIN value' = DOMAIN value
      BY <2>2
    <2>4. ListIInv'
      BY <2>2, <2>3 DEF ListIInv, Heights, Sorted, After, OnLevel
    <2>5. value' = [k \in DOMAIN value |-> IF k = key THEN v ELSE value[k]]
      BY <2>2
    <2>6. DOMAIN value \cup {key} = DOMAIN value
      BY <1>1
    <2> QED
      BY <2>4, <2>5, <2>6
  <1>2. CASE key \notin DOMAIN value
    <2>1. ~ Found(key)
      BY <1>2, FoundIs
    <2>2. value' = [k \in DOMAIN value \cup {key} |-> IF k = key THEN v ELSE value[k]]
      BY <2>1 DEF Insert
    <2> QED
      BY <1>2, <2>2, Inserted
  <1> QED
    BY <1>1, <1>2

LEMMA InsertDictionary ==
    ASSUME KeysFit, ListIInv, NEW key \in Keys, NEW v, Insert(key, v)
    PROVE  ListIInv' /\ Dictionary!Insert(key, v)
  <1>1. Visible = [k \in DOMAIN value |-> value[k]]
    BY VisibleIs
  <1>2. ListIInv' /\ value' = [k \in DOMAIN value \cup {key} |-> IF k = key THEN v ELSE value[k]]
    BY InsertValue
  <1>3. Visible' = [k \in DOMAIN value' |-> value'[k]]
    BY <1>2, VisibleAfter
  <1>4. Visible' = [k \in DOMAIN Visible \cup {key} |-> IF k = key THEN v ELSE Visible[k]]
    BY <1>1, <1>2, <1>3
  <1> QED
    BY <1>2, <1>4 DEF Dictionary!Insert, Visible

LEMMA EraseDictionary ==
    ASSUME KeysFit, ListIInv, NEW key \in Keys, Erase(key)
    PROVE  ListIInv' /\ Dictionary!Erase(key)
  <1>1. Visible = [k \in DOMAIN value |-> value[k]]
    BY VisibleIs
  <1>2. ListIInv' /\ value' = [k \in DOMAIN value \ {key} |-> value[k]]
    BY Erased DEF Erase
  <1>3. Visible' = [k \in DOMAIN value' |-> value'[k]]
    BY <1>2, VisibleAfter
  <1>4. Visible' = [k \in DOMAIN Visible \ {key} |-> Visible[k]]
    BY <1>1, <1>2, <1>3
  <1> QED
    BY <1>2, <1>4 DEF Dictionary!Erase, Visible

LEMMA StepList == KeysFit /\ ListIInv /\ [ListNext]_listVars => ListIInv' /\ [Dictionary!Next]_Visible
  <1> SUFFICES ASSUME KeysFit, ListIInv, [ListNext]_listVars
               PROVE  ListIInv' /\ [Dictionary!Next]_Visible
    OBVIOUS
  <1>1. ASSUME NEW key \in Keys, Erase(key) PROVE ListIInv' /\ Dictionary!Next
    BY <1>1, EraseDictionary DEF Dictionary!Next
  <1>2. ASSUME NEW key \in Keys, NEW v \in Values, Insert(key, v)
        PROVE  ListIInv' /\ Dictionary!Next
    BY <1>2, InsertDictionary DEF Dictionary!Next
  <1>3. CASE UNCHANGED listVars
    <2>1. UNCHANGED <<forward, value, curLevel>>
      BY <1>3 DEF listVars
    <2>2. ListIInv'
      BY <2>1 DEF ListIInv, Heights, Sorted, After, OnLevel
    <2>3. Visible = [k \in DOMAIN value |-> value[k]]
      BY VisibleIs
    <2>4. Visible' = [k \in DOMAIN value' |-> value'[k]]
      BY <2>2, VisibleAfter
    <2> QED
      BY <2>1, <2>2, <2>3, <2>4
  <1> QED
    BY <1>1, <1>2, <1>3 DEF ListNext

LEMMA InitDictionary == KeysFit /\ ListInit => Dictionary!Init
  <1> SUFFICES ASSUME KeysFit, ListInit PROVE Dictionary!Init
    OBVIOUS
  <1>1. Visible = [k \in DOMAIN value |-> value[k]]
    BY InitList, VisibleIs
  <1>2. DOMAIN value = {}
    BY DEF ListInit
  <1>3. Visible = [k \in {} |-> k]
    BY <1>1, <1>2
  <1> QED
    BY <1>3 DEF Dictionary!Init, Visible

(* The dictionary that the walk sees, from the top level down, is the one  *)
(* that inserting and erasing should have produced, for any keys, values   *)
(* and heights of nodes.                                                   *)
THEOREM KeepsKeys == KeysFit => (ListSpec => ImplementsDictionary)
  <1> SUFFICES ASSUME KeysFit PROVE ListSpec => ImplementsDictionary
    OBVIOUS
  <1>1. ListInit => ListIInv
    BY InitList
  <1>2. ListIInv /\ [ListNext]_listVars => ListIInv'
    BY StepList
  <1>3. ListIInv /\ [ListNext]_listVars =>
            [Dictionary!Next]_[k \in {k \in Keys : Found(k)} |-> value[k]]
    BY StepList DEF Visible
  <1>4. ListInit => Dictionary!Init
    BY InitDictionary
  <1> QED
    BY <1>1, <1>2, <1>3, <1>4, PTL DEF ListSpec, ImplementsDictionary, Dictionary!Spec

LEMMA Nested == KeysFit /\ ListIInv => LevelsNested
  <1> SUFFICES ASSUME KeysFit, ListIInv PROVE LevelsNested
    OBVIOUS
  <1> DEFINE Pointed(i) == {k \in DOMAIN value : \E n \in OnLevel(i) : forward[n][i] = k}
  <1>1. /\ DOMAIN forward \subseteq 0 .. End - 1 /\ End \in Nat /\ 1 \in Levels
        /\ \A i \in Levels : OnLevel(i) \subseteq DOMAIN forward /\ Header \in OnLevel(i)
        /\ OnLevel(1) = DOMAIN forward
        /\ \A n \in DOMAIN forward : DOMAIN forward[n] \subseteq Levels
    BY Numbers DEF ListIInv, OnLevel
  <1>2. DOMAIN forward = DOMAIN value \cup {Header} /\ Header \notin DOMAIN value
    BY DEF ListIInv, Heights
  <1>3. ASSUME NEW i \in Levels
        PROVE  Pointed(i) = OnLevel(i) \ {Header}
    <2>1. ASSUME NEW k \in Pointed(i) PROVE k \in OnLevel(i) \ {Header}
      <3>1. PICK n \in OnLevel(i) : forward[n][i] = k
        OBVIOUS
      <3>2. k \in OnLevel(i) \cup {End} /\ k \in DOMAIN value
        BY <3>1 DEF ListIInv, Sorted, After, OnLevel
      <3> QED
        BY <1>1, <1>2, <3>2
    <2>2. ASSUME NEW k \in OnLevel(i) \ {Header} PROVE k \in Pointed(i)
      <3>1. k \in DOMAIN value /\ k \in Keys
        BY <1>1, <1>2 DEF ListIInv, Heights
      <3>2. PICK n : LastBelow(i, k, n)
        BY <3>1, SomeLast DEF ListIInv
      <3>3. n \in OnLevel(i) /\ forward[n][i] = k
        BY <3>1, <3>2, Ahead DEF ListIInv, LastBelow
      <3> QED
        BY <3>1, <3>3
    <2> QED
      BY <2>1, <2>2
  <1> HIDE DEF Pointed
  <1>4. Pointed(1) = DOMAIN value
    BY <1>1, <1>2, <1>3
  <1>5. ASSUME NEW i \in Levels
        PROVE  /\ Pointed(i) = {k \in DOMAIN value : i \in DOMAIN forward[k]}
               /\ Pointed(i) # {} => i <= curLevel
               /\ 1 < i /\ i = curLevel => Pointed(i) # {}
    <2>1. Pointed(i) = {k \in DOMAIN value : i \in DOMAIN forward[k]}
      BY <1>2, <1>3 DEF OnLevel
    <2>2. i \in Nat /\ curLevel \in Nat
      BY DEF Levels, ListIInv, Heights
    <2>3. Pointed(i) # {} => i <= curLevel
      BY <1>3, <2>2 DEF ListIInv, Heights
    <2>4. 1 < i /\ i = curLevel => Pointed(i) # {}
      BY <1>1, <1>3, <2>2 DEF ListIInv, Heights
    <2> QED
      BY <2>1, <2>3, <2>4
  <1>6. ASSUME NEW n \in DOMAIN forward, NEW i \in DOMAIN forward[n]
        PROVE  forward[n][i] = End \/ (forward[n][i] > n /\ forward[n][i] \in DOMAIN value)
    <2>1. PICK m : m = forward[n][i]
      OBVIOUS
    <2>2. m \in OnLevel(i) \cup {End} /\ n < m
      BY <2>1 DEF ListIInv, Sorted, After
    <2>3. m = End \/ m \in DOMAIN forward
      BY <2>2 DEF OnLevel
    <2>4. n \in Nat /\ (m \in DOMAIN forward => m \in Nat)
      BY <1>1
    <2>5. m \in DOMAIN forward => m # Header
      BY <2>2, <2>4 DEF Header
    <2> QED
      BY <1>2, <2>1, <2>2, <2>3, <2>4, <2>5
  <1> QED
    BY <1>2, <1>4, <1>5, <1>6 DEF LevelsNested, Pointed

(* After every insertion and erasure each level is a sorted part of the one*)
(* below, and no pointer leads to a node that is gone.                     *)
THEOREM ListSound == KeysFit => (ListSpec => []LevelsNested)
  <1> SUFFICES ASSUME KeysFit PROVE ListSpec => []LevelsNested
    OBVIOUS
  <1>1. ListInit => ListIInv
    BY InitList
  <1>2. ListIInv /\ [ListNext]_listVars => ListIInv'
    BY StepList
  <1>3. ListIInv => LevelsNested
    BY Nested
  <1> QED
    BY <1>1, <1>2, <1>3, PTL DEF ListSpec
-----------------------------------------------------------------------------
(* The memory table: its total covers what it holds.                       *)

Sizes == [k \in DOMAIN value |-> KeySize + value[k]]

TableIInv ==
    /\ ListIInv
    /\ szMem \in Int /\ \A k \in DOMAIN value : value[k] \in Nat
    /\ szMem >= Occupied

LEMMA FewKeys ==
    ASSUME KeysFit, ListIInv
    PROVE  IsFiniteSet(DOMAIN value)
  <1>1. DOMAIN value \subseteq 1 .. End - 1 /\ End \in Nat
    BY DEF KeysFit, ListIInv, Heights
  <1>2. IsFiniteSet(1 .. End - 1)
    BY <1>1, FS_Interval
  <1> QED
    BY <1>1, <1>2, FS_Subset

LEMMA InitTable == TableFit /\ TableInit => TableIInv
  <1> SUFFICES ASSUME TableFit, TableInit PROVE TableIInv
    OBVIOUS
  <1>1. ListIInv /\ DOMAIN value = {} /\ szMem = 0
    BY InitList DEF TableInit, TableFit, ListInit
  <1>2. IsFiniteSet({}) /\ Sizes \in [{} -> Int]
    BY <1>1, FS_EmptySet DEF Sizes
  <1>3. Sum(Sizes) = 0
    BY <1>2, SumZero
  <1> QED
    BY <1>1, <1>3 DEF TableIInv, Occupied, Sizes

(* A put changes what the table holds by at most what it adds to the total.*)
LEMMA PutTable ==
    ASSUME TableFit, TableIInv, NEW key \in Keys, NEW v \in Values, Put(key, v)
    PROVE  TableIInv' /\ Dictionary!Insert(key, v)
  <1>1. /\ KeysFit /\ ListIInv /\ KeySize \in Nat /\ v \in Nat /\ szMem \in Int
        /\ \A k \in DOMAIN value : value[k] \in Nat
    BY DEF TableFit, TableIInv
  <1>2. /\ ListIInv' /\ Dictionary!Insert(key, v)
        /\ value' = [k \in DOMAIN value \cup {key} |-> IF k = key THEN v ELSE value[k]]
    BY <1>1, InsertValue, InsertDictionary DEF Put
  <1>3. szMem' = szMem - (IF key \in DOMAIN value THEN value[key] ELSE 0) + KeySize + v
    BY <1>1, FoundIs DEF Put
  <1>4. PICK S, f : S = DOMAIN value /\ f = Sizes
    OBVIOUS
  <1>5. PICK T, g : T = S \cup {key} /\ g = [k \in T |-> IF k = key THEN KeySize + v ELSE f[k]]
    OBVIOUS
  <1>6. IsFiniteSet(S)
    BY <1>1, <1>4, FewKeys
  <1>7. f \in [S -> Int] /\ \A k \in S : f[k] = KeySize + value[k]
    BY <1>1, <1>4 DEF Sizes
  <1>8. g \in [T -> Int] /\ g[key] = KeySize + v /\ \A k \in S : k # key => g[k] = f[k]
    BY <1>1, <1>5, <1>7
  <1>9. Sizes' = g
    <2>1. /\ DOMAIN value' = T /\ value'[key] = v
          /\ \A k \in T : k # key => value'[k] = value[k] /\ k \in S
      BY <1>2, <1>4, <1>5
    <2>2. \A k \in T : KeySize + value'[k] = IF k = key THEN KeySize + v ELSE f[k]
      BY <1>7, <2>1
    <2> QED
      BY <1>5, <2>1, <2>2 DEF Sizes
  <1>10. Occupied = Sum(f) /\ Occupied' = Sum(g) /\ Sum(f) \in Int
    <2>1. Occupied' = Sum(Sizes')
      BY DEF Occupied, Sizes
    <2> QED
      BY <1>4, <1>6, <1>7, <1>9, <2>1, SumInt DEF Occupied, Sizes
  <1>11. szMem' \in Int /\ szMem' >= Sum(g)
    <2>1. szMem >= Sum(f)
      BY <1>10 DEF TableIInv
    <2>2. CASE key \in S
      <3>1. PICK d : d = v - value[key]
        OBVIOUS
      <3>2. T = S /\ value[key] \in Nat /\ d \in Int
        <4>1. T = S
          BY <1>5, <2>2
        <4>2. value[key] \in Nat
          BY <1>1, <1>4, <2>2
        <4> QED
          BY <1>1, <3>1, <4>1, <4>2
      <3>3. g[key] = f[key] + d
        BY <1>1, <1>7, <1>8, <2>2, <3>1, <3>2
      <3>4. Sum(g) = Sum(f) + d
        BY <1>6, <1>7, <1>8, <2>2, <3>2, <3>3, SumChange
      <3>5. szMem' = szMem - value[key] + KeySize + v
        BY <1>3, <1>4, <2>2
      <3> QED
        BY <1>1, <1>10, <2>1, <3>1, <3>2, <3>4, <3>5
    <2>3. CASE key \notin S
      <3>1. \A i \in S : g[i] = f[i]
        BY <1>8, <2>3
      <3>2. g \in [S \cup {key} -> Int]
        BY <1>5, <1>8
      <3>3. Sum(g) = Sum(f) + g[key]
        BY <1>6, <1>7, <2>3, <3>1, <3>2, SumExtended
      <3>4. szMem' = szMem - 0 + KeySize + v
        BY <1>3, <1>4, <2>3
      <3> QED
        BY <1>1, <1>8, <1>10, <2>1, <3>3, <3>4
    <2> QED
      BY <2>2, <2>3
  <1>12. \A k \in DOMAIN value' : value'[k] \in Nat
    BY <1>1, <1>2
  <1> QED
    BY <1>2, <1>10, <1>11, <1>12 DEF TableIInv

LEMMA StepTable ==
    TableFit /\ TableIInv /\ [TableNext]_tableVars => TableIInv' /\ [Dictionary!Next]_Visible
  <1> SUFFICES ASSUME TableFit, TableIInv, [TableNext]_tableVars
               PROVE  TableIInv' /\ [Dictionary!Next]_Visible
    OBVIOUS
  <1>1. ASSUME NEW key \in Keys, NEW v \in Values, Put(key, v)
        PROVE  TableIInv' /\ Dictionary!Next
    BY <1>1, PutTable DEF Dictionary!Next
  <1>2. ASSUME NEW key \in Keys, Delete(key)
        PROVE  TableIInv' /\ Dictionary!Next
    <2>1. 0 \in Values /\ Put(key, 0)
      BY <1>2 DEF TableFit, Delete
    <2> QED
      BY <1>1, <2>1
  <1>3. CASE UNCHANGED tableVars
    <2>1. UNCHANGED listVars /\ UNCHANGED <<value, szMem>>
      BY <1>3 DEF tableVars, listVars
    <2>2. ListIInv' /\ UNCHANGED Visible
      <3>1. KeysFit /\ ListIInv /\ UNCHANGED <<forward, value, curLevel>>
        BY <2>1 DEF TableFit, TableIInv, listVars
      <3>2. ListIInv'
        BY <3>1 DEF ListIInv, Heights, Sorted, After, OnLevel
      <3>3. Visible' = [k \in DOMAIN value' |-> value'[k]]
        BY <3>1, <3>2, VisibleAfter
      <3>4. Visible = [k \in DOMAIN value |-> value[k]]
        BY <3>1, VisibleIs
      <3> QED
        BY <3>1, <3>2, <3>3, <3>4
    <2>3. Occupied' = Occupied
      BY <2>1 DEF Occupied
    <2> QED
      BY <2>1, <2>2, <2>3 DEF TableIInv
  <1> QED
    BY <1>1, <1>2, <1>3 DEF TableNext

(* The running total of the memory table is never less than what it holds, *)
(* so that the subtraction of an old value cannot wrap it around, and      *)
(* putting and deleting keep the other keys, for any keys and lengths.     *)
THEOREM TableSound == TableFit => (TableSpec => []MemCoversContents /\ ImplementsDictionary)
  <1> SUFFICES ASSUME TableFit PROVE TableSpec => []MemCoversContents /\ ImplementsDictionary
    OBVIOUS
  <1>1. TableInit => TableIInv
    BY InitTable
  <1>2. TableIInv /\ [TableNext]_tableVars => TableIInv'
    BY StepTable
  <1>3. TableIInv => MemCoversContents
    BY DEF TableIInv, MemCoversContents
  <1>4. TableIInv /\ [TableNext]_tableVars =>
            [Dictionary!Next]_[k \in {k \in Keys : Found(k)} |-> value[k]]
    BY StepTable DEF Visible
  <1>5. TableInit => Dictionary!Init
    BY InitDictionary DEF TableInit, TableFit
  <1> QED
    BY <1>1, <1>2, <1>3, <1>4, <1>5, PTL DEF TableSpec, ImplementsDictionary, Dictionary!Spec

-----------------------------------------------------------------------------
(* The stack without locks.                                                *)

(* The i-th of the linked nodes q, the null pointer after the last.        *)
At(q, i) == IF i \in 1 .. Len(q) THEN q[i] ELSE NULL
InList(q, n) == \E i \in 1 .. Len(q) : q[i] = n

(* The list that starts at head consists of the nodes q, once each.        *)
Chain(q) ==
    /\ q \in Seq(StackNodes)
    /\ head = At(q, 1)
    /\ \A i \in 1 .. Len(q) : node[q[i]].next = At(q, i + 1) /\ q[i] \in allocated
    /\ \A i, j \in 1 .. Len(q) : q[i] = q[j] => i = j

(* What a call may be at.                                                  *)
Linking(c) == c.pc = "link" /\ \E n \in StackNodes : c = [pc |-> "link", new_node |-> n]
Reading(c) == c.pc = "next" /\ \E n \in StackNodes : c = [pc |-> "next", old_head |-> n]
Unlinking(c) ==
    /\ c.pc = "unlink"
    /\ \E n \in StackNodes, m \in StackNodes \cup {NULL} :
           c = [pc |-> "unlink", old_head |-> n, next |-> m]
Taking(c) == c.pc = "take" /\ \E n \in StackNodes : c = [pc |-> "take", old_head |-> n]
CallTyped(c) == c = Returned \/ Linking(c) \/ Reading(c) \/ Unlinking(c) \/ Taking(c)

Typed ==
    /\ pushes \in 0 .. MaxPushes
    /\ allocated \subseteq StackNodes
    /\ node \in [StackNodes -> [data : 0 .. MaxPushes, next : StackNodes \cup {NULL}]]
    /\ \A n \in allocated : node[n].data >= 1
    /\ DOMAIN call = Callers
    /\ \A t \in Callers : CallTyped(call[t])

(* The node a thread has to itself: not linked yet, or not any more.       *)
Own(c) == IF c.pc = "link" THEN {c.new_node} ELSE IF c.pc = "take" THEN {c.old_head} ELSE {}

Private(q) ==
    /\ \A t \in Callers : \A n \in Own(call[t]) : n \in allocated /\ ~ InList(q, n)
    /\ \A t, u \in Callers : t # u => Own(call[t]) \cap Own(call[u]) = {}

(* Nobody else takes nodes out, so what a pop compares with stays linked,  *)
(* and the next node it read is still the one after it.                    *)
Compared(q) ==
    \A t \in Callers :
        /\ call[t].pc \in {"next", "unlink", "take"} => t \in Poppers
        /\ call[t].pc \in {"next", "unlink"} => InList(q, call[t].old_head)
        /\ call[t].pc = "unlink" => call[t].next = node[call[t].old_head].next

ListIs(q) == Chain(q) /\ Private(q) /\ Compared(q)
StackIInv == Typed /\ \E q : ListIs(q)

-----------------------------------------------------------------------------
LEMMA InitStack == OnePopper /\ StackInit => StackIInv
  <1> SUFFICES ASSUME OnePopper, StackInit PROVE StackIInv
    OBVIOUS
  <1>1. \A t \in Callers : call[t] = Returned /\ call[t].pc = "idle"
    BY DEF StackInit, Returned
  <1>2. Typed
    <2>1. node \in [StackNodes -> [data : 0 .. MaxPushes, next : StackNodes \cup {NULL}]]
      BY DEF StackInit, OnePopper
    <2> QED
      BY <1>1, <2>1 DEF StackInit, Typed, CallTyped, OnePopper
  <1>3. Chain(<<>>)
    BY DEF StackInit, Chain, At
  <1>4. Private(<<>>) /\ Compared(<<>>)
    BY <1>1 DEF Private, Compared, Own
  <1> QED
    BY <1>2, <1>3, <1>4 DEF StackIInv, ListIs

(* A step of t concerns no other call.                                     *)
LEMMA Moves ==
    ASSUME Typed, NEW t \in Callers, NEW c, CallTyped(c), Goto(t, c)
    PROVE  /\ DOMAIN call' = Callers /\ call'[t] = c
           /\ \A u \in Callers : u # t => call'[u] = call[u]
           /\ \A u \in Callers : CallTyped(call'[u])
  BY DEF Typed, Goto

(* What the form of a call says.                                           *)
LEMMA Forms ==
    ASSUME NEW c, CallTyped(c)
    PROVE  /\ c.pc \in {"idle", "link", "next", "unlink", "take"}
           /\ c.pc = "link" => c.new_node \in StackNodes
           /\ c.pc \in {"next", "unlink", "take"} => c.old_head \in StackNodes
           /\ c.pc = "unlink" => c.next \in StackNodes \cup {NULL}
           /\ c.pc = "idle" => c = Returned
  <1>1. CASE c = Returned
    BY <1>1 DEF Returned
  <1>2. CASE Linking(c)
    BY <1>2 DEF Linking
  <1>3. CASE Reading(c)
    BY <1>3 DEF Reading
  <1>4. CASE Unlinking(c)
    BY <1>4 DEF Unlinking
  <1>5. CASE Taking(c)
    BY <1>5 DEF Taking
  <1> QED
    BY <1>1, <1>2, <1>3, <1>4, <1>5 DEF CallTyped

(* Steps that change a call and nothing else: what the call then has to    *)
(* itself it had before, and what it compares with is in the list.         *)
LEMMA Registered ==
    ASSUME OnePopper, Typed, NEW q, ListIs(q), NEW t \in Callers, NEW c, CallTyped(c),
           Goto(t, c), UNCHANGED <<head, node, pushes>>,
           allocated' = allocated \/ (\E n \in Own(call[t]) : allocated' = allocated \ {n}),
           Own(c) \subseteq Own(call[t]), \A n \in Own(c) : n \in allocated',
           c.pc \in {"next", "unlink", "take"} => t \in Poppers,
           c.pc \in {"next", "unlink"} => InList(q, c.old_head),
           c.pc = "unlink" => c.next = node[c.old_head].next
    PROVE  Typed' /\ ListIs(q)'
  <1>1. /\ DOMAIN call' = Callers /\ call'[t] = c
        /\ \A u \in Callers : u # t => call'[u] = call[u]
        /\ \A u \in Callers : CallTyped(call'[u])
    BY Moves
  <1>2. Typed'
    BY <1>1 DEF Typed
  <1>3. Chain(q)'
    <2>1. \A i \in 1 .. Len(q) : q[i] \in allocated'
      BY DEF ListIs, Chain, Private, InList
    <2> QED
      BY <2>1 DEF ListIs, Chain
  <1>4. Private(q)'
    <2>1. ASSUME NEW u \in Callers, NEW n \in Own(call'[u])
          PROVE  n \in allocated' /\ ~ InList(q, n)
      BY <1>1, <2>1 DEF ListIs, Private
    <2>2. ASSUME NEW u \in Callers, NEW v \in Callers, u # v
          PROVE  Own(call'[u]) \cap Own(call'[v]) = {}
      BY <1>1, <2>2 DEF ListIs, Private
    <2> QED
      BY <2>1, <2>2 DEF Private
  <1>5. Compared(q)'
    BY <1>1 DEF ListIs, Compared
  <1> QED
    BY <1>2, <1>3, <1>4, <1>5 DEF ListIs

(* new Node: the call has it to itself.                                    *)
LEMMA Pushed ==
    ASSUME OnePopper, Typed, NEW q, ListIs(q), NEW t \in Callers, push(t)
    PROVE  /\ Typed' /\ ListIs(q)'
           /\ \A n \in allocated : node'[n] = node[n]
           /\ call[t].pc = "idle" /\ call'[t].pc = "link"
           /\ \A u \in Callers : u # t => call'[u] = call[u]
  <1>1. PICK n \in StackNodes \ allocated :
            /\ allocated' = allocated \cup {n}
            /\ node' = [node EXCEPT ![n] = [data |-> pushes + 1, next |-> head]]
            /\ Goto(t, [pc |-> "link", new_node |-> n])
    BY DEF push
  <1>2. pushes' = pushes + 1 /\ pushes + 1 \in 1 .. MaxPushes /\ head' = head
        /\ call[t] = Returned
    BY DEF push, Typed, OnePopper
  <1>3. PICK c : c = [pc |-> "link", new_node |-> n]
    OBVIOUS
  <1>4. CallTyped(c) /\ c.pc = "link" /\ Own(c) = {n} /\ Goto(t, c)
    BY <1>1, <1>3 DEF CallTyped, Linking, Own
  <1>5. /\ DOMAIN call' = Callers /\ call'[t] = c
        /\ \A u \in Callers : u # t => call'[u] = call[u]
        /\ \A u \in Callers : CallTyped(call'[u])
    BY <1>4, Moves
  <1>6. head \in StackNodes \cup {NULL}
    BY DEF ListIs, Chain, At
  <1>7. PICK r : r = [data |-> pushes + 1, next |-> head]
    OBVIOUS
  <1>8. r \in [data : 0 .. MaxPushes, next : StackNodes \cup {NULL}] /\ r.data >= 1
    BY <1>2, <1>6, <1>7
  <1>9. node' = [node EXCEPT ![n] = r]
    BY <1>1, <1>7
  <1>10. /\ node' \in [StackNodes -> [data : 0 .. MaxPushes, next : StackNodes \cup {NULL}]]
         /\ node'[n] = r /\ \A m \in StackNodes : m # n => node'[m] = node[m]
    BY <1>8, <1>9 DEF Typed
  <1>11. Typed'
    BY <1>1, <1>2, <1>5, <1>8, <1>10 DEF Typed
  <1>12. \A i \in 1 .. Len(q) : q[i] \in allocated /\ q[i] # n /\ node'[q[i]] = node[q[i]]
    BY <1>1, <1>10 DEF ListIs, Chain, Typed
  <1>13. Chain(q)'
    BY <1>1, <1>2, <1>12 DEF ListIs, Chain
  <1>14. Private(q)'
    <2>1. ~ InList(q, n)
      BY <1>12 DEF InList
    <2>2. \A u \in Callers : \A m \in Own(call[u]) : m \in allocated /\ ~ InList(q, m) /\ m # n
      BY <1>1 DEF ListIs, Private
    <2>3. ASSUME NEW u \in Callers, NEW m \in Own(call'[u])
          PROVE  m \in allocated' /\ ~ InList(q, m)
      BY <1>1, <1>4, <1>5, <2>1, <2>2, <2>3
    <2>4. ASSUME NEW u \in Callers, NEW v \in Callers, u # v
          PROVE  Own(call'[u]) \cap Own(call'[v]) = {}
      BY <1>4, <1>5, <2>2, <2>4 DEF ListIs, Private
    <2> QED
      BY <2>3, <2>4 DEF Private
  <1>15. Compared(q)'
    <2>1. ASSUME NEW m, InList(q, m) PROVE node'[m] = node[m]
      BY <1>12, <2>1 DEF InList
    <2>2. ASSUME NEW u \in Callers
          PROVE  /\ call'[u].pc \in {"next", "unlink", "take"} => u \in Poppers
                 /\ call'[u].pc \in {"next", "unlink"} => InList(q, call'[u].old_head)
                 /\ call'[u].pc = "unlink" => call'[u].next = node'[call'[u].old_head].next
      <3>1. CASE u = t
        BY <1>4, <1>5, <3>1
      <3>2. CASE u # t
        BY <1>5, <2>1, <3>2 DEF ListIs, Compared
      <3> QED
        BY <3>1, <3>2
    <2> QED
      BY <2>2 DEF Compared
  <1> QED
    BY <1>1, <1>2, <1>4, <1>5, <1>10, <1>11, <1>13, <1>14, <1>15 DEF ListIs, Typed, Returned

(* A failed exchange writes the head it found into the caller's node.      *)
LEMMA Relinked ==
    ASSUME OnePopper, Typed, NEW q, ListIs(q), NEW t \in Callers, call[t].pc = "link",
           node' = [node EXCEPT ![call[t].new_node].next = head],
           UNCHANGED <<head, call, allocated, pushes>>
    PROVE  /\ Typed' /\ ListIs(q)'
           /\ \A n \in StackNodes : node'[n].data = node[n].data
  <1>1. PICK n : n = call[t].new_node
    OBVIOUS
  <1>2. n \in StackNodes /\ Own(call[t]) = {n}
    BY <1>1, Forms DEF Typed, Own
  <1>3. head \in StackNodes \cup {NULL}
    BY DEF ListIs, Chain, At
  <1>4. PICK r : r = [node[n] EXCEPT !.next = head]
    OBVIOUS
  <1>5. node[n] \in [data : 0 .. MaxPushes, next : StackNodes \cup {NULL}]
    BY <1>2 DEF Typed
  <1>6. /\ r \in [data : 0 .. MaxPushes, next : StackNodes \cup {NULL}]
        /\ r.data = node[n].data
    BY <1>3, <1>4, <1>5
  <1>7. node' = [node EXCEPT ![n] = r]
    BY <1>1, <1>4
  <1>8. /\ node' \in [StackNodes -> [data : 0 .. MaxPushes, next : StackNodes \cup {NULL}]]
        /\ \A m \in StackNodes : m # n => node'[m] = node[m]
        /\ \A m \in StackNodes : node'[m].data = node[m].data
    BY <1>2, <1>6, <1>7 DEF Typed
  <1>9. Typed'
    BY <1>8 DEF Typed
  <1>10. ~ InList(q, n)
    BY <1>2 DEF ListIs, Private
  <1>11. \A i \in 1 .. Len(q) : node'[q[i]] = node[q[i]]
    BY <1>8, <1>10 DEF InList, ListIs, Chain
  <1>12. Chain(q)'
    BY <1>11 DEF ListIs, Chain
  <1>13. Private(q)'
    BY DEF ListIs, Private
  <1>14. Compared(q)'
    BY <1>11 DEF ListIs, Compared, InList
  <1> QED
    BY <1>8, <1>9, <1>12, <1>13, <1>14 DEF ListIs

LEMMA FrontNode ==
    ASSUME NEW S, NEW q \in Seq(S), NEW n \in S
    PROVE  /\ <<n>> \o q \in Seq(S) /\ Len(<<n>> \o q) = Len(q) + 1 /\ Len(q) \in Nat
           /\ (<<n>> \o q)[1] = n
           /\ \A i \in 1 .. Len(q) : (<<n>> \o q)[i + 1] = q[i]
  OBVIOUS

(* The caller's node becomes the first of the list.                        *)
LEMMA LinkedIn ==
    ASSUME OnePopper, Typed, NEW q, ListIs(q), NEW t \in Callers, call[t].pc = "link",
           NEW n, n = call[t].new_node,
           head = node[n].next, head' = n, Goto(t, Returned),
           UNCHANGED <<node, allocated, pushes>>
    PROVE  /\ Typed' /\ ListIs(<<n>> \o q)'
           /\ n \in allocated
           /\ \A u \in Callers : u # t => call'[u] = call[u]
           /\ call'[t] = Returned
  <1>1. n = call[t].new_node
    OBVIOUS
  <1>2. n \in StackNodes /\ Own(call[t]) = {n}
    BY <1>1, Forms DEF Typed, Own
  <1>3. n \in allocated /\ ~ InList(q, n) /\ q \in Seq(StackNodes)
    BY <1>2 DEF ListIs, Private, Chain
  <1>4. PICK r : r = <<n>> \o q
    OBVIOUS
  <1>5. /\ r \in Seq(StackNodes) /\ Len(r) = Len(q) + 1 /\ Len(q) \in Nat /\ r[1] = n
        /\ \A i \in 1 .. Len(q) : r[i + 1] = q[i]
    BY <1>2, <1>3, <1>4, FrontNode
  <1>6. /\ DOMAIN call' = Callers /\ call'[t] = Returned
        /\ \A u \in Callers : u # t => call'[u] = call[u]
        /\ \A u \in Callers : CallTyped(call'[u])
    BY Moves DEF CallTyped
  <1>7. Typed'
    BY <1>6 DEF Typed
  <1>8. \A i \in 1 .. Len(r) : r[i] = IF i = 1 THEN n ELSE q[i - 1]
    <2>1. ASSUME NEW i \in 1 .. Len(r), i # 1 PROVE r[i] = q[i - 1]
      <3>1. i - 1 \in 1 .. Len(q) /\ (i - 1) + 1 = i
        BY <1>5, <2>1
      <3>2. r[(i - 1) + 1] = q[i - 1]
        BY <1>5, <3>1
      <3> QED
        BY <3>1, <3>2
    <2> QED
      BY <1>5, <2>1
  <1>9. \A m : InList(r, m) <=> m = n \/ InList(q, m)
    <2>1. ASSUME NEW m, InList(r, m) PROVE m = n \/ InList(q, m)
      <3>1. PICK i \in 1 .. Len(r) : r[i] = m
        BY <2>1 DEF InList
      <3>2. i = 1 \/ i - 1 \in 1 .. Len(q)
        BY <1>5
      <3> QED
        BY <1>8, <3>1, <3>2 DEF InList
    <2>2. InList(r, n)
      <3>1. 1 \in 1 .. Len(r)
        BY <1>5
      <3> QED
        BY <1>5, <3>1 DEF InList
    <2>3. ASSUME NEW m, InList(q, m) PROVE InList(r, m)
      <3>1. PICK i \in 1 .. Len(q) : q[i] = m
        BY <2>3 DEF InList
      <3>2. i + 1 \in 1 .. Len(r)
        BY <1>5
      <3> QED
        BY <1>5, <3>1, <3>2 DEF InList
    <2> QED
      BY <2>1, <2>2, <2>3
  <1>10. \A i \in Nat \ {0} : At(r, i + 1) = At(q, i)
    <2>1. ASSUME NEW i \in Nat \ {0} PROVE At(r, i + 1) = At(q, i)
      <3>1. i + 1 \in 1 .. Len(r) <=> i \in 1 .. Len(q)
        BY <1>5
      <3> QED
        BY <1>5, <3>1 DEF At
    <2> QED
      BY <2>1
  <1>11. Chain(r)'
    <2>1. head' = At(r, 1)
      BY <1>1, <1>5 DEF At
    <2>2. ASSUME NEW i \in 1 .. Len(r)
          PROVE  node'[r[i]].next = At(r, i + 1) /\ r[i] \in allocated'
      <3>1. CASE i = 1
        <4>1. node[n].next = At(q, 1)
          BY <1>1 DEF ListIs, Chain
        <4>2. At(r, 1 + 1) = At(q, 1)
          BY <1>10
        <4> QED
          BY <1>3, <1>5, <3>1, <4>1, <4>2
      <3>2. CASE i # 1
        <4>1. PICK j : j = i - 1
          OBVIOUS
        <4>2. j \in 1 .. Len(q) /\ i = j + 1 /\ j \in Nat \ {0} /\ i \in Nat \ {0}
          BY <1>5, <3>2, <4>1
        <4>3. node[q[j]].next = At(q, j + 1) /\ q[j] \in allocated
          BY <4>2 DEF ListIs, Chain
        <4>4. r[i] = q[j]
          BY <1>5, <4>2
        <4>5. At(r, i + 1) = At(q, i)
          BY <1>10, <4>2
        <4> QED
          BY <4>2, <4>3, <4>4, <4>5
      <3> QED
        BY <3>1, <3>2
    <2>3. ASSUME NEW i \in 1 .. Len(r), NEW j \in 1 .. Len(r), r[i] = r[j] PROVE i = j
      <3>1. i # 1 => i - 1 \in 1 .. Len(q) /\ r[i] = q[i - 1] /\ r[i] # n
        BY <1>3, <1>5, <1>8 DEF InList
      <3>2. j # 1 => j - 1 \in 1 .. Len(q) /\ r[j] = q[j - 1] /\ r[j] # n
        BY <1>3, <1>5, <1>8 DEF InList
      <3>3. i # 1 /\ j # 1 => i - 1 = j - 1
        BY <2>3, <3>1, <3>2 DEF ListIs, Chain
      <3>4. i \in Int /\ j \in Int
        OBVIOUS
      <3> QED
        BY <1>5, <2>3, <3>1, <3>2, <3>3, <3>4
    <2> QED
      BY <1>5, <2>1, <2>2, <2>3 DEF Chain
  <1>12. Private(r)'
    <2>1. Own(Returned) = {}
      BY DEF Own, Returned
    <2>2. ASSUME NEW u \in Callers, NEW m \in Own(call'[u])
          PROVE  m \in allocated' /\ ~ InList(r, m)
      <3>1. u # t
        BY <1>6, <2>1, <2>2
      <3>2. m \in Own(call[u]) /\ m # n
        BY <1>2, <1>6, <2>2, <3>1 DEF ListIs, Private
      <3> QED
        BY <1>9, <3>2 DEF ListIs, Private
    <2>3. ASSUME NEW u \in Callers, NEW v \in Callers, u # v
          PROVE  Own(call'[u]) \cap Own(call'[v]) = {}
      BY <1>6, <2>1, <2>3 DEF ListIs, Private
    <2> QED
      BY <2>2, <2>3 DEF Private
  <1>13. Compared(r)'
    <2>1. Returned.pc = "idle"
      BY DEF Returned
    <2> QED
      BY <1>6, <1>9, <2>1 DEF ListIs, Compared
  <1> QED
    BY <1>1, <1>3, <1>4, <1>6, <1>7, <1>11, <1>12, <1>13 DEF ListIs

LEMMA BehindOne ==
    ASSUME NEW S, NEW q \in Seq(S), q # <<>>
    PROVE  /\ Tail(q) \in Seq(S) /\ Len(Tail(q)) = Len(q) - 1 /\ Len(q) \in Nat /\ Len(q) >= 1
           /\ \A i \in 1 .. Len(q) - 1 : Tail(q)[i] = q[i + 1]
  OBVIOUS

(* The first of the list becomes the popper's own.                         *)
LEMMA TakenOut ==
    ASSUME OnePopper, Typed, NEW q, ListIs(q), NEW t \in Callers, call[t].pc = "unlink",
           head = call[t].old_head, head' = call[t].next,
           Goto(t, [pc |-> "take", old_head |-> call[t].old_head]),
           UNCHANGED <<node, allocated, pushes>>
    PROVE  /\ Typed' /\ ListIs(Tail(q))'
           /\ q # <<>> /\ q[1] = call[t].old_head
           /\ \A u \in Callers : u # t => call'[u] = call[u]
           /\ call'[t].pc = "take" /\ call'[t].old_head = call[t].old_head
  <1>1. PICK n, c : n = call[t].old_head /\ c = [pc |-> "take", old_head |-> call[t].old_head]
    OBVIOUS
  <1>2. n \in StackNodes /\ t \in Poppers /\ InList(q, n) /\ call[t].next = node[n].next
    BY <1>1, Forms DEF Typed, ListIs, Compared
  <1>3. CallTyped(c) /\ c.pc = "take" /\ c.old_head = n /\ Own(c) = {n} /\ Goto(t, c)
    BY <1>1, <1>2 DEF CallTyped, Taking, Own
  <1>4. /\ DOMAIN call' = Callers /\ call'[t] = c
        /\ \A u \in Callers : u # t => call'[u] = call[u]
        /\ \A u \in Callers : CallTyped(call'[u])
    BY <1>3, Moves
  <1>5. Typed'
    BY <1>4 DEF Typed
  <1>6. q \in Seq(StackNodes) /\ q # <<>> /\ q[1] = n
    <2>1. PICK i \in 1 .. Len(q) : q[i] = n
      BY <1>2 DEF InList
    <2>2. q \in Seq(StackNodes) /\ Len(q) \in Nat /\ Len(q) >= 1 /\ head = At(q, 1)
      BY <2>1 DEF ListIs, Chain
    <2> QED
      BY <1>1, <2>2 DEF At
  <1>7. PICK r : r = Tail(q)
    OBVIOUS
  <1>8. /\ r \in Seq(StackNodes) /\ Len(r) = Len(q) - 1 /\ Len(q) \in Nat /\ Len(q) >= 1
        /\ \A i \in 1 .. Len(q) - 1 : r[i] = q[i + 1]
    BY <1>6, <1>7, BehindOne
  <1>9. \A i \in 1 .. Len(q) : q[i] = n => i = 1
    BY <1>6, <1>8 DEF ListIs, Chain
  <1>10. \A m : InList(r, m) <=> InList(q, m) /\ m # n
    <2>1. ASSUME NEW m, InList(r, m) PROVE InList(q, m) /\ m # n
      <3>1. PICK i \in 1 .. Len(r) : r[i] = m
        BY <2>1 DEF InList
      <3>2. i + 1 \in 1 .. Len(q) /\ i + 1 # 1 /\ q[i + 1] = m
        BY <1>8, <3>1
      <3> QED
        BY <1>9, <3>2 DEF InList
    <2>2. ASSUME NEW m, InList(q, m), m # n PROVE InList(r, m)
      <3>1. PICK i \in 1 .. Len(q) : q[i] = m
        BY <2>2 DEF InList
      <3>2. i # 1
        BY <1>6, <2>2, <3>1
      <3>3. i - 1 \in 1 .. Len(r) /\ (i - 1) + 1 = i /\ i - 1 \in 1 .. Len(q) - 1
        BY <1>8, <3>2
      <3>4. r[i - 1] = q[(i - 1) + 1]
        BY <1>8, <3>3
      <3> QED
        BY <3>1, <3>3, <3>4 DEF InList
    <2> QED
      BY <2>1, <2>2
  <1>11. \A i \in Nat \ {0} : At(r, i) = At(q, i + 1)
    <2>1. ASSUME NEW i \in Nat \ {0} PROVE At(r, i) = At(q, i + 1)
      <3>1. i \in 1 .. Len(r) <=> i + 1 \in 1 .. Len(q)
        BY <1>8
      <3>2. i \in 1 .. Len(r) => r[i] = q[i + 1]
        BY <1>8
      <3> QED
        BY <3>1, <3>2 DEF At
    <2> QED
      BY <2>1
  <1>12. Chain(r)'
    <2>1. head' = At(r, 1)
      <3>1. node[q[1]].next = At(q, 1 + 1)
        BY <1>8 DEF ListIs, Chain
      <3>2. At(r, 1) = At(q, 1 + 1)
        BY <1>11
      <3> QED
        BY <1>2, <1>6, <3>1, <3>2
    <2>2. ASSUME NEW i \in 1 .. Len(r)
          PROVE  node'[r[i]].next = At(r, i + 1) /\ r[i] \in allocated'
      <3>1. PICK j : j = i + 1
        OBVIOUS
      <3>2. j \in 1 .. Len(q) /\ r[i] = q[j] /\ j \in Nat \ {0}
        BY <1>8, <3>1
      <3>3. node[q[j]].next = At(q, j + 1) /\ q[j] \in allocated
        BY <3>2 DEF ListIs, Chain
      <3>4. At(r, j) = At(q, j + 1)
        BY <1>11, <3>2
      <3> QED
        BY <3>1, <3>2, <3>3, <3>4
    <2>3. ASSUME NEW i \in 1 .. Len(r), NEW j \in 1 .. Len(r), r[i] = r[j] PROVE i = j
      <3>1. i + 1 \in 1 .. Len(q) /\ j + 1 \in 1 .. Len(q) /\ q[i + 1] = q[j + 1]
        BY <1>8, <2>3
      <3>2. i + 1 = j + 1
        BY <3>1 DEF ListIs, Chain
      <3> QED
        BY <3>2
    <2> QED
      BY <1>8, <2>1, <2>2, <2>3 DEF Chain
  <1>13. n \in allocated
    BY <1>6, <1>8 DEF ListIs, Chain
  <1>14. Own(call[t]) = {}
    BY DEF Own
  <1>15. Private(r)'
    <2>1. \A u \in Callers : \A m \in Own(call[u]) : m \in allocated /\ ~ InList(q, m) /\ m # n
      BY <1>2 DEF ListIs, Private
    <2>2. ASSUME NEW u \in Callers, NEW m \in Own(call'[u])
          PROVE  m \in allocated' /\ ~ InList(r, m)
      BY <1>3, <1>4, <1>10, <1>13, <2>1, <2>2
    <2>3. ASSUME NEW u \in Callers, NEW v \in Callers, u # v
          PROVE  Own(call'[u]) \cap Own(call'[v]) = {}
      BY <1>3, <1>4, <2>1, <2>3 DEF ListIs, Private
    <2> QED
      BY <2>2, <2>3 DEF Private
  <1>16. Compared(r)'
    <2>1. ASSUME NEW u \in Callers
          PROVE  /\ call'[u].pc \in {"next", "unlink", "take"} => u \in Poppers
                 /\ call'[u].pc \in {"next", "unlink"} => InList(r, call'[u].old_head)
                 /\ call'[u].pc = "unlink" => call'[u].next = node'[call'[u].old_head].next
      <3>1. CASE u = t
        BY <1>2, <1>3, <1>4, <3>1
      <3>2. CASE u # t
        <4>1. u \notin Poppers
          BY <1>2, <3>2 DEF OnePopper
        <4>2. call[u].pc \notin {"next", "unlink", "take"}
          BY <4>1 DEF ListIs, Compared
        <4> QED
          BY <1>4, <3>2, <4>2
      <3> QED
        BY <3>1, <3>2
    <2> QED
      BY <2>1 DEF Compared
  <1> QED
    BY <1>1, <1>3, <1>4, <1>5, <1>6, <1>7, <1>12, <1>15, <1>16 DEF ListIs

-----------------------------------------------------------------------------
LEMMA Listed ==
    ASSUME NEW X, NEW n \in Nat, NEW s \in [1 .. n -> X]
    PROVE  s \in Seq(X) /\ Len(s) = n
  OBVIOUS

(* What the walk from the head sees.                                       *)
Data(q) == [k \in 1 .. Len(q) |-> node[q[k]].data]

(* The list is no longer than there are nodes.                             *)
LEMMA ListFits ==
    ASSUME OnePopper, NEW q, Chain(q)
    PROVE  Len(q) \in Nat /\ Cardinality(StackNodes) \in Nat /\ Len(q) <= Cardinality(StackNodes)
  <1>1. Len(q) \in Nat /\ q \in [1 .. Len(q) -> StackNodes]
    BY DEF Chain
  <1>2. q \in Injection(1 .. Len(q), StackNodes)
    BY <1>1 DEF Chain, Injection, IsInjective
  <1>3. IsFiniteSet(StackNodes)
    BY DEF OnePopper
  <1>4. IsFiniteSet(1 .. Len(q)) /\ Cardinality(1 .. Len(q)) = Len(q)
    BY <1>1, FS_Interval
  <1> QED
    BY <1>1, <1>2, <1>3, <1>4, FS_Injection, FS_CardinalityType

(* A function that follows the nodes k places down from the head.          *)
Follows(b) ==
    b = [k \in 0 .. Cardinality(StackNodes) |->
            IF k = 0 THEN head
            ELSE IF b[k - 1] = NULL THEN NULL ELSE node[b[k - 1]].next]

LEMMA BelowIs ==
    ASSUME OnePopper, NEW q, Chain(q)
    PROVE  \A k \in 0 .. Cardinality(StackNodes) : Below[k] = At(q, k + 1)
  <1>1. PICK n : n = Cardinality(StackNodes)
    OBVIOUS
  <1>2. n \in Nat /\ Len(q) \in Nat /\ Len(q) <= n
    BY <1>1, ListFits
  <1>3. \A k \in Nat \ {0} : At(q, k + 1) = IF At(q, k) = NULL THEN NULL ELSE node[At(q, k)].next
    <2> TAKE k \in Nat \ {0}
    <2>1. CASE k \in 1 .. Len(q)
      <3>1. At(q, k) = q[k] /\ node[q[k]].next = At(q, k + 1) /\ q[k] # NULL
        BY <2>1 DEF Chain, At, OnePopper
      <3> QED
        BY <3>1
    <2>2. CASE k \notin 1 .. Len(q)
      <3>1. k + 1 \notin 1 .. Len(q)
        BY <1>2, <2>2
      <3> QED
        BY <2>2, <3>1 DEF At
    <2> QED
      BY <2>1, <2>2
  <1>4. \E b : Follows(b)
    <2>1. PICK b : b = [k \in 0 .. n |-> At(q, k + 1)]
      OBVIOUS
    <2>2. ASSUME NEW k \in 0 .. n
          PROVE  b[k] = IF k = 0 THEN head
                        ELSE IF b[k - 1] = NULL THEN NULL ELSE node[b[k - 1]].next
      <3>1. CASE k = 0
        <4>1. b[0] = At(q, 0 + 1)
          BY <1>2, <2>1
        <4> QED
          BY <3>1, <4>1 DEF Chain
      <3>2. CASE k # 0
        <4>1. k - 1 \in 0 .. n /\ (k - 1) + 1 = k /\ k \in Nat \ {0}
          BY <1>2, <3>2
        <4>2. b[k] = At(q, k + 1) /\ b[k - 1] = At(q, k)
          BY <2>1, <4>1
        <4> QED
          BY <1>3, <3>2, <4>1, <4>2
      <3> QED
        BY <3>1, <3>2
    <2>3. b = [k \in 0 .. n |-> b[k]]
      BY <2>1
    <2>4. b = [k \in 0 .. n |-> IF k = 0 THEN head
                                ELSE IF b[k - 1] = NULL THEN NULL ELSE node[b[k - 1]].next]
      BY <2>2, <2>3
    <2> QED
      BY <1>1, <2>4 DEF Follows
  <1>5. Below = CHOOSE b : Follows(b)
    BY DEF Below, Follows
  <1>6. Follows(Below)
    BY <1>4, <1>5
  <1>7. PICK b : b = Below
    OBVIOUS
  <1>8. /\ b[0] = head
        /\ \A k \in 0 .. n : k # 0 =>
               b[k] = IF b[k - 1] = NULL THEN NULL ELSE node[b[k - 1]].next
    <2>1. PICK c : c = b
      OBVIOUS
    <2>2. c = [k \in 0 .. n |-> IF k = 0 THEN head
                                ELSE IF b[k - 1] = NULL THEN NULL ELSE node[b[k - 1]].next]
      BY <1>1, <1>6, <1>7, <2>1 DEF Follows
    <2>3. 0 \in 0 .. n
      BY <1>2
    <2>4. /\ c[0] = head
          /\ \A k \in 0 .. n : k # 0 =>
                 c[k] = IF b[k - 1] = NULL THEN NULL ELSE node[b[k - 1]].next
      BY <2>2, <2>3
    <2> QED
      BY <2>1, <2>4
  <1>9. PICK Bad : Bad = {k \in 0 .. n : b[k] # At(q, k + 1)}
    OBVIOUS
  <1>10. Bad = {}
    <2>1. SUFFICES ASSUME Bad # {} PROVE FALSE
      OBVIOUS
    <2>2. Bad \subseteq Nat
      BY <1>2, <1>9
    <2>3. PICK k \in Bad : \A j \in Bad : k <= j
      BY <2>1, <2>2, LeastIn
    <2>4. k \in 0 .. n /\ b[k] # At(q, k + 1)
      BY <1>9, <2>3
    <2>5. k # 0
      <3>1. head = At(q, 0 + 1)
        BY DEF Chain
      <3> QED
        BY <1>8, <2>4, <3>1
    <2>6. k - 1 \in 0 .. n /\ k - 1 < k /\ (k - 1) + 1 = k /\ k \in Nat \ {0} /\ ~ (k <= k - 1)
      BY <1>2, <2>4, <2>5
    <2>7. k - 1 \notin Bad
      BY <2>3, <2>6
    <2>8. b[k - 1] = At(q, k)
      BY <1>9, <2>6, <2>7
    <2>9. b[k] = IF b[k - 1] = NULL THEN NULL ELSE node[b[k - 1]].next
      BY <1>8, <2>4, <2>5
    <2> QED
      BY <1>3, <2>4, <2>6, <2>8, <2>9
  <1> QED
    BY <1>1, <1>7, <1>9, <1>10

LEMMA ContentsIs == \A q : OnePopper /\ Chain(q) => Contents = Data(q)
  <1> SUFFICES ASSUME NEW q, OnePopper, Chain(q)
               PROVE  Contents = Data(q)
    OBVIOUS
  <1>1. PICK n : n = Cardinality(StackNodes)
    OBVIOUS
  <1>2. n \in Nat /\ Len(q) \in Nat /\ Len(q) <= n
    BY <1>1, ListFits
  <1>3. ASSUME NEW k \in 1 .. n PROVE Below[k - 1] = At(q, k)
    <2>1. k - 1 \in 0 .. n /\ (k - 1) + 1 = k
      BY <1>2
    <2>2. Below[k - 1] = At(q, (k - 1) + 1)
      BY <1>1, <2>1, BelowIs
    <2> QED
      BY <2>1, <2>2
  <1>4. \A k \in 1 .. Len(q) : At(q, k) = q[k] /\ q[k] # NULL
    BY DEF At, Chain, OnePopper
  <1>5. Linked = 1 .. Len(q)
    <2>1. ASSUME NEW k \in 1 .. n PROVE Below[k - 1] # NULL <=> k \in 1 .. Len(q)
      BY <1>3, <1>4 DEF At
    <2>2. 1 .. Len(q) \subseteq 1 .. n
      BY <1>2
    <2> QED
      BY <1>1, <2>1, <2>2 DEF Linked
  <1>6. \A k \in 1 .. Len(q) : node[Below[k - 1]].data = node[q[k]].data
    <2> TAKE k \in 1 .. Len(q)
    <2>1. k \in 1 .. n
      BY <1>2
    <2> QED
      BY <1>3, <1>4, <2>1
  <1> QED
    BY <1>5, <1>6 DEF Contents, Data

-----------------------------------------------------------------------------
Out == [t \in Callers |-> TakenOff(t)]

LEMMA SeenBefore ==
    ASSUME OnePopper, NEW q, ListIs(q)
    PROVE  Contents = Data(q)
  BY ContentsIs DEF ListIs

LEMMA SeenAfter ==
    ASSUME OnePopper, NEW r, ListIs(r)'
    PROVE  Contents' = [k \in 1 .. Len(r) |-> node'[r[k]].data]
  <1>1. (\A q : OnePopper /\ Chain(q) => Contents = Data(q))'
    BY ContentsIs, PTL
  <1>2. Chain(r)' /\ OnePopper'
    BY DEF ListIs, OnePopper
  <1>3. Contents' = Data(r)'
    BY <1>1, <1>2
  <1> QED
    BY <1>3 DEF Data

(* Steps the stack does not see.                                           *)
LEMMA Unseen ==
    ASSUME OnePopper, NEW q, ListIs(q), ListIs(q)',
           \A n \in allocated : node'[n].data = node[n].data,
           \A u \in Callers : TakenOff(u)' = TakenOff(u)
    PROVE  Contents' = Contents /\ Out' = Out
  <1>1. Contents = Data(q) /\ Contents' = [k \in 1 .. Len(q) |-> node'[q[k]].data]
    BY SeenBefore, SeenAfter
  <1>2. \A k \in 1 .. Len(q) : node'[q[k]].data = node[q[k]].data
    BY DEF ListIs, Chain
  <1>3. Contents' = Contents
    BY <1>1, <1>2 DEF Data
  <1> QED
    BY <1>3 DEF Out

(* What was popped is in a node of the popper's own.                       *)
LEMMA PoppedIs ==
    ASSUME Typed, NEW q, ListIs(q), NEW t \in Callers, call[t].pc = "take"
    PROVE  /\ call[t].old_head \in allocated /\ call[t].old_head \in StackNodes
           /\ TakenOff(t) = node[call[t].old_head].data /\ TakenOff(t) # 0
  <1>1. call[t].old_head \in Own(call[t])
    BY DEF Own
  <1>2. call[t].old_head \in allocated
    BY <1>1 DEF ListIs, Private
  <1>3. node[call[t].old_head].data >= 1 /\ ~ (0 >= 1)
    BY <1>2 DEF Typed
  <1> QED
    BY <1>2, <1>3 DEF TakenOff, Typed

Refined == StackIInv' /\ [Promise!Next]_<<Contents, Out>>

LEMMA PushRefines ==
    ASSUME OnePopper, Typed, NEW q, ListIs(q), NEW t \in Callers, push(t)
    PROVE  Refined
  <1>1. /\ Typed' /\ ListIs(q)'
        /\ \A n \in allocated : node'[n] = node[n]
        /\ call[t].pc = "idle" /\ call'[t].pc = "link"
        /\ \A u \in Callers : u # t => call'[u] = call[u]
    BY Pushed
  <1>2. ASSUME NEW u \in Callers PROVE TakenOff(u)' = TakenOff(u)
    <2>1. CASE u = t
      BY <1>1, <2>1 DEF TakenOff
    <2>2. CASE u # t
      BY <1>1, <2>2, PoppedIs DEF TakenOff
    <2> QED
      BY <2>1, <2>2
  <1>3. Contents' = Contents /\ Out' = Out
    BY <1>1, <1>2, Unseen
  <1> QED
    BY <1>1, <1>3 DEF Refined, StackIInv

LEMMA LinkRefines ==
    ASSUME OnePopper, Typed, NEW q, ListIs(q), NEW t \in Callers, Link(t)
    PROVE  Refined
  <1>1. PICK n : n = call[t].new_node
    OBVIOUS
  <1>2. call[t].pc = "link" /\ UNCHANGED <<allocated, pushes>> /\ n \in StackNodes
    BY <1>1, Forms DEF Link, Typed
  <1>3. CASE head = node[n].next /\ head' = n /\ Goto(t, Returned) /\ UNCHANGED node
    <2>1. /\ Typed' /\ ListIs(<<n>> \o q)' /\ n \in allocated
          /\ \A u \in Callers : u # t => call'[u] = call[u]
          /\ call'[t] = Returned
      BY <1>1, <1>2, <1>3, LinkedIn
    <2>2. PICK r, v : r = <<n>> \o q /\ v = node[n].data
      OBVIOUS
    <2>3. q \in Seq(StackNodes)
      BY DEF ListIs, Chain
    <2>4. /\ r \in Seq(StackNodes) /\ Len(r) = Len(q) + 1 /\ Len(q) \in Nat /\ r[1] = n
          /\ \A i \in 1 .. Len(q) : r[i + 1] = q[i]
      BY <1>2, <2>2, <2>3, FrontNode
    <2>5. /\ Contents = [k \in 1 .. Len(q) |-> node[q[k]].data]
          /\ Contents' = [k \in 1 .. Len(r) |-> node'[r[k]].data]
      BY <2>1, <2>2, SeenBefore, SeenAfter DEF Data
    <2>6. v \in 1 .. MaxPushes
      BY <1>2, <2>1, <2>2 DEF Typed
    <2>7. Contents' = <<v>> \o Contents
      <3>1. PICK s, w : s = Contents /\ w = Contents'
        OBVIOUS
      <3>2. /\ s \in Seq(0 .. MaxPushes) /\ Len(s) = Len(q)
            /\ \A k \in 1 .. Len(q) : s[k] = node[q[k]].data
        <4>1. \A k \in 1 .. Len(q) : node[q[k]].data \in 0 .. MaxPushes
          BY <2>3 DEF Typed
        <4>2. s \in [1 .. Len(q) -> 0 .. MaxPushes] /\ \A k \in 1 .. Len(q) : s[k] = node[q[k]].data
          BY <2>5, <3>1, <4>1
        <4>3. s \in Seq(0 .. MaxPushes) /\ Len(s) = Len(q)
          BY <2>4, <4>2, Listed
        <4> QED
          BY <4>2, <4>3
      <3>3. /\ w = [k \in 1 .. Len(q) + 1 |-> w[k]]
            /\ \A k \in 1 .. Len(q) + 1 : w[k] = node[r[k]].data
        BY <1>3, <2>4, <2>5, <3>1
      <3>4. /\ Len(<<v>> \o s) = Len(q) + 1 /\ <<v>> \o s \in Seq(0 .. MaxPushes)
            /\ (<<v>> \o s)[1] = v
            /\ \A i \in 1 .. Len(q) : (<<v>> \o s)[i + 1] = s[i]
        <4>1. v \in 0 .. MaxPushes
          BY <2>6
        <4> QED
          BY <3>2, <4>1, FrontNode
      <3>5. ASSUME NEW k \in 1 .. Len(q) + 1 PROVE w[k] = (<<v>> \o s)[k]
        <4>1. CASE k = 1
          BY <2>2, <2>4, <3>3, <3>4, <4>1
        <4>2. CASE k # 1
          <5>1. PICK i : i = k - 1
            OBVIOUS
          <5>2. i \in 1 .. Len(q) /\ k = i + 1
            BY <2>4, <4>2, <5>1
          <5> QED
            BY <2>4, <3>2, <3>3, <3>4, <5>2
        <4> QED
          BY <4>1, <4>2
      <3>6. PICK x : x = <<v>> \o s
        OBVIOUS
      <3>7. x = [k \in 1 .. Len(q) + 1 |-> x[k]]
        BY <3>4, <3>6
      <3> QED
        BY <3>1, <3>3, <3>5, <3>6, <3>7
    <2>8. ASSUME NEW u \in Callers PROVE TakenOff(u)' = TakenOff(u)
      BY <1>2, <1>3, <2>1 DEF TakenOff, Returned
    <2>9. Out' = Out
      BY <2>8 DEF Out
    <2>10. Promise!Push(v)
      BY <2>7, <2>9 DEF Promise!Push, Out
    <2> QED
      BY <2>1, <2>6, <2>10 DEF Refined, StackIInv, Promise!Next
  <1>4. CASE node' = [node EXCEPT ![n].next = head] /\ UNCHANGED <<head, call>>
    <2>1. Typed' /\ ListIs(q)' /\ \A m \in StackNodes : node'[m].data = node[m].data
      BY <1>1, <1>2, <1>4, Relinked
    <2>2. ASSUME NEW u \in Callers PROVE TakenOff(u)' = TakenOff(u)
      BY <1>4, <2>1, PoppedIs DEF TakenOff
    <2>3. \A m \in allocated : node'[m].data = node[m].data
      BY <2>1 DEF Typed
    <2>4. Contents' = Contents /\ Out' = Out
      BY <2>1, <2>2, <2>3, Unseen
    <2> QED
      BY <2>1, <2>4 DEF Refined, StackIInv
  <1> QED
    BY <1>1, <1>3, <1>4 DEF Link

(* Steps of pop that only change what the thread compares with.            *)
LEMMA ComparesRefine ==
    ASSUME OnePopper, Typed, NEW q, ListIs(q), NEW t \in Callers, NEW c, CallTyped(c),
           Goto(t, c), UNCHANGED <<head, node, allocated, pushes>>,
           call[t].pc # "take", c.pc \in {"idle", "next", "unlink"},
           c.pc # "idle" => t \in Poppers /\ InList(q, c.old_head),
           c.pc = "unlink" => c.next = node[c.old_head].next
    PROVE  Refined
  <1>1. Own(c) = {}
    BY DEF Own
  <1>2. Typed' /\ ListIs(q)'
    BY <1>1, Registered
  <1>3. call'[t] = c /\ \A u \in Callers : u # t => call'[u] = call[u]
    BY Moves
  <1>4. ASSUME NEW u \in Callers PROVE TakenOff(u)' = TakenOff(u)
    <2>1. CASE u = t
      BY <1>3, <2>1 DEF TakenOff
    <2>2. CASE u # t
      BY <1>3, <2>2 DEF TakenOff
    <2> QED
      BY <2>1, <2>2
  <1>5. Contents' = Contents /\ Out' = Out
    BY <1>2, <1>4, Unseen
  <1> QED
    BY <1>2, <1>5 DEF Refined, StackIInv

(* A head that is there is in the list.                                    *)
LEMMA HeadIn ==
    ASSUME NEW q, ListIs(q), head # NULL
    PROVE  InList(q, head) /\ head \in StackNodes
  <1>1. q \in Seq(StackNodes) /\ head = At(q, 1)
    BY DEF ListIs, Chain
  <1>2. 1 \in 1 .. Len(q)
    BY <1>1 DEF At
  <1> QED
    BY <1>1, <1>2 DEF At, InList

LEMMA HeadRefines ==
    ASSUME OnePopper, Typed, NEW q, ListIs(q), NEW t \in Poppers, t \in Callers,
           call[t].pc # "take",
           Goto(t, IF head = NULL THEN Returned ELSE [pc |-> "next", old_head |-> head]),
           UNCHANGED <<head, node, allocated, pushes>>
    PROVE  Refined
  <1>1. CASE head = NULL
    <2>1. Goto(t, Returned) /\ CallTyped(Returned) /\ Returned.pc = "idle"
      BY <1>1 DEF CallTyped, Returned
    <2> QED
      BY <2>1, ComparesRefine
  <1>2. CASE head # NULL
    <2>1. PICK c : c = [pc |-> "next", old_head |-> head]
      OBVIOUS
    <2>2. InList(q, head) /\ head \in StackNodes
      BY <1>2, HeadIn
    <2>3. c.pc = "next" /\ c.old_head = head /\ CallTyped(c) /\ Goto(t, c)
      BY <1>2, <2>1, <2>2 DEF CallTyped, Reading
    <2> QED
      BY <2>2, <2>3, ComparesRefine
  <1> QED
    BY <1>1, <1>2

LEMMA ReadRefines ==
    ASSUME OnePopper, Typed, NEW q, ListIs(q), NEW t \in Callers, ReadNext(t)
    PROVE  Refined
  <1>1. PICK n, c : /\ n = call[t].old_head
                    /\ c = [pc |-> "unlink", old_head |-> n, next |-> node[n].next]
    OBVIOUS
  <1>2. /\ call[t].pc = "next" /\ n \in StackNodes /\ Goto(t, c) /\ t \in Poppers /\ InList(q, n)
        /\ UNCHANGED <<head, node, allocated, pushes>>
    BY <1>1, Forms DEF ReadNext, Typed, ListIs, Compared
  <1>3. node[n].next \in StackNodes \cup {NULL}
    BY <1>2 DEF Typed
  <1>4. CallTyped(c) /\ c.pc = "unlink" /\ c.old_head = n /\ c.next = node[n].next
    BY <1>1, <1>2, <1>3 DEF CallTyped, Unlinking
  <1> QED
    BY <1>2, <1>4, ComparesRefine

LEMMA UnlinkRefines ==
    ASSUME OnePopper, Typed, NEW q, ListIs(q), NEW t \in Callers, Unlink(t)
    PROVE  Refined
  <1>1. call[t].pc = "unlink" /\ t \in Poppers /\ UNCHANGED <<node, allocated, pushes>>
    BY DEF Unlink, ListIs, Compared
  <1>2. CASE head = call[t].old_head /\ head' = call[t].next
             /\ Goto(t, [pc |-> "take", old_head |-> call[t].old_head])
    <2>1. /\ Typed' /\ ListIs(Tail(q))'
          /\ q # <<>> /\ q[1] = call[t].old_head
          /\ \A u \in Callers : u # t => call'[u] = call[u]
          /\ call'[t].pc = "take" /\ call'[t].old_head = call[t].old_head
      BY <1>1, <1>2, TakenOut
    <2>2. PICK r, v : r = Tail(q) /\ v = node[q[1]].data
      OBVIOUS
    <2>3. q \in Seq(StackNodes)
      BY DEF ListIs, Chain
    <2>4. /\ r \in Seq(StackNodes) /\ Len(r) = Len(q) - 1 /\ Len(q) \in Nat /\ Len(q) >= 1
          /\ \A i \in 1 .. Len(q) - 1 : r[i] = q[i + 1]
      BY <2>1, <2>2, <2>3, BehindOne
    <2>5. /\ Contents = [k \in 1 .. Len(q) |-> node[q[k]].data]
          /\ Contents' = [k \in 1 .. Len(r) |-> node'[r[k]].data]
      BY <2>1, <2>2, SeenBefore, SeenAfter DEF Data
    <2>6. Contents # <<>> /\ Head(Contents) = v /\ Contents' = Tail(Contents)
      <3>1. PICK s, w : s = Contents /\ w = Contents'
        OBVIOUS
      <3>2. /\ s \in Seq(0 .. MaxPushes) /\ Len(s) = Len(q)
            /\ \A k \in 1 .. Len(q) : s[k] = node[q[k]].data
        <4>1. \A k \in 1 .. Len(q) : node[q[k]].data \in 0 .. MaxPushes
          BY <2>3 DEF Typed
        <4>2. s \in [1 .. Len(q) -> 0 .. MaxPushes] /\ \A k \in 1 .. Len(q) : s[k] = node[q[k]].data
          BY <2>5, <3>1, <4>1
        <4>3. s \in Seq(0 .. MaxPushes) /\ Len(s) = Len(q)
          BY <2>4, <4>2, Listed
        <4> QED
          BY <4>2, <4>3
      <3>3. s # <<>> /\ Head(s) = v
        BY <2>2, <2>4, <3>2
      <3>4. /\ Tail(s) \in Seq(0 .. MaxPushes) /\ Len(Tail(s)) = Len(q) - 1
            /\ \A i \in 1 .. Len(q) - 1 : Tail(s)[i] = s[i + 1]
        BY <3>2, <3>3, BehindOne
      <3>5. /\ w = [k \in 1 .. Len(q) - 1 |-> w[k]]
            /\ \A k \in 1 .. Len(q) - 1 : w[k] = node[r[k]].data
        BY <1>1, <2>4, <2>5, <3>1
      <3>6. ASSUME NEW k \in 1 .. Len(q) - 1 PROVE w[k] = Tail(s)[k]
        <4>1. k + 1 \in 1 .. Len(q)
          BY <2>4
        <4> QED
          BY <2>4, <3>2, <3>4, <3>5, <4>1
      <3>7. PICK x : x = Tail(s)
        OBVIOUS
      <3>8. x = [k \in 1 .. Len(q) - 1 |-> x[k]]
        <4>1. x \in Seq(0 .. MaxPushes) /\ Len(x) = Len(q) - 1
          BY <3>4, <3>7
        <4>2. x = [k \in 1 .. Len(x) |-> x[k]]
          BY <4>1
        <4> QED
          BY <4>1, <4>2
      <3> QED
        BY <3>1, <3>3, <3>5, <3>6, <3>7, <3>8
    <2>7. Out[t] = 0 /\ Out' = [Out EXCEPT ![t] = v]
      <3>1. TakenOff(t) = 0 /\ TakenOff(t)' = v
        BY <1>1, <2>1, <2>2 DEF TakenOff
      <3>2. ASSUME NEW u \in Callers, u # t PROVE TakenOff(u)' = TakenOff(u)
        BY <1>1, <2>1, <3>2 DEF TakenOff
      <3> QED
        BY <3>1, <3>2 DEF Out
    <2>8. Promise!Pop(t)
      BY <2>6, <2>7 DEF Promise!Pop, Out
    <2> QED
      BY <2>1, <2>8 DEF Refined, StackIInv, Promise!Next
  <1>3. CASE Goto(t, Retry(t)) /\ UNCHANGED head
    BY <1>1, <1>3, HeadRefines DEF Retry
  <1> QED
    BY <1>2, <1>3 DEF Unlink

LEMMA TakeRefines ==
    ASSUME OnePopper, Typed, NEW q, ListIs(q), NEW t \in Callers, Take(t)
    PROVE  Refined
  <1>1. PICK n : n = call[t].old_head
    OBVIOUS
  <1>2. /\ call[t].pc = "take" /\ allocated' = allocated \ {n} /\ Goto(t, Returned)
        /\ UNCHANGED <<head, node, pushes>>
    BY <1>1 DEF Take
  <1>3. n \in Own(call[t]) /\ Own(Returned) = {} /\ CallTyped(Returned) /\ Returned.pc = "idle"
    BY <1>1, <1>2 DEF Own, Returned, CallTyped
  <1>4. Typed' /\ ListIs(q)'
    BY <1>2, <1>3, Registered
  <1>5. call'[t] = Returned /\ \A u \in Callers : u # t => call'[u] = call[u]
    BY <1>2, <1>3, Moves
  <1>6. Contents' = Contents
    <2>1. Contents = [k \in 1 .. Len(q) |-> node[q[k]].data]
      BY SeenBefore DEF Data
    <2>2. Contents' = [k \in 1 .. Len(q) |-> node'[q[k]].data]
      BY <1>4, SeenAfter
    <2> QED
      BY <1>2, <2>1, <2>2
  <1>7. Out[t] # 0 /\ Out' = [Out EXCEPT ![t] = 0]
    <2>1. TakenOff(t) # 0 /\ TakenOff(t)' = 0
      BY <1>2, <1>3, <1>5, PoppedIs DEF TakenOff
    <2>2. ASSUME NEW u \in Callers, u # t PROVE TakenOff(u)' = TakenOff(u)
      BY <1>2, <1>5, <2>2 DEF TakenOff
    <2> QED
      BY <2>1, <2>2 DEF Out
  <1>8. Promise!Return(t)
    BY <1>6, <1>7 DEF Promise!Return, Out
  <1> QED
    BY <1>4, <1>8 DEF Refined, StackIInv, Promise!Next

LEMMA StepStack == OnePopper /\ StackIInv /\ [StackNext]_stackVars => Refined
  <1> SUFFICES ASSUME OnePopper, StackIInv, [StackNext]_stackVars
               PROVE  Refined
    OBVIOUS
  <1>1. Typed
    BY DEF StackIInv
  <1>2. PICK q : ListIs(q)
    BY DEF StackIInv
  <1>3. ASSUME NEW t \in Callers, push(t) PROVE Refined
    BY <1>1, <1>2, <1>3, PushRefines
  <1>4. ASSUME NEW t \in Callers, Link(t) PROVE Refined
    BY <1>1, <1>2, <1>4, LinkRefines
  <1>5. ASSUME NEW t \in Callers, pop(t) PROVE Refined
    <2>1. t \in Poppers /\ call[t].pc # "take"
      BY <1>5 DEF pop, Returned
    <2> QED
      BY <1>1, <1>2, <1>5, <2>1, HeadRefines DEF pop
  <1>6. ASSUME NEW t \in Callers, ReadNext(t) PROVE Refined
    BY <1>1, <1>2, <1>6, ReadRefines
  <1>7. ASSUME NEW t \in Callers, Unlink(t) PROVE Refined
    BY <1>1, <1>2, <1>7, UnlinkRefines
  <1>8. ASSUME NEW t \in Callers, Take(t) PROVE Refined
    BY <1>1, <1>2, <1>8, TakeRefines
  <1>9. CASE UNCHANGED stackVars
    <2>1. UNCHANGED <<head, node, allocated, call, pushes>>
      BY <1>9 DEF stackVars
    <2>2. Typed' /\ ListIs(q)'
      BY <1>1, <1>2, <2>1 DEF Typed, ListIs, Chain, Private, Compared
    <2>3. \A u \in Callers : TakenOff(u)' = TakenOff(u)
      BY <2>1 DEF TakenOff
    <2>4. Contents' = Contents /\ Out' = Out
      BY <1>2, <2>1, <2>2, <2>3, Unseen
    <2> QED
      BY <2>2, <2>4 DEF Refined, StackIInv
  <1> QED
    BY <1>3, <1>4, <1>5, <1>6, <1>7, <1>8, <1>9 DEF StackNext

(* With one thread that pops, whatever the threads push and pop is what    *)
(* they would with a stack of values: failed exchanges and addresses the   *)
(* allocator hands out again lose no value and return none twice.          *)
THEOREM IsStack == OnePopper => (StackSpec => ImplementsStack)
  <1> SUFFICES ASSUME OnePopper PROVE StackSpec => ImplementsStack
    OBVIOUS
  <1>1. StackInit => StackIInv
    BY InitStack
  <1>2. StackIInv /\ [StackNext]_stackVars => StackIInv'
    BY StepStack DEF Refined
  <1>3. StackIInv /\ [StackNext]_stackVars => [Promise!Next]_<<Contents, [t \in Callers |-> TakenOff(t)]>>
    BY StepStack DEF Refined, Out
  <1>4. StackInit => Promise!Init
    <2> SUFFICES ASSUME StackInit PROVE Promise!Init
      OBVIOUS
    <2>1. StackIInv /\ \A t \in Callers : TakenOff(t) = 0
      BY <1>1 DEF StackInit, TakenOff, Returned
    <2>2. Chain(<<>>)
      BY DEF StackInit, Chain, At
    <2>3. Contents = Data(<<>>)
      BY <2>2, ContentsIs
    <2>4. Contents = <<>>
      BY <2>3 DEF Data
    <2> QED
      BY <2>1, <2>4 DEF Promise!Init
  <1> QED
    BY <1>1, <1>2, <1>3, <1>4, PTL DEF StackSpec, ImplementsStack, Promise!Spec

-----------------------------------------------------------------------------
(* The object pool.                                                        *)

ObjectAddresses == Nat \X Nat
PoolObjects == inUse \cup Range(deleted)
ChunkBytes == Larger(sizeofT, ChunkSize)

(* The objects end before what is still to be cut.                         *)
CutBefore(obj) ==
    /\ obj[1] \in 1 .. Len(chunks)
    /\ obj[2] + Step <= IF obj[1] = _mem[1] THEN _mem[2] ELSE ChunkBytes

Apart(obj, other) ==
    obj[1] = other[1] => obj[2] + Step <= other[2] \/ other[2] + Step <= obj[2]

(* The rest of the current chunk; where an object takes a pointer's room   *)
(* it is a number of those, so that it is enough for one or for none.      *)
Cutting ==
    /\ sizeofT \in ObjectSizes
    /\ chunks \in Seq({ChunkBytes})
    /\ _mem \in ObjectAddresses /\ _mem[1] = Len(chunks)
    /\ _remainSize = IF chunks = <<>> THEN 0 ELSE ChunkBytes - _mem[2]
    /\ _remainSize \in Nat
    /\ sizeofT < Word => \E n \in Nat : _remainSize = n * Word

Filed ==
    /\ inUse \subseteq ObjectAddresses /\ IsFiniteSet(inUse)
    /\ deleted \in Seq(ObjectAddresses)
    /\ \A i, j \in 1 .. Len(deleted) : deleted[i] = deleted[j] => i = j
    /\ \A i \in 1 .. Len(deleted) : deleted[i] \notin inUse

ObjectsIInv ==
    /\ Cutting /\ Filed
    /\ \A obj \in PoolObjects : CutBefore(obj)
    /\ \A obj, other \in PoolObjects : obj # other => Apart(obj, other)

LEMMA ElementsAre ==
    ASSUME NEW S, NEW q \in Seq(S)
    PROVE  Range(q) = {q[i] : i \in 1 .. Len(q)}
<1>1. DOMAIN q = 1 .. Len(q)
  OBVIOUS
<1> QED
  BY <1>1 DEF Range

LEMMA SizesOfObjects ==
    ASSUME ClassesFit, sizeofT \in ObjectSizes
    PROVE  /\ sizeofT \in Nat \ {0} /\ Word \in Nat \ {0}
           /\ Step \in Nat \ {0} /\ Step >= sizeofT /\ Step >= Word
           /\ ChunkBytes \in Nat \ {0} /\ ChunkBytes >= Step
           /\ (ChunkBytes \div PageSize) * PageSize = ChunkBytes
           /\ sizeofT < Word => Step = Word /\ \E n \in Nat : ChunkBytes = n * Word
           /\ sizeofT >= Word => Step = sizeofT
<1>1. /\ sizeofT \in Nat \ {0} /\ Word \in Nat \ {0} /\ PageSize \in Nat \ {0}
      /\ ChunkSize \in Nat \ {0}
  BY DEF ClassesFit
<1>2. ChunkBytes % PageSize = 0
  BY <1>1 DEF ClassesFit, ChunkBytes, Larger
<1>3. ChunkBytes \in Nat \ {0} /\ ChunkBytes >= sizeofT /\ ChunkBytes >= ChunkSize
  BY <1>1 DEF ChunkBytes, Larger
<1>4. \A n \in Nat, d \in Nat \ {0} : n % d = 0 => n \div d \in Nat /\ (n \div d) * d = n
  OBVIOUS
<1>5. PICK n \in Nat : ChunkSize = n * Word
  BY <1>1, <1>4 DEF ClassesFit
<1>6. Word <= ChunkSize
  <2>1. n >= 1
    BY <1>1, <1>5
  <2>2. n * Word >= 1 * Word
    BY <1>1, <2>1
  <2> QED
    BY <1>1, <1>5, <2>2
<1>7. sizeofT < Word => ChunkBytes = ChunkSize
  BY <1>1, <1>6 DEF ChunkBytes, Larger
<1>8. (ChunkBytes \div PageSize) * PageSize = ChunkBytes
  BY <1>1, <1>2, <1>3, <1>4
<1>9. /\ Step \in Nat \ {0} /\ Step >= sizeofT /\ Step >= Word /\ ChunkBytes >= Step
      /\ sizeofT < Word => Step = Word
      /\ sizeofT >= Word => Step = sizeofT
  BY <1>1, <1>3, <1>6 DEF Step, Larger
<1> QED
  BY <1>1, <1>3, <1>5, <1>7, <1>8, <1>9

LEMMA InitObjects == ClassesFit /\ ObjectsInit => ObjectsIInv
<1> SUFFICES ASSUME ClassesFit, ObjectsInit
             PROVE  ObjectsIInv
  OBVIOUS
<1> USE DEF ObjectsInit
<1>1. Range(deleted) = {} /\ inUse = {} /\ deleted = <<>> /\ IsFiniteSet(inUse)
  BY FS_EmptySet DEF Range
<1>2. Filed
  BY <1>1 DEF Filed, ObjectAddresses
<1>3. Cutting
  <2>1. _remainSize = 0 * Word
    BY SizesOfObjects
  <2> QED
    BY <2>1 DEF Cutting, ObjectAddresses
<1> QED
  BY <1>1, <1>2, <1>3 DEF ObjectsIInv, PoolObjects

(* Neither taking a listed object nor deleting one makes or loses any.     *)
LEMMA Relisted ==
    ASSUME ObjectsIInv, Filed', PoolObjects' = PoolObjects,
           UNCHANGED <<sizeofT, chunks, _mem, _remainSize>>
    PROVE  ObjectsIInv'
<1>1. Step' = Step /\ ChunkBytes' = ChunkBytes /\ Cutting'
  BY DEF ObjectsIInv, Cutting, Step, ChunkBytes, Larger
<1>2. /\ \A obj : CutBefore(obj)' <=> CutBefore(obj)
      /\ \A obj, other : Apart(obj, other)' <=> Apart(obj, other)
  BY <1>1 DEF CutBefore, Apart
<1> QED
  BY <1>1, <1>2 DEF ObjectsIInv

LEMMA TakeListed == ObjectsIInv /\ NewFromList => ObjectsIInv'
<1> SUFFICES ASSUME ObjectsIInv, NewFromList
             PROVE  ObjectsIInv'
  OBVIOUS
<1> DEFINE q == deleted
           n == Len(deleted)
<1>1. /\ q \in Seq(ObjectAddresses) /\ q # <<>> /\ n \in Nat \ {0}
      /\ \A i \in 1 .. n : q[i] \in ObjectAddresses
      /\ Head(q) = q[1]
      /\ Tail(q) \in Seq(ObjectAddresses) /\ Len(Tail(q)) = n - 1
      /\ \A i \in 1 .. n - 1 : Tail(q)[i] = q[i + 1]
  BY DEF ObjectsIInv, Filed, NewFromList
<1>2. deleted' = Tail(q) /\ inUse' = inUse \cup {q[1]}
  BY <1>1 DEF NewFromList
<1>3. /\ Range(q) = {q[i] : i \in 1 .. n}
      /\ Range(Tail(q)) = {Tail(q)[i] : i \in 1 .. n - 1}
  BY <1>1, ElementsAre
<1>4. PoolObjects' = PoolObjects
  <2>1. \A x \in Range(q) : x = q[1] \/ x \in Range(Tail(q))
    <3> SUFFICES ASSUME NEW i \in 1 .. n, i # 1
                 PROVE  q[i] \in Range(Tail(q))
      BY <1>3
    <3>1. i - 1 \in 1 .. n - 1 /\ Tail(q)[i - 1] = q[i]
      BY <1>1
    <3> QED
      BY <1>3, <3>1
  <2>2. \A x \in Range(Tail(q)) : x \in Range(q)
    <3> SUFFICES ASSUME NEW i \in 1 .. n - 1
                 PROVE  Tail(q)[i] \in Range(q)
      BY <1>3
    <3>1. i + 1 \in 1 .. n /\ Tail(q)[i] = q[i + 1]
      BY <1>1
    <3> QED
      BY <1>3, <3>1
  <2>3. q[1] \in Range(q)
    BY <1>1, <1>3
  <2> QED
    BY <1>2, <2>1, <2>2, <2>3 DEF PoolObjects
<1>5. Filed'
  <2>1. IsFiniteSet(inUse') /\ inUse' \subseteq ObjectAddresses
    BY <1>1, <1>2, FS_AddElement DEF ObjectsIInv, Filed
  <2>2. \A i, j \in 1 .. n - 1 : Tail(q)[i] = Tail(q)[j] => i = j
    <3> SUFFICES ASSUME NEW i \in 1 .. n - 1, NEW j \in 1 .. n - 1, Tail(q)[i] = Tail(q)[j]
                 PROVE  i = j
      OBVIOUS
    <3>1. i + 1 \in 1 .. n /\ j + 1 \in 1 .. n /\ q[i + 1] = q[j + 1]
      BY <1>1
    <3> QED
      BY <3>1 DEF ObjectsIInv, Filed
  <2>3. \A i \in 1 .. n - 1 : Tail(q)[i] \notin inUse \cup {q[1]}
    <3> TAKE i \in 1 .. n - 1
    <3>1. i + 1 \in 1 .. n /\ 1 \in 1 .. n /\ i + 1 # 1 /\ Tail(q)[i] = q[i + 1]
      BY <1>1
    <3> QED
      BY <3>1 DEF ObjectsIInv, Filed
  <2> QED
    BY <1>1, <1>2, <2>1, <2>2, <2>3 DEF Filed
<1> QED
  BY <1>4, <1>5, Relisted DEF NewFromList

LEMMA ObjectDeleted ==
    ASSUME ObjectsIInv, NEW obj \in inUse, DeleteObject(obj)
    PROVE  ObjectsIInv'
<1> DEFINE q == deleted
           n == Len(deleted)
<1>1. /\ q \in Seq(ObjectAddresses) /\ n \in Nat /\ obj \in ObjectAddresses
      /\ \A i \in 1 .. n : q[i] \in ObjectAddresses
  BY DEF ObjectsIInv, Filed
<1>2. PICK r : r = <<obj>> \o q
  OBVIOUS
<1>3. /\ r \in Seq(ObjectAddresses) /\ Len(r) = n + 1 /\ r[1] = obj
      /\ \A i \in 1 .. n + 1 : r[i] = IF i = 1 THEN obj ELSE q[i - 1]
  BY <1>1, <1>2
<1>4. deleted' = r /\ inUse' = inUse \ {obj}
  BY <1>2 DEF DeleteObject
<1>5. /\ Range(q) = {q[i] : i \in 1 .. n}
      /\ Range(r) = {r[i] : i \in 1 .. n + 1}
  BY <1>1, <1>3, ElementsAre
<1>6. PoolObjects' = PoolObjects
  <2>1. \A x \in Range(r) : x = obj \/ x \in Range(q)
    <3> SUFFICES ASSUME NEW i \in 1 .. n + 1, i # 1
                 PROVE  r[i] \in Range(q)
      BY <1>3, <1>5
    <3>1. i - 1 \in 1 .. n /\ r[i] = q[i - 1]
      BY <1>1, <1>3
    <3> QED
      BY <1>5, <3>1
  <2>2. \A x \in Range(q) : x \in Range(r)
    <3> SUFFICES ASSUME NEW i \in 1 .. n
                 PROVE  q[i] \in Range(r)
      BY <1>5
    <3>1. i + 1 \in 1 .. n + 1 /\ r[i + 1] = q[i]
      BY <1>1, <1>3
    <3> QED
      BY <1>5, <3>1
  <2>3. obj \in Range(r)
    <3>1. 1 \in 1 .. n + 1
      BY <1>1
    <3> QED
      BY <1>3, <1>5, <3>1
  <2> QED
    BY <1>4, <2>1, <2>2, <2>3 DEF PoolObjects
<1>7. Filed'
  <2>1. IsFiniteSet(inUse') /\ inUse' \subseteq ObjectAddresses
    BY <1>4, FS_RemoveElement DEF ObjectsIInv, Filed
  <2>2. \A i \in 1 .. n : q[i] # obj
    BY DEF ObjectsIInv, Filed
  <2>3. \A i, j \in 1 .. n + 1 : r[i] = r[j] => i = j
    <3> SUFFICES ASSUME NEW i \in 1 .. n + 1, NEW j \in 1 .. n + 1, r[i] = r[j]
                 PROVE  i = j
      OBVIOUS
    <3>1. CASE i = 1
      <4>1. j # 1 => j - 1 \in 1 .. n
        BY <1>1
      <4> QED
        BY <1>3, <2>2, <3>1, <4>1
    <3>2. CASE j = 1
      <4>1. i # 1 => i - 1 \in 1 .. n
        BY <1>1
      <4> QED
        BY <1>3, <2>2, <3>2, <4>1
    <3>3. CASE i # 1 /\ j # 1
      <4>1. i - 1 \in 1 .. n /\ j - 1 \in 1 .. n /\ q[i - 1] = q[j - 1]
        BY <1>1, <1>3, <3>3
      <4>2. i - 1 = j - 1
        BY <4>1 DEF ObjectsIInv, Filed
      <4> QED
        BY <1>1, <4>2
    <3> QED
      BY <3>1, <3>2, <3>3
  <2>4. \A i \in 1 .. n + 1 : r[i] \notin inUse \ {obj}
    <3> TAKE i \in 1 .. n + 1
    <3>1. i # 1 => i - 1 \in 1 .. n
      BY <1>1
    <3> QED
      BY <1>3, <3>1 DEF ObjectsIInv, Filed
  <2> QED
    BY <1>3, <1>4, <2>1, <2>3, <2>4 DEF Filed
<1> QED
  BY <1>6, <1>7, Relisted DEF DeleteObject

(* An object is cut where what is left is enough for it, or in a new chunk.*)
LEMMA CutObject == ClassesFit /\ ObjectsIInv /\ NewFromChunk => ObjectsIInv'
<1> SUFFICES ASSUME ClassesFit, ObjectsIInv, NewFromChunk
             PROVE  ObjectsIInv'
  OBVIOUS
<1>1. PICK full \in BOOLEAN : full <=> _remainSize < sizeofT
  OBVIOUS
<1>2. PICK at : at = IF full THEN <<Len(chunks) + 1, 0>> ELSE _mem
  OBVIOUS
<1>3. /\ sizeofT \in Nat \ {0} /\ Word \in Nat \ {0}
      /\ Step \in Nat \ {0} /\ Step >= sizeofT /\ Step >= Word
      /\ ChunkBytes \in Nat \ {0} /\ ChunkBytes >= Step
      /\ (ChunkBytes \div PageSize) * PageSize = ChunkBytes
      /\ sizeofT < Word => Step = Word /\ \E n \in Nat : ChunkBytes = n * Word
      /\ sizeofT >= Word => Step = sizeofT
  BY SizesOfObjects DEF ObjectsIInv, Cutting
<1>4. /\ deleted = <<>> /\ deleted' = <<>> /\ sizeofT' = sizeofT
      /\ chunks' = IF full THEN Append(chunks, ChunkBytes) ELSE chunks
      /\ _remainSize' = (IF full THEN ChunkBytes ELSE _remainSize) - Step
      /\ _mem' = <<at[1], at[2] + Step>>
      /\ inUse' = inUse \cup {at}
      /\ Step' = Step /\ ChunkBytes' = ChunkBytes
  BY <1>1, <1>2, <1>3 DEF NewFromChunk, ChunkBytes, Step, Larger
<1>5. PICK k \in Nat : Len(chunks) = k
  BY DEF ObjectsIInv, Cutting
<1>6. /\ chunks \in Seq({ChunkBytes}) /\ Len(chunks) = k
      /\ chunks = <<>> <=> k = 0
      /\ chunks' \in Seq({ChunkBytes}) /\ Len(chunks') = at[1]
      /\ at \in ObjectAddresses /\ k <= at[1] /\ at[1] >= 1
      /\ full => at[1] = k + 1 /\ at[2] = 0
      /\ ~ full => at = _mem /\ at[1] = k
  <2>1. chunks \in Seq({ChunkBytes}) /\ (chunks = <<>> <=> k = 0)
    BY <1>5 DEF ObjectsIInv, Cutting
  <2>2. CASE full
    BY <1>2, <1>4, <1>5, <2>1, <2>2 DEF ObjectAddresses
  <2>3. CASE ~ full
    <3>1. chunks # <<>>
      BY <1>1, <1>3, <2>3 DEF ObjectsIInv, Cutting
    <3> QED
      BY <1>2, <1>4, <1>5, <2>1, <2>3, <3>1 DEF ObjectsIInv, Cutting, ObjectAddresses
  <2> QED
    BY <1>5, <2>1, <2>2, <2>3
<1>7. PICK b \in Nat : at[2] = b
  BY <1>6 DEF ObjectAddresses
<1>8. PICK rest \in Nat : rest = IF full THEN ChunkBytes ELSE _remainSize
  BY <1>3 DEF ObjectsIInv, Cutting
<1>9. /\ rest = ChunkBytes - b
      /\ rest >= Step
      /\ sizeofT < Word => \E n \in Nat : rest = n * Word
  <2>1. rest = ChunkBytes - b
    BY <1>3, <1>6, <1>7, <1>8 DEF ObjectsIInv, Cutting
  <2>2. sizeofT < Word => \E n \in Nat : rest = n * Word
    BY <1>3, <1>8 DEF ObjectsIInv, Cutting
  <2>3. rest >= sizeofT
    BY <1>1, <1>3, <1>8 DEF ObjectsIInv, Cutting
  <2>4. rest >= Step
    <3>1. CASE sizeofT >= Word
      BY <1>3, <2>3, <3>1
    <3>2. CASE sizeofT < Word
      <4>1. PICK n \in Nat : rest = n * Word
        BY <2>2, <3>2
      <4>2. n >= 1
        BY <1>3, <2>3, <4>1
      <4>3. n * Word >= 1 * Word
        BY <1>3, <4>2
      <4> QED
        BY <1>3, <3>2, <4>1, <4>3
    <3> QED
      BY <1>3, <3>1, <3>2
  <2> QED
    BY <2>1, <2>2, <2>4
<1>10. /\ _mem' = <<at[1], b + Step>> /\ _mem'[1] = at[1] /\ _mem'[2] = b + Step
       /\ _remainSize' = rest - Step
  BY <1>4, <1>7, <1>8
<1>11. Cutting'
  <2>1. _mem' \in ObjectAddresses
    BY <1>3, <1>6, <1>10 DEF ObjectAddresses
  <2>2. chunks' # <<>>
    BY <1>6
  <2>3. _remainSize' \in Nat /\ _remainSize' = ChunkBytes - _mem'[2]
    BY <1>3, <1>9, <1>10
  <2>4. ASSUME sizeofT < Word
        PROVE  \E n \in Nat : _remainSize' = n * Word
    <3>1. PICK n \in Nat : rest = n * Word
      BY <1>9, <2>4
    <3>2. n >= 1
      BY <1>3, <1>9, <3>1
    <3>3. n - 1 \in Nat /\ rest - Word = (n - 1) * Word
      BY <1>3, <3>1, <3>2
    <3> QED
      BY <1>3, <1>10, <2>4, <3>3
  <2> QED
    BY <1>4, <1>6, <1>10, <2>1, <2>2, <2>3, <2>4 DEF Cutting, ObjectsIInv
<1>12. PoolObjects = inUse /\ PoolObjects' = inUse \cup {at}
  BY <1>4 DEF PoolObjects, Range
<1>13. Filed'
  BY <1>4, <1>6, FS_AddElement DEF ObjectsIInv, Filed
<1>14. ASSUME NEW obj \in inUse
       PROVE  /\ obj \in ObjectAddresses /\ obj[1] \in 1 .. k /\ obj[2] \in Nat
              /\ obj[2] + Step <= ChunkBytes
              /\ obj[1] = at[1] => obj[2] + Step <= b
  <2>1. obj \in ObjectAddresses /\ CutBefore(obj)
    BY <1>12 DEF ObjectsIInv, Filed
  <2>2. obj[2] \in Nat /\ obj[1] \in 1 .. k
    BY <1>5, <2>1 DEF ObjectAddresses, CutBefore
  <2>3. _mem[2] <= ChunkBytes /\ _mem[2] \in Nat /\ _mem[1] = k
    BY <1>3, <1>5, <1>6, <2>2 DEF ObjectsIInv, Cutting, ObjectAddresses
  <2>4. obj[2] + Step <= ChunkBytes
    BY <1>3, <2>1, <2>2, <2>3 DEF CutBefore
  <2>5. ASSUME obj[1] = at[1]
        PROVE  obj[2] + Step <= b
    <3>1. ~ full
      BY <1>6, <2>2, <2>5
    <3> QED
      BY <1>6, <1>7, <2>1, <2>5, <3>1 DEF CutBefore
  <2> QED
    BY <2>1, <2>2, <2>4, <2>5
<1>15. ASSUME NEW obj \in PoolObjects'
       PROVE  CutBefore(obj)'
  <2>1. Len(chunks') = at[1] /\ at[1] \in Nat
    BY <1>6 DEF ObjectAddresses
  <2>2. CASE obj = at
    BY <1>3, <1>4, <1>6, <1>7, <1>10, <2>1, <2>2 DEF CutBefore
  <2>3. CASE obj \in inUse
    <3>1. obj[1] \in 1 .. at[1]
      BY <1>6, <1>14, <2>1, <2>3
    <3>2. obj[2] + Step <= IF obj[1] = at[1] THEN b + Step ELSE ChunkBytes
      BY <1>3, <1>14, <2>3
    <3> QED
      BY <1>4, <1>10, <2>1, <3>1, <3>2 DEF CutBefore
  <2> QED
    BY <1>12, <2>2, <2>3
<1>16. ASSUME NEW obj \in PoolObjects', NEW other \in PoolObjects', obj # other
       PROVE  Apart(obj, other)'
  <2>1. Apart(obj, other)
    <3>1. CASE obj \in inUse /\ other \in inUse
      BY <1>12, <1>16, <3>1 DEF ObjectsIInv
    <3>2. CASE obj = at /\ other \in inUse
      BY <1>7, <1>14, <3>2 DEF Apart
    <3>3. CASE other = at /\ obj \in inUse
      BY <1>7, <1>14, <3>3 DEF Apart
    <3> QED
      BY <1>12, <1>16, <3>1, <3>2, <3>3
  <2> QED
    BY <1>4, <2>1 DEF Apart
<1> QED
  BY <1>11, <1>13, <1>15, <1>16 DEF ObjectsIInv

LEMMA StepObjects == ClassesFit /\ ObjectsIInv /\ [ObjectsNext]_objectVars => ObjectsIInv'
<1> SUFFICES ASSUME ClassesFit, ObjectsIInv, [ObjectsNext]_objectVars
             PROVE  ObjectsIInv'
  OBVIOUS
<1>1. CASE NewFromList
  BY <1>1, TakeListed
<1>2. CASE NewFromChunk
  BY <1>2, CutObject
<1>3. ASSUME NEW obj \in inUse, DeleteObject(obj)
      PROVE  ObjectsIInv'
  BY <1>3, ObjectDeleted
<1>4. CASE UNCHANGED objectVars
  BY <1>4, Relisted DEF objectVars, PoolObjects, Filed, ObjectsIInv, Range
<1> QED
  BY <1>1, <1>2, <1>3, <1>4 DEF ObjectsNext

(* What is written at an object stays within its step, and its chunk.      *)
LEMMA Within ==
    ASSUME ClassesFit, ObjectsIInv, NEW obj \in PoolObjects, NEW byte \in WrittenAt(obj)
    PROVE  /\ obj \in ObjectAddresses /\ byte[1] = obj[1] /\ byte[2] \in Int
           /\ obj[2] <= byte[2] /\ byte[2] < obj[2] + Step
<1>1. obj \in ObjectAddresses /\ obj[2] \in Nat
  <2>1. CASE obj \in inUse
    BY <2>1 DEF ObjectsIInv, Filed, ObjectAddresses
  <2>2. CASE obj \in Range(deleted)
    BY <2>2 DEF ObjectsIInv, Filed, ObjectAddresses, Range
  <2> QED
    BY <2>1, <2>2 DEF PoolObjects
<1>2. /\ sizeofT \in Nat /\ Word \in Nat /\ Step \in Nat
      /\ Step >= sizeofT /\ Step >= Word
  BY SizesOfObjects DEF ObjectsIInv, Cutting
<1>3. PICK n \in Nat : n = (IF obj \in inUse THEN sizeofT ELSE Word) /\ n <= Step
  BY <1>2
<1>4. byte \in {obj[1]} \X (obj[2] .. obj[2] + n - 1)
  BY <1>3 DEF WrittenAt, BytesOf
<1>5. byte[1] = obj[1] /\ byte[2] \in obj[2] .. obj[2] + n - 1
  BY <1>4
<1> QED
  BY <1>1, <1>2, <1>3, <1>5

LEMMA ApartWhen == ClassesFit /\ ObjectsIInv => ObjectsApart
<1> SUFFICES ASSUME ClassesFit, ObjectsIInv
             PROVE  ObjectsApart
  OBVIOUS
<1>1. Cardinality(PoolObjects) = Cardinality(inUse) + Len(deleted)
  <2> DEFINE q == deleted
             n == Len(deleted)
             f == [i \in 1 .. n |-> q[i]]
  <2>1. q \in Seq(ObjectAddresses) /\ n \in Nat
    BY DEF ObjectsIInv, Filed
  <2>2. Range(q) = {q[i] : i \in 1 .. n}
    BY <2>1 DEF Range
  <2>3. f \in Bijection(1 .. n, Range(q))
    <3>1. f \in [1 .. n -> Range(q)]
      BY <2>2
    <3>2. \A i, j \in 1 .. n : f[i] = f[j] => i = j
      BY DEF ObjectsIInv, Filed
    <3>3. \A x \in Range(q) : \E i \in 1 .. n : f[i] = x
      BY <2>2
    <3> QED
      BY <3>1, <3>2, <3>3, Fun_IsBij
  <2>4. ExistsBijection(1 .. n, Range(q))
    BY <2>3 DEF ExistsBijection
  <2>5. IsFiniteSet(1 .. n) /\ Cardinality(1 .. n) = n
    BY <2>1, FS_Interval
  <2>6. IsFiniteSet(Range(q)) /\ Cardinality(Range(q)) = n
    BY <2>4, <2>5, FS_Bijection
  <2>7. inUse \cap Range(q) = {}
    BY <2>2 DEF ObjectsIInv, Filed
  <2>8. IsFiniteSet(inUse) /\ Cardinality(inUse) \in Nat
    BY FS_CardinalityType DEF ObjectsIInv, Filed
  <2>9. Cardinality(inUse \cap Range(q)) = 0
    BY <2>7, FS_EmptySet
  <2>10. Cardinality(inUse \cup Range(q)) = Cardinality(inUse) + n - 0
    BY <2>6, <2>8, <2>9, FS_Union
  <2> HIDE DEF n, q
  <2>11. Cardinality(PoolObjects) = Cardinality(inUse) + n
    BY <2>1, <2>8, <2>10 DEF PoolObjects, q
  <2> QED
    BY <2>11 DEF n, q
<1>2. ASSUME NEW obj \in PoolObjects, NEW byte \in WrittenAt(obj)
      PROVE  byte[2] < chunks[byte[1]]
  <2>1. /\ byte[1] = obj[1] /\ byte[2] \in Int /\ obj[2] \in Nat
        /\ byte[2] < obj[2] + Step
    BY <1>2, Within DEF ObjectAddresses
  <2>2. CutBefore(obj)
    BY DEF ObjectsIInv
  <2>3. /\ Step \in Nat /\ ChunkBytes \in Nat
        /\ chunks \in Seq({ChunkBytes}) /\ _mem[2] \in Nat
        /\ chunks # <<>> => _mem[2] <= ChunkBytes
    BY SizesOfObjects DEF ObjectsIInv, Cutting, ObjectAddresses
  <2>4. chunks # <<>> /\ chunks[obj[1]] = ChunkBytes
    BY <2>2, <2>3 DEF CutBefore
  <2>5. obj[2] + Step <= ChunkBytes
    BY <2>1, <2>2, <2>3, <2>4 DEF CutBefore
  <2> QED
    BY <2>1, <2>3, <2>4, <2>5
<1>3. ASSUME NEW obj \in PoolObjects, NEW other \in PoolObjects, obj # other
      PROVE  WrittenAt(obj) \cap WrittenAt(other) = {}
  <2> SUFFICES ASSUME NEW byte \in WrittenAt(obj), byte \in WrittenAt(other)
               PROVE  FALSE
    OBVIOUS
  <2>1. Apart(obj, other)
    BY <1>3 DEF ObjectsIInv
  <2>2. /\ obj \in ObjectAddresses /\ byte[1] = obj[1] /\ byte[2] \in Int
        /\ obj[2] <= byte[2] /\ byte[2] < obj[2] + Step
    BY Within
  <2>3. /\ other \in ObjectAddresses /\ byte[1] = other[1]
        /\ other[2] <= byte[2] /\ byte[2] < other[2] + Step
    BY Within
  <2>4. obj[2] \in Nat /\ other[2] \in Nat /\ Step \in Nat
    BY <2>2, <2>3, SizesOfObjects DEF ObjectsIInv, Cutting, ObjectAddresses
  <2> QED
    BY <2>1, <2>2, <2>3, <2>4 DEF Apart
<1> QED
  BY <1>1, <1>2, <1>3 DEF ObjectsApart, PoolObjects

(* No object, and no link that is written into a deleted one, lies over    *)
(* another or outside the memory the system gave, whatever the size of the *)
(* class: also of one that is smaller than a pointer or larger than a      *)
(* chunk.                                                                  *)
THEOREM ObjectsStayApart == ClassesFit => (ObjectsSpec => []ObjectsApart)
<1> SUFFICES ASSUME ClassesFit
             PROVE  ObjectsSpec => []ObjectsApart
  OBVIOUS
<1>1. ObjectsInit => ObjectsIInv
  BY InitObjects
<1>2. ObjectsIInv /\ [ObjectsNext]_objectVars => ObjectsIInv'
  BY StepObjects
<1>3. ObjectsIInv => ObjectsApart
  BY ApartWhen
<1> QED
  BY <1>1, <1>2, <1>3, PTL DEF ObjectsSpec

-----------------------------------------------------------------------------
(* All of the structures that callers use one call at a time.              *)

StructuresIInv ==
    /\ part \in Structures
    /\ TreeInv
    /\ ListIInv
    /\ part = "table" => TableIInv
    /\ ObjectsIInv

LEMMA InitStructures ==
    StructuresFit /\ part \in Structures /\ StructuresInit => StructuresIInv
  <1> SUFFICES ASSUME StructuresFit, part \in Structures, StructuresInit
               PROVE  StructuresIInv
    OBVIOUS
  <1>1. TreeFit /\ TableFit /\ ClassesFit /\ TreeInit /\ TableInit /\ ObjectsInit
    BY DEF StructuresFit, StructuresInit
  <1>2. TableIInv /\ ListIInv
    BY <1>1, InitTable DEF TableIInv
  <1> QED
    BY <1>1, <1>2, TreeStarts, InitObjects DEF StructuresIInv

(* A step of one leaves the others as they are.                            *)
LEMMA TreeRests == ASSUME TreeFit, TreeInv, [TreeNext]_treeVars PROVE TreeInv'
  BY TreeMoves, TreeStands

LEMMA ListRests ==
    ASSUME TableFit, ListIInv, [ListNext]_listVars PROVE ListIInv'
  BY StepList DEF TableFit

LEMMA TableRests ==
    ASSUME TableFit, ListIInv, part = "table" => TableIInv, UNCHANGED <<part, tableVars>>
    PROVE  ListIInv' /\ (part = "table" => TableIInv)'
  <1>1. UNCHANGED tableVars /\ UNCHANGED listVars /\ part' = part
    BY DEF tableVars
  <1>2. ListIInv'
    BY <1>1, ListRests
  <1>3. CASE part = "table"
    BY <1>1, <1>2, <1>3, StepTable
  <1>4. CASE part # "table"
    BY <1>1, <1>2, <1>4
  <1> QED
    BY <1>3, <1>4

LEMMA ObjectsRest == ASSUME ClassesFit, ObjectsIInv, [ObjectsNext]_objectVars PROVE ObjectsIInv'
  BY StepObjects

LEMMA StepStructures ==
    StructuresFit /\ StructuresIInv /\ [StructuresNext]_structuresVars => StructuresIInv'
  <1> SUFFICES ASSUME StructuresFit, StructuresIInv, [StructuresNext]_structuresVars
               PROVE  StructuresIInv'
    OBVIOUS
  <1>1. /\ TreeFit /\ TableFit /\ ClassesFit
        /\ part \in Structures /\ TreeInv /\ ListIInv /\ ObjectsIInv
        /\ part = "table" => TableIInv
    BY DEF StructuresFit, StructuresIInv
  <1>2. CASE TreeStep
    <2>1. TreeNext /\ part' = part /\ UNCHANGED <<part, tableVars>> /\ UNCHANGED objectVars
      BY <1>2 DEF TreeStep
    <2> QED
      BY <1>1, <2>1, TreeRests, TableRests, ObjectsRest DEF StructuresIInv
  <1>3. CASE ListStep
    <2>1. ListNext /\ part = "list" /\ part' = part /\ UNCHANGED treeVars /\ UNCHANGED objectVars
      BY <1>3 DEF ListStep
    <2> QED
      BY <1>1, <2>1, TreeRests, ListRests, ObjectsRest DEF StructuresIInv
  <1>4. CASE TableStep
    <2>1. TableNext /\ part = "table" /\ part' = part /\ UNCHANGED treeVars /\ UNCHANGED objectVars
      BY <1>4 DEF TableStep
    <2>2. TableIInv' /\ ListIInv'
      BY <1>1, <2>1, StepTable DEF TableIInv
    <2> QED
      BY <1>1, <2>1, <2>2, TreeRests, ObjectsRest DEF StructuresIInv
  <1>5. CASE ObjectStep
    <2>1. ObjectsNext /\ part' = part /\ UNCHANGED treeVars /\ UNCHANGED <<part, tableVars>>
      BY <1>5 DEF ObjectStep
    <2> QED
      BY <1>1, <2>1, TreeRests, TableRests, ObjectsRest DEF StructuresIInv
  <1>6. CASE UNCHANGED structuresVars
    <2>1. /\ part' = part /\ UNCHANGED treeVars /\ UNCHANGED <<part, tableVars>>
          /\ UNCHANGED objectVars
      BY <1>6 DEF structuresVars
    <2> QED
      BY <1>1, <2>1, TreeRests, TableRests, ObjectsRest DEF StructuresIInv
  <1> QED
    BY <1>2, <1>3, <1>4, <1>5, <1>6 DEF StructuresNext

(* Whatever the calls, their order and the instance: the tree is red-black *)
(* and linked both ways between calls, the levels of the skip list are     *)
(* nested, the total of the memory table covers its contents, and objects  *)
(* of the pool do not overlap.                                             *)
THEOREM StructuresStaySound == StructuresFit => (StructuresSpec => []StructuresSound)
  <1> SUFFICES ASSUME StructuresFit PROVE StructuresSpec => []StructuresSound
    OBVIOUS
  <1>1. part \in Structures /\ StructuresInit => StructuresIInv
    BY InitStructures
  <1>2. StructuresIInv /\ [StructuresNext]_structuresVars => StructuresIInv'
    BY StepStructures
  <1>3. StructuresIInv => StructuresSound
    <2>1. TreeFit /\ KeysFit /\ ClassesFit
      BY DEF StructuresFit, TableFit
    <2>2. TableIInv => MemCoversContents
      BY DEF TableIInv, MemCoversContents
    <2> QED
      BY <2>1, <2>2, InvSound, Nested, ApartWhen DEF StructuresIInv, StructuresSound
  <1> QED
    BY <1>1, <1>2, <1>3, PTL DEF StructuresSpec
=============================================================================
