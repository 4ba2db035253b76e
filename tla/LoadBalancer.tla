---------------------------- MODULE LoadBalancer ----------------------------
(***************************************************************************)
(* The balancers of LoadBalancer/LoadBalancer.cpp.  Each keeps a vector of *)
(* server nodes under a mutex that every call holds from start to end, so  *)
(* a call is one step; they differ in selectServer and in the tables it    *)
(* uses.  Adding, releasing and updating are written out per class in the  *)
(* code and are the same in all of them.                                   *)
(***************************************************************************)
EXTENDS Sequences, Sums

CONSTANTS
    Kinds,          \* the classes tried
    Shapes,         \* servers to add: [address, weight, processingPower]
    DestinationShapes, \* nodes to register for a destination
    Destinations,
    Hash,           \* std::hash of a destination
    Times,          \* response times reported
    Reporters,      \* callers of updateServerStats
    MaxServers,     \* bound: servers in the vector
    MaxPicks,       \* bound: selections counted since the last server was added
    MaxHeld,        \* bound: connections of one object at one time
    MaxOff          \* bound: addresses miscounted when somebody reads for a report

(* Loads are divided by them, but no code checks that they are positive.   *)
PositiveShares ==
    \A s \in Shapes : s.weight \in Nat \ {0} /\ s.processingPower \in Nat \ {0}

Addresses == {s.address : s \in Shapes}

VARIABLES
    kind,           \* which class this is
    servers,        \* the vector
    currentIndex,   \* round robin: who is next
    currentWeights, \* weighted round robin
    destinationMap, \* LBLCR: the nodes a caller registered per destination
    held,           \* per server: connections clients got and did not release
    report,         \* per reporter: what it read and has not reported yet
    off,            \* addresses that a report miscounted
    picks,          \* per server: selections since the last addServer, ...
    calm            \* ... while no release or report has moved the counters

vars == <<kind, servers, currentIndex, currentWeights, destinationMap, held,
          report, off, picks, calm>>

Indices == DOMAIN servers
Of(address) == {i \in Indices : servers[i].address = address}

Connected(shape) ==
    [address |-> shape.address, weight |-> shape.weight, connections |-> 0,
     processingPower |-> shape.processingPower, responseTime |-> 0]

(* "late": the count of that address has moved since it was read.          *)
NotRead == [node |-> 0, connections |-> 0, late |-> FALSE]

Init ==
    /\ kind \in Kinds
    /\ servers = <<>> /\ held = <<>> /\ picks = <<>>
    /\ currentIndex = 1
    /\ currentWeights = <<>>
    /\ destinationMap = [d \in Destinations |-> <<>>]
    /\ report = [r \in Reporters |-> NotRead] /\ off = {}
    /\ calm = TRUE

(* The weighted round robin starts over with every server.                 *)
initializeWeights == currentWeights' = [i \in DOMAIN servers' |-> 0]

addServer(shape) ==
    /\ Len(servers) < MaxServers
    /\ servers' = Append(servers, Connected(shape))
    /\ initializeWeights
    /\ held' = Append(held, 0)
    /\ picks' = [i \in 1 .. Len(servers) + 1 |-> 0]
    /\ calm' = (calm /\ \A i \in Indices : servers[i].connections = 0)
    /\ UNCHANGED <<kind, currentIndex, destinationMap, report, off>>

(* LBLCR keeps a pointer to a node of the caller's.                        *)
addDestinationServer(d, shape) ==
    /\ kind = "LBLCR" /\ Len(destinationMap[d]) < 1
    /\ destinationMap' = [destinationMap EXCEPT ![d] = Append(@, Connected(shape))]
    /\ UNCHANGED <<kind, servers, currentIndex, currentWeights, held, report, off,
                   picks, calm>>

totalWeight == Sum([i \in Indices |-> servers[i].weight])

gcd == CHOOSE g \in 1 .. totalWeight :
          /\ \A i \in Indices : servers[i].weight % g = 0
          /\ \A h \in g + 1 .. totalWeight : \E i \in Indices : servers[i].weight % h # 0

(* What min_element compares, without the division.                        *)
LighterCount(a, b) == a.connections < b.connections   \* mutant: weights are not used
Lighter(a, b) ==
    CASE kind \in {"LEAST_CONNECTIONS", "LBLCR"} -> a.connections < b.connections
      [] kind = "WEIGHTED_LEAST_CONNECTIONS" ->
             a.connections * b.weight < b.connections * a.weight
      [] kind = "PROCESSING_POWER" ->
             a.connections * b.processingPower < b.connections * a.processingPower
      [] kind = "RESPONSE_TIME" -> a.responseTime < b.responseTime

(* min_element: the first of the least.                                    *)
IsMinElement(nodes, i) ==
    /\ \A j \in DOMAIN nodes : ~Lighter(nodes[j], nodes[i])
    /\ \A j \in 1 .. i - 1 : Lighter(nodes[i], nodes[j])

-----------------------------------------------------------------------------
Loads == {"LEAST_CONNECTIONS", "WEIGHTED_LEAST_CONNECTIONS", "PROCESSING_POWER",
          "RESPONSE_TIME"}
Counting == Loads \cup {"LBLCR"}       \* the classes that raise connections

(* Each select ends by handing server i to a client.                       *)
Hand(i) ==
    /\ picks' = IF calm THEN [picks EXCEPT ![i] = @ + 1] ELSE picks
    /\ held' = IF kind \in Counting THEN [held EXCEPT ![i] = @ + 1] ELSE held
    /\ UNCHANGED <<kind, calm, destinationMap, off>>

(* The counters the shares are kept by move: stop comparing.               *)
Disturb ==
    /\ calm' = (kind \notin Counting /\ calm)
    /\ picks' = IF calm' THEN picks ELSE [i \in Indices |-> 0]

Uncounted == UNCHANGED <<servers, report>>

(* Whoever has read a count of that address reports it too late.           *)
Overtakes(address) ==
    report' = [r \in Reporters |->
        IF report[r].node # 0 /\ servers[report[r].node].address = address
        THEN [report[r] EXCEPT !.late = TRUE] ELSE report[r]]

selectRoundRobin ==
    /\ kind = "ROUND_ROBIN"
    /\ currentIndex' = (currentIndex % Len(servers)) + 1
    /\ Hand(currentIndex) /\ Uncounted /\ UNCHANGED currentWeights

(* A pass of the loop raises every weight and takes the first that reaches *)
(* gcd; the loop repeats the pass until one does.                          *)
Raised(n) == [i \in Indices |-> currentWeights[i] + n * servers[i].weight]
Reach(n) == {i \in Indices : Raised(n)[i] >= gcd}

selectWeightedRoundRobin ==
    /\ kind = "WEIGHTED_ROUND_ROBIN"
    /\ \E passes \in 1 .. totalWeight :
          /\ Reach(passes) # {}
          /\ \A n \in 1 .. passes - 1 : Reach(n) = {}
          /\ LET i == Min(Reach(passes)) IN
             /\ currentWeights' = [Raised(passes) EXCEPT ![i] = @ - totalWeight]
             /\ Hand(i)
    /\ Uncounted /\ UNCHANGED currentIndex

(* Random and weighted random: the generator may name any server.          *)
selectRandom ==
    /\ kind \in {"RANDOM", "WEIGHTED_RANDOM"}
    /\ \E i \in Indices : Hand(i)
    /\ Uncounted /\ UNCHANGED <<currentIndex, currentWeights>>

selectLeast ==
    /\ \E i \in Indices :
          /\ IsMinElement(servers, i)
          /\ servers[i].connections < MaxHeld
          /\ servers' = [servers EXCEPT ![i].connections = @ + 1]
          /\ Hand(i) /\ Overtakes(servers[i].address)
    /\ UNCHANGED <<currentIndex, currentWeights>>

selectHash(d) ==
    /\ kind \in {"DESTINATION_HASH", "SOURCE_HASH"}
    /\ Hand((Hash[d] % Len(servers)) + 1)
    /\ Uncounted /\ UNCHANGED <<currentIndex, currentWeights>>

(* A registered destination uses its own nodes, whose counts no release    *)
(* lowers: those are not among the servers.                                *)
selectRegistered(d) ==
    /\ destinationMap[d] # <<>>
    /\ \E i \in DOMAIN destinationMap[d] :
          /\ IsMinElement(destinationMap[d], i)
          /\ Sum(held) + destinationMap[d][i].connections < MaxHeld
          /\ destinationMap' = [destinationMap EXCEPT ![d][i].connections = @ + 1]
    /\ UNCHANGED <<kind, servers, currentIndex, currentWeights, held, report, off,
                   picks, calm>>

selectLBLCR(d) ==
    /\ kind = "LBLCR"
    /\ \/ selectRegistered(d)
       \/ destinationMap[d] = <<>> /\ selectLeast

(* With no server the call throws and nothing changes.                     *)
selectServer ==
    /\ servers # <<>>
    /\ Sum(picks) < MaxPicks /\ Sum(held) < MaxHeld
    /\ \/ selectRoundRobin
       \/ selectWeightedRoundRobin
       \/ selectRandom
       \/ kind \in Loads /\ selectLeast
       \/ \E d \in Destinations : selectHash(d) \/ selectLBLCR(d)

(* A client gives server i back by its address: the first server of that   *)
(* address with connections loses one.                                     *)
UsedAnywhere(i) == {j \in Indices : servers[j].connections > 0}   \* mutant: any address
Used(i) == {j \in Of(servers[i].address) : servers[j].connections > 0}

releaseConnection(i) ==
    /\ kind \in Counting => held[i] > 0
    /\ held' = [held EXCEPT ![i] = IF kind \in Counting THEN @ - 1 ELSE @]
    /\ \/ Used(i) = {} /\ Uncounted
       \/ /\ Used(i) # {}
          /\ servers' = [servers EXCEPT ![Min(Used(i))].connections = @ - 1]
          /\ Overtakes(servers[i].address)
    /\ Disturb
    /\ UNCHANGED <<kind, currentIndex, currentWeights, destinationMap, off>>

(* A caller repeats the connections of the node it selected: it reads them *)
(* without the mutex, to hand them over (LoadBalance_Test.cpp:39-41) ...   *)
ReadConnections(r, i) ==
    /\ report[r] = NotRead /\ Cardinality(off) < MaxOff
    /\ report' = [report EXCEPT ![r] =
           [node |-> i, connections |-> servers[i].connections, late |-> FALSE]]
    /\ UNCHANGED <<kind, servers, currentIndex, currentWeights, destinationMap, held,
                   off, picks, calm>>

(* ... and the call overwrites the first server of that address with what  *)
(* was read, whatever happened in between, and whichever node it was.      *)
updateServerStats(r, time) ==
    LET i == report[r].node
        First == Min(Of(servers[i].address)) IN
    /\ i # 0
    /\ servers' = [servers EXCEPT ![First].connections = report[r].connections,
                                  ![First].responseTime = time]
    /\ off' = IF report[r].late \/ First # i THEN off \cup {servers[i].address} ELSE off
    /\ report' = [report EXCEPT ![r] = NotRead]
    /\ Disturb
    /\ UNCHANGED <<kind, currentIndex, currentWeights, destinationMap, held>>

Next ==
    \/ \E shape \in Shapes : addServer(shape)
    \/ \E shape \in DestinationShapes, d \in Destinations : addDestinationServer(d, shape)
    \/ selectServer
    \/ \E i \in Indices : releaseConnection(i)
    \/ \E r \in Reporters :
          \/ \E i \in Indices : ReadConnections(r, i)
          \/ \E time \in Times : updateServerStats(r, time)

Spec == Init /\ [][Next]_vars

-----------------------------------------------------------------------------
CountedAt(address) ==
    Sum([i \in Of(address) |-> servers[i].connections]) = Sum([i \in Of(address) |-> held[i]])

(* The counters a choice is made by are the connections that clients hold, *)
(* address by address, as releases only name the address: whether or not   *)
(* servers share it, and although a report overwrites the counter.  Two    *)
(* kinds of report miscount: one that was overtaken by a selection or a    *)
(* release of that address after its count was read, and one about a       *)
(* server that is not the first of its address.                            *)
ConnectionsCounted ==
    kind \in Loads => \A address \in Addresses \ off : CountedAt(address)

(* The weight a class balances by.                                         *)
Share(i) ==
    CASE kind \in {"WEIGHTED_ROUND_ROBIN", "WEIGHTED_LEAST_CONNECTIONS"} -> servers[i].weight
      [] kind = "PROCESSING_POWER" -> servers[i].processingPower
      [] OTHER -> 1

(* While no connection ends, no server gets a further connection before    *)
(* another is at its share: (p - 1) / share of one <= p / share of another.*)
NobodyAhead ==
    kind \in {"ROUND_ROBIN", "LEAST_CONNECTIONS", "WEIGHTED_LEAST_CONNECTIONS",
              "PROCESSING_POWER"}
      /\ calm =>
        \A i, j \in Indices : (picks[i] - 1) * Share(j) <= picks[j] * Share(i)

(* The weighted round robin comes round after as many selections as the    *)
(* weights add up to (in units of their divisor), each server having had   *)
(* its weight; and one pass of the loop always finds a server, so the call *)
(* under the mutex ends.                                                   *)
CycleClosed ==
    kind = "WEIGHTED_ROUND_ROBIN" /\ servers # <<>> =>
        /\ Reach(1) # {}
        /\ Sum(currentWeights) = 0
        /\ Sum(picks) * gcd = totalWeight =>
               \A i \in Indices : picks[i] * gcd = servers[i].weight

(* Whichever class balances by shares, every server gets its own.          *)
SharesKept == NobodyAhead /\ CycleClosed
=============================================================================
