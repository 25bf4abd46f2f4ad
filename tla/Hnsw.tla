-------------------------------- MODULE Hnsw --------------------------------
(***************************************************************************)
(* The approximate nearest-neighbour graph of src/hnsw.rs: every node      *)
(* lives on the layers 0..level, its level drawn at random; a search       *)
(* descends greedily from the entry point and explores layer 0 with a beam *)
(* of width ef.                                                            *)
(*                                                                         *)
(* A neighbour list is a set of nodes and a candidate heap is too: the     *)
(* code reads both in order of distance only.  Among equal distances the   *)
(* heap's order is an accident of its layout; here the older node counts   *)
(* as the closer one, and no two inserted vectors are equal.  Vectors have *)
(* numbers; Components says what is in them.                               *)
(***************************************************************************)
EXTENDS Distance, FiniteSets

CONSTANTS
    Point,          \* the vectors to insert
    Sought,         \* the vectors asked for
    Components,     \* what each of them consists of
    Metric,         \* bound: the metrics to check
    M,              \* HnswParams::m
    MMax0,          \* HnswParams::m_max0
    EfConstruction, \* HnswParams::ef_construction
    TopLevel,       \* bound: the highest level random_level draws
    MaxNodes        \* bound: nodes in the graph

ASSUME HnswAssumption ==
    /\ \A p \in Sought : Components[p] \in Seq(Int)
    /\ \A a, b \in Point : Len(Components[a]) = Len(Components[b])
    /\ \A a \in Sought, b \in Point :
          LET v == Components[a]
              w == Components[b]
          IN  Dot(v, v) # 0 /\ Dot(w, w) # 0 =>
                  (Scale * SignedSquare(Dot(v, w))) % (Dot(v, v) * Dot(w, w)) = 0
    /\ Metric \subseteq DistanceMetric /\ Scale \in Nat
    /\ Point \subseteq Sought
    /\ Point = 1..Cardinality(Point) /\ Sought = 1..Cardinality(Sought)
    /\ M \in Nat \ {0} /\ MMax0 \in Nat \ {0} /\ EfConstruction \in Nat \ {0}
    /\ TopLevel \in Nat /\ MaxNodes \in Nat

VARIABLES
    metric,         \* HnswParams::metric
    apart,          \* how far Sought is from Point by each metric: never changes
    vectors,        \* the vector of each node, in order of insertion
    neighbors,      \* Node::neighbors, by node and layer
    entry_point,    \* the node searches start from, or NoNode
    max_level,
    crowded         \* observability: nodes linked to when their list on layer
                    \* 0 was full, which dropped a neighbour from it

hnswVars == <<metric, apart, vectors, neighbors, entry_point, max_level, crowded>>

NoNode == 0

Node == DOMAIN vectors

Layers(n) == DOMAIN neighbors[n]

MLayer(lc) == IF lc = 0 THEN MMax0 ELSE M

HnswTypeOK ==
    /\ metric \in Metric
    /\ vectors \in Seq(Point)
    /\ DOMAIN neighbors = Node
    /\ \A n \in Node : \E l \in 0..TopLevel : neighbors[n] \in [0..l -> SUBSET Node]
    /\ entry_point \in Node \cup {NoNode}
    /\ max_level \in 0..TopLevel
    /\ crowded \subseteq Node

(* distance(), the one entry point to all metrics.                         *)
Distances ==
    [by \in DistanceMetric |-> [a \in Sought |-> [b \in Point |->
        DistanceBy(by, Components[a], Components[b])]]]

HnswInit ==
    /\ metric \in Metric
    /\ apart = Distances
    /\ vectors = <<>>
    /\ neighbors = <<>>
    /\ entry_point = NoNode
    /\ max_level = 0
    /\ crowded = {}

-----------------------------------------------------------------------------
(* distance_to(): looked up, so that each distance is computed once.       *)
Dist(a, b) == apart[metric][a][b]

(* Nodes by their distance from a query. *)
Closer(q, m, n) ==
    LET far == apart[metric][q]
        dm  == far[vectors[m]]
        dn  == far[vectors[n]]
    IN  dm < dn \/ (dm = dn /\ m < n)

(* The k of S closest to q.                                                *)
NearestOf(q, k, S) == {n \in S : Cardinality({m \in S : Closer(q, m, n)}) < k}

Nearest(q, S) == CHOOSE n \in S : \A m \in S : m = n \/ Closer(q, n, m)

Farthest(q, S) == CHOOSE n \in S : \A m \in S : m = n \/ Closer(q, m, n)

(* One round of search_layer's loop: pop the closest candidate; stop, or   *)
(* look at its neighbours, all of which join the frontier and the eligible *)
(* ones of which compete for the ef results.                               *)
Hopeless(s, q, ef) ==
    /\ s.results # {}
    /\ Cardinality(s.results) >= ef
    /\ Closer(q, Farthest(q, s.results), Nearest(q, s.frontier))

Stops(s, q, ef, maxVisits) ==
    s.frontier = {} \/ Cardinality(s.visited) > maxVisits \/ Hopeless(s, q, ef)

(* Mutant: only eligible nodes are explored further. *)
ExploreEligible(s, q, layer, ef, eligible) ==
    LET current == Nearest(q, s.frontier)
        fresh   == IF layer \in Layers(current)
                   THEN neighbors[current][layer] \ s.visited
                   ELSE {}
    IN  [visited  |-> s.visited \cup fresh,
         frontier |-> (s.frontier \ {current}) \cup (fresh \cap eligible),
         results  |-> NearestOf(q, ef, s.results \cup (fresh \cap eligible))]

Explore(s, q, layer, ef, eligible) ==
    LET current == Nearest(q, s.frontier)
        fresh   == IF layer \in Layers(current)
                   THEN neighbors[current][layer] \ s.visited
                   ELSE {}
    IN  [visited  |-> s.visited \cup fresh,
         frontier |-> (s.frontier \ {current}) \cup fresh,
         results  |-> NearestOf(q, ef, s.results \cup (fresh \cap eligible))]

(* search_layer: no node enters the frontier twice, so as many rounds as   *)
(* there are nodes empty it.                                               *)
Explored(q, entry, layer, ef, eligible, maxVisits) ==
    LET start == [visited  |-> {entry},
                  frontier |-> {entry},
                  results  |-> {entry} \cap eligible]
        round[i \in 0..Len(vectors)] ==
            IF i = 0 THEN start
            ELSE LET s == round[i - 1]
                 IN  IF Stops(s, q, ef, maxVisits)
                     THEN [s EXCEPT !.frontier = {}]
                     ELSE Explore(s, q, layer, ef, eligible)
    IN  round[Len(vectors)]

SearchLayer(q, entry, layer, ef, eligible, maxVisits) ==
    Explored(q, entry, layer, ef, eligible, maxVisits).results

(* What each layer from the top down to `low' yields: a beam of one above  *)
(* `level', of ef at and below it.  Each layer starts from the closest     *)
(* node the one above found.  (max_visits is the number of nodes here.)    *)
Descent(q, level, ef, low) ==
    LET found[lc \in low..max_level] ==
            SearchLayer(q,
                        IF lc = max_level THEN entry_point ELSE Nearest(q, found[lc + 1]),
                        lc, IF lc > level THEN 1 ELSE ef, Node, Len(vectors))
    IN  found

(* The node from which a search enters layer 0.                            *)
Landing(q) ==
    IF max_level = 0 THEN entry_point
                     ELSE Nearest(q, Descent(q, 0, 1, 1)[1])

MaxOf(a, b) == IF a > b THEN a ELSE b

(* search_filtered: the k closest eligible nodes, as far as the beam finds *)
(* them before it has visited more than maxVisits nodes.                   *)
SearchFiltered(q, k, ef, eligible, maxVisits) ==
    IF entry_point = NoNode THEN {}
    ELSE NearestOf(q, k, SearchLayer(q, Landing(q), 0, MaxOf(ef, k), eligible, maxVisits))

Search(q, k, ef) == SearchFiltered(q, k, ef, Node, Len(vectors))

(* The exact answer.                                                       *)
BruteForce(q, k) == NearestOf(q, k, Node)

-----------------------------------------------------------------------------
(* connect_and_prune: n's neighbours on layer lc once the new node, at v,  *)
(* has linked to it: the closest MLayer(lc) to n.                          *)
(* Mutant: nothing is pruned. *)
ConnectOnly(n, lc, v) == neighbors[n][lc] \cup {Len(vectors) + 1}

(* Mutant: the link back is forgotten. *)
NoLinkBack(n, lc, v) == neighbors[n][lc]

(* Mutant: the sort is the wrong way round and keeps the farthest. *)
PruneClosest(n, lc, v) ==
    LET Far(m) == Dist(vectors[n], IF m \in Node THEN vectors[m] ELSE v)
        all    == neighbors[n][lc] \cup {Len(vectors) + 1}
    IN  {m \in all :
           Cardinality({o \in all : Far(o) > Far(m) \/ (Far(o) = Far(m) /\ o > m)})
               < MLayer(lc)}

ConnectAndPrune(n, lc, v) ==
    LET Far(m) == Dist(vectors[n], IF m \in Node THEN vectors[m] ELSE v)
        all    == neighbors[n][lc] \cup {Len(vectors) + 1}
    IN  {m \in all :
           Cardinality({o \in all : Far(o) < Far(m) \/ (Far(o) = Far(m) /\ o < m)})
               < MLayer(lc)}

(* insert(v) with the level random_level drew.  A layer's lists are only   *)
(* changed after that layer was searched, and the new node is in nobody's  *)
(* list before, so every search sees the graph as it was.                  *)
Lists(level) == 0..level

NewTop(level) ==
    IF entry_point = NoNode \/ level > max_level
    THEN entry_point' = Len(vectors) + 1 /\ max_level' = level
    ELSE UNCHANGED <<entry_point, max_level>>

Insert(v, level) ==
    LET new    == Len(vectors) + 1
        linked == IF entry_point = NoNode THEN {}
                  ELSE {lc \in 0..level : lc <= max_level}
        found  == Descent(v, level, EfConstruction, 0)
        chosen == [lc \in linked |-> NearestOf(v, MLayer(lc), found[lc])]
    IN  /\ vectors' = Append(vectors, v)
        /\ neighbors' = [n \in 1..new |->
              IF n = new
              THEN [lc \in Lists(level) |-> IF lc \in linked THEN chosen[lc] ELSE {}]
              ELSE [lc \in Layers(n) |->
                      IF lc \in linked /\ n \in chosen[lc]
                      THEN ConnectAndPrune(n, lc, v)
                      ELSE neighbors[n][lc]]]
        /\ NewTop(level)
        /\ crowded' = crowded \cup
              {n \in Node : /\ 0 \in linked /\ n \in chosen[0]
                            /\ Cardinality(neighbors[n][0]) >= MMax0}
        /\ UNCHANGED <<metric, apart>>

Grow ==
    \E v \in Point \ {vectors[n] : n \in Node} : \E level \in 0..TopLevel :
        Len(vectors) < MaxNodes /\ Insert(v, level)

(* A search is over before the next insert: it changes nothing.            *)
Query == UNCHANGED hnswVars

HnswNext == Grow \/ Query

HnswSpec == HnswInit /\ [][HnswNext]_hnswVars

-----------------------------------------------------------------------------
(* Safety. *)

(* Every link on a layer leads to another node that lives there, and no    *)
(* list outgrows the layer's limit.                                        *)
LinksOnLayer ==
    \A n \in Node : \A lc \in Layers(n) :
        /\ \A m \in neighbors[n][lc] : m # n /\ lc \in Layers(m)
        /\ Cardinality(neighbors[n][lc]) <= MLayer(lc)

(* A descent starts on max_level: the entry point lives there and no node  *)
(* lives above it.                                                         *)
EntryOnTop ==
    /\ (entry_point = NoNode) = (vectors = <<>>)
    /\ entry_point # NoNode => max_level \in Layers(entry_point)
    /\ \A n \in Node : \A lc \in Layers(n) : lc <= max_level

(* insert, connect_and_prune and search_layer index a node's lists by the  *)
(* layer they are on, and no such index is out of bounds: neither for the  *)
(* node a link leads to nor for the one a descent starts from.  (The type  *)
(* invariant of the graph is the first conjunct.)                          *)
ListsInBounds == HnswTypeOK /\ LinksOnLayer /\ EntryOnTop

(* The nodes a search entering layer 0 at n can ever reach.                *)
ReachableFrom(n) ==
    LET hop[i \in 0..Len(vectors)] ==
            IF i = 0 THEN {n}
            ELSE LET near == hop[i - 1]
                 IN  near \cup UNION {neighbors[m][0] : m \in near}
    IN  hop[Len(vectors)]

(* With a beam as wide as the graph a search is exact on what it can reach *)
(* from its landing node, by every metric and for vectors of any length,   *)
(* and a filtered one reaches its matches through nodes that do not match. *)
WideBeamIsExact ==
    entry_point # NoNode =>
        \A q \in Sought :
            LET reach == ReachableFrom(Landing(q))
            IN  \A eligible \in SUBSET Node :
                    SearchFiltered(q, 2, Len(vectors), eligible, Len(vectors))
                        = NearestOf(q, 2, eligible \cap reach)

(* Pruning alone can hide a node from a search: one that lands on n        *)
(* reaches every node, unless it comes by a node whose full list dropped a *)
(* neighbour.                                                              *)
LostOnlyByPruning ==
    \A n \in Node : ReachableFrom(n) = Node \/ ReachableFrom(n) \cap crowded # {}

(* insert links both ways, so where a list holds n and n's own does not    *)
(* hold its owner m, n's list is full of nodes closer to n than m is:      *)
(* however often n was pruned since, no better neighbour was given up.     *)
OneWayMeansFull ==
    \A m \in Node : \A lc \in Layers(m) : \A n \in neighbors[m][lc] :
        \/ m \in neighbors[n][lc]
        \/ /\ Cardinality(neighbors[n][lc]) = MLayer(lc)
           /\ \A o \in neighbors[n][lc] : Closer(vectors[n], o, m)
=============================================================================
