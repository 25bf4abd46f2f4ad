----------------------------- MODULE VectorIndex -----------------------------
(***************************************************************************)
(* The bridge of src/vector_index.rs between record ids and graph nodes:   *)
(* an update strands the record's old node in the append-only graph, a     *)
(* delete leaves it there, and `tombstoned' hides both from every result.  *)
(* One metadata field is enough to tell the filtered paths apart.          *)
(***************************************************************************)
EXTENDS Hnsw

CONSTANTS
    RecordId,
    Metadata,       \* bound: the metadata a record is stored with
    Dims,           \* bound: the dimensions, but 0, vectors come in
    OverfetchPerK,  \* search: at most this many nodes per result ...
    OverfetchBase,  \* ... and this many more are fetched (the code: 4, 50)
    BruteForceThreshold,    \* BRUTE_FORCE_THRESHOLD
    MaxFilteredVisits,      \* MAX_FILTERED_VISITS
    Queries,        \* bound: how many results (k) a query asks for
    Targets         \* bound: the values filters compare with

ASSUME VectorIndexAssumption ==
    /\ 0 \notin Dims
    /\ OverfetchPerK \in Nat /\ OverfetchBase \in Nat
    /\ BruteForceThreshold \in Nat /\ MaxFilteredVisits \in Nat
    /\ Queries \subseteq Nat
    /\ Metadata \subseteq Targets
    /\ IsFiniteSet(RecordId)

VARIABLES
    id_map,         \* the record each node was inserted for
    metadata,       \* the value of the field each node was inserted with
    id_to_internal, \* the latest node of each record, or NoNode
    tombstoned,     \* deleted and superseded nodes
    field_index,    \* the nodes by canonical key of their value
    dim,            \* dimension of the stored vectors, 0 until the first
    live_count

indexVars ==
    <<hnswVars, id_map, metadata, id_to_internal, tombstoned, field_index, dim, live_count>>

-----------------------------------------------------------------------------
(* Metadata values (record.rs).  A value is a type and what is compared    *)
(* within it; a number also has a sign, which only zero can have freely.   *)
Text(s)   == [type |-> "string", is |-> s, minus |-> FALSE]
Number(n) == [type |-> "number", is |-> n, minus |-> n < 0]
Truth(b)  == [type |-> "bool", is |-> IF b THEN 1 ELSE 0, minus |-> FALSE]
MinusZero == [type |-> "number", is |-> 0, minus |-> TRUE]
Missing   == [type |-> "missing", is |-> 0, minus |-> FALSE]

ASSUME ValueAssumption ==
    \A a \in Targets :
        /\ a.type = "number" => a.is \in Int
        /\ a.type = "missing" => a = Missing

(* derive(PartialEq): values of one type are equal as their contents are,  *)
(* and as floats 0 and -0 are equal.                                       *)
Equal(a, b) == a.type = b.type /\ a.is = b.is

(* canonical_key: a tag for the type, then the value as it is printed:     *)
(* -0 is printed with its sign.                                            *)
CanonicalKey(a) == <<a.type, a.minus, a.is>>

(* FilterOp: equality with any value, or a bound on a number.              *)
FilterOp == {"eq", "gt", "gte", "lt", "lte"}

(* Mutant: Gt and Gte share an arm. *)
MatchesLoosely(op, target, a) ==
    CASE op = "eq" -> Equal(a, target)
      [] op \in {"gt", "gte"} -> a.type = "number" /\ a.is >= target.is
      [] op \in {"lt", "lte"} -> a.type = "number" /\ a.is <= target.is

Matches(op, target, a) ==
    CASE op = "eq"  -> Equal(a, target)
      [] op = "gt"  -> a.type = "number" /\ a.is > target.is
      [] op = "gte" -> a.type = "number" /\ a.is >= target.is
      [] op = "lt"  -> a.type = "number" /\ a.is < target.is
      [] op = "lte" -> a.type = "number" /\ a.is <= target.is

(* A metadata entry that is not there, or JSON that is no metadata value:  *)
(* null, an array or an object.                                            *)
JsonValue(a) == a # Missing

(* parse_filter_op: without an op it is an equality, which takes any value *)
(* there can be in a record; a range wants a number.  Every other request  *)
(* is refused and reaches no index.                                        *)
OpOf(name) == IF name = "absent" THEN "eq" ELSE name

ParseFilterOp(name, a) ==
    CASE OpOf(name) = "eq" -> JsonValue(a)
      [] OpOf(name) \in FilterOp \ {"eq"} -> a.type = "number"
      [] OTHER -> FALSE

(* The values a request may compare with by this op.                       *)
Comparable(name) == {a \in Targets : ParseFilterOp(name, a)}

-----------------------------------------------------------------------------
IndexTypeOK ==
    /\ HnswTypeOK
    /\ id_map \in Seq(RecordId) /\ Len(id_map) = Len(vectors)
    /\ metadata \in Seq(Metadata) /\ Len(metadata) = Len(vectors)
    /\ id_to_internal \in [RecordId -> Node \cup {NoNode}]
    /\ tombstoned \subseteq Node
    /\ field_index \in [{CanonicalKey(a) : a \in Metadata} -> SUBSET Node]
    /\ dim \in Dims \cup {0}
    /\ live_count \in 0..Cardinality(RecordId)

IndexInit ==
    /\ HnswInit
    /\ id_map = <<>>
    /\ metadata = <<>>
    /\ id_to_internal = [id \in RecordId |-> NoNode]
    /\ tombstoned = {}
    /\ field_index = [key \in {CanonicalKey(a) : a \in Metadata} |-> {}]
    /\ dim = 0
    /\ live_count = 0

(* insert: an id that was inserted before, deleted or not, is an update.   *)
(* Mutant: the node an update strands is forgotten, not tombstoned. *)
OldNodeForgotten(id) == tombstoned' = tombstoned

OldNodeHidden(id) ==
    tombstoned' = tombstoned \cup ({id_to_internal[id]} \ {NoNode})

CountAfterInsert(id) ==
    IF id_to_internal[id] = NoNode THEN live_count + 1 ELSE live_count

InsertRecord(id, d, v, level, a) ==
    LET new == Len(vectors) + 1
    IN  /\ dim \in {0, d}
        /\ dim' = d
        /\ OldNodeHidden(id)
        /\ Insert(v, level)
        /\ id_map' = Append(id_map, id)
        /\ metadata' = Append(metadata, a)
        /\ field_index' = IF a = Missing THEN field_index
                          ELSE [field_index EXCEPT ![CanonicalKey(a)] = @ \cup {new}]
        /\ id_to_internal' = [id_to_internal EXCEPT ![id] = new]
        /\ live_count' = CountAfterInsert(id)

(* insert with an empty vector or one of another dimension: nothing        *)
(* happens, not even to the record's old node.                             *)
InsertSkipped(d) ==
    /\ d = 0 \/ dim \notin {0, d}
    /\ UNCHANGED indexVars

CountAfterDelete(n) ==
    IF n \in {NoNode} \cup tombstoned \/ live_count = 0 THEN live_count ELSE live_count - 1

DeleteRecord(id) ==
    LET n == id_to_internal[id]
    IN  /\ tombstoned' = tombstoned \cup ({n} \ {NoNode})
        /\ live_count' = CountAfterDelete(n)
        /\ UNCHANGED <<hnswVars, id_map, metadata, id_to_internal, field_index, dim>>

IsDeleted(id) == id_to_internal[id] = NoNode \/ id_to_internal[id] \in tombstoned

Live == Node \ tombstoned

-----------------------------------------------------------------------------
(* search: ask the graph for a few more than k, to make up for the         *)
(* tombstoned nodes among them.                                            *)
MinOf(a, b) == IF a < b THEN a ELSE b

(* Mutant: no more than k are fetched. *)
NoOverfetch(k) == k

Overfetch(k) == k + MinOf(Cardinality(tombstoned), k * OverfetchPerK + OverfetchBase)

KnnSearch(q, k, ef) ==
    IF tombstoned = {} THEN Search(q, k, ef)
    ELSE NearestOf(q, k, Live \cap Search(q, Overfetch(k), MaxOf(ef, Overfetch(k))))

(* The heap that keeps the k closest candidates replaces its worst only    *)
(* once it is full, and an empty heap counts as beaten: for k = 0 it keeps *)
(* one.                                                                    *)
(* Mutant: this path has a squared distance of its own. *)
HeapTopByL2(q, k, S) ==
    LET Far(n) == apart["L2"][q][vectors[n]]
    IN  {n \in S : Cardinality({m \in S : Far(m) < Far(n)}) < MaxOf(k, 1)}

HeapTop(q, k, S) == NearestOf(q, MaxOf(k, 1), S)

LiveMatching(op, target) == {n \in Live : Matches(op, target, metadata[n])}

Candidates(target) ==
    IF CanonicalKey(target) \in DOMAIN field_index
    THEN Live \cap field_index[CanonicalKey(target)]
    ELSE {}

(* search_filtered_with_max_visits_and_threshold: equality with few        *)
(* candidates is answered exactly; anything else goes through the graph.   *)
Filtered(q, k, ef, op, target, maxVisits, threshold) ==
    IF op = "eq" /\ Candidates(target) = {}
    THEN {}
    ELSE IF op = "eq" /\ Cardinality(Candidates(target)) <= threshold
    THEN HeapTop(q, k, Candidates(target))
    ELSE SearchFiltered(q, k, ef, LiveMatching(op, target), maxVisits)

KnnFiltered(q, k, ef, op, target) ==
    Filtered(q, k, ef, op, target, MaxFilteredVisits, BruteForceThreshold)

(* search_filtered_with_stats: the results, and how many nodes the graph   *)
(* search looked at and matched.                                           *)
FilteredWithStats(q, k, ef, op, target, maxVisits, threshold) ==
    IF op = "eq" /\ Cardinality(Candidates(target)) \in 1..threshold
    THEN [results |-> Filtered(q, k, ef, op, target, maxVisits, threshold),
          visited |-> 0, matched |-> 0]
    ELSE LET eligible == LiveMatching(op, target)
             seen     == IF entry_point = NoNode THEN {}
                         ELSE Explored(q, Landing(q), 0, MaxOf(ef, k), eligible, maxVisits).visited
         IN  [results |-> SearchFiltered(q, k, ef, eligible, maxVisits),
              visited |-> Cardinality(seen),
              matched |-> Cardinality(seen \cap eligible)]

-----------------------------------------------------------------------------
IndexNext ==
    \/ \E id \in RecordId, d \in Dims, level \in 0..TopLevel, a \in Metadata :
          \E v \in Point \ {vectors[n] : n \in Node} :
              Len(vectors) < MaxNodes /\ InsertRecord(id, d, v, level, a)
    \/ \E d \in Dims \cup {0} : InsertSkipped(d)
    \/ \E id \in RecordId : DeleteRecord(id)
    \/ UNCHANGED indexVars      \* search, search_filtered, len, is_deleted

IndexSpec == IndexInit /\ [][IndexNext]_indexVars

-----------------------------------------------------------------------------
(* Safety. *)

NodesOf(id) == {n \in Node : id_map[n] = id}

(* However a record was inserted, updated and deleted, at most one of its  *)
(* nodes can be returned, and it is the one inserted last.  (The first     *)
(* conjunct is the type invariant.)                                        *)
OneLiveNode ==
    /\ IndexTypeOK
    /\ \A id \in RecordId :
          /\ \A n \in NodesOf(id) \cap Live : \A m \in NodesOf(id) : m <= n
          /\ (NodesOf(id) \cap Live = {}) = IsDeleted(id)

(* Every node can be reached from wherever the search for q lands.         *)
NothingStranded(q) == entry_point = NoNode \/ ReachableFrom(Landing(q)) = Node

(* search overfetches enough: while there are no more tombstones than the  *)
(* bound on the overfetch, and the graph strands no node, even the         *)
(* narrowest beam yields k results or every live record, and a wide one    *)
(* the exact answer.                                                       *)
TombstonesDontStarve ==
    \A q \in Sought : \A k \in Queries :
        NothingStranded(q)
          /\ Cardinality(tombstoned) <= k * OverfetchPerK + OverfetchBase =>
            /\ Cardinality(KnnSearch(q, k, 1)) = MinOf(k, Cardinality(Live))
            /\ KnnSearch(q, k, Len(vectors)) = NearestOf(q, k, Live)

(* An equality filter's fast path and the graph search it stands in for    *)
(* find the same records by whichever metric the index has, and so does    *)
(* the variant that reports statistics, unless a live record holds the     *)
(* zero of the other sign.                                                 *)
FastPathMatchesGraph ==
    \A q \in Sought : NothingStranded(q) =>
        \A k \in Queries \ {0} : \A target \in Comparable("absent") :
            (\A n \in LiveMatching("eq", target) : metadata[n] = target) =>
            LET all   == Len(vectors)
                fast  == Filtered(q, k, all, "eq", target, all, all)
                stats == FilteredWithStats(q, k, all, "eq", target, all, 0)
            IN  fast = stats.results /\ Cardinality(fast) <= stats.matched

(* The filters divide the live records that hold a number: each is below,  *)
(* equal to or above a bound, the inclusive ranges add the equal ones, and *)
(* equality, which the field index answers, agrees with the ranges, which  *)
(* only the graph search does, if it is asked for both zeros.              *)
RangesPartition ==
    \A target \in UNION {Comparable(op) : op \in FilterOp \ {"eq"}} :
        LET same  == {a \in Targets : Equal(a, target)}
            found == [op \in FilterOp |->
                        IF op = "eq" THEN UNION {Candidates(a) : a \in same}
                        ELSE LiveMatching(op, target)]
        IN  /\ found["lt"] \cap found["gt"] = {}
            /\ found["lte"] \cap found["gte"] = found["eq"]
            /\ found["lte"] = found["lt"] \cup found["eq"]
            /\ found["gte"] = found["gt"] \cup found["eq"]
            /\ found["lte"] \cup found["gte"]
                 = {n \in Live : metadata[n].type = "number"}

LiveRecords == {id \in RecordId : ~IsDeleted(id)}

(* vector_index.rs:276: len() is the number of live entries.               *)
LiveCountIsLive == live_count = Cardinality(LiveRecords)
=============================================================================
