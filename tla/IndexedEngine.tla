--------------------------- MODULE IndexedEngine ---------------------------
(***************************************************************************)
(* The engine with the vector index it keeps in step with its writes.      *)
(*                                                                         *)
(* The index is what VectorIndex makes of it for a caller: for each record *)
(* the write whose vector a search can return.  It lives in memory only:   *)
(* build_index() makes it from a full scan, every write that reached the   *)
(* log updates it, compact() rebuilds it and open() starts without one.    *)
(***************************************************************************)
EXTENDS Engine

CONSTANTS
    Dims,       \* bound: the dimensions, but 0, of the vectors written
    Metric,     \* DistanceMetric
    L2,         \* the metric of HnswParams::default()
    NoMetric

ASSUME IndexedAssumption ==
    /\ 0 \notin Dims /\ RecordId \subseteq Nat
    /\ L2 \in Metric /\ NoMetric \notin Metric

VARIABLES
    dimOf,      \* the dimension of the vector each write carries
    index,      \* Engine::vector_index
    index_params,   \* Engine::index_params, of which the metric matters
    asked       \* observability only: the metric last asked for

paramVars == <<index_params, asked>>

allVars == <<vars, dimOf, index, paramVars>>

Index == [dim : Dims \cup {0}, shows : [RecordId -> SeqNo], metric : Metric]

NoIndex == [dim |-> 0, shows |-> <<>>, metric |-> NoMetric]

EmptyIndex(m) == [dim |-> 0, shows |-> [id \in RecordId |-> 0], metric |-> m]

IndexedTypeOK ==
    /\ TypeOK
    /\ dimOf \in [1..MaxSeq -> Dims \cup {0}]
    /\ index \in Index \cup {NoIndex}
    /\ index_params \in Metric \cup {NoMetric}
    /\ asked \in Metric \cup {NoMetric}

IndexedInit ==
    /\ Init
    /\ dimOf = [s \in 1..MaxSeq |-> 0]
    /\ index = NoIndex
    /\ index_params = NoMetric
    /\ asked = NoMetric

-----------------------------------------------------------------------------
(* VectorIndex::insert and delete: a vector of another dimension than the  *)
(* first one is skipped, and what the index showed for its record stays.   *)
Accepts(ix, d) == d # 0 /\ ix.dim \in {0, d}

IndexOne(ix, r) ==
    IF r.deleted THEN [ix EXCEPT !.shows[r.id] = 0]
    ELSE IF Accepts(ix, dimOf[r.seq])
    THEN [ix EXCEPT !.dim = dimOf[r.seq], !.shows[r.id] = r.seq]
    ELSE ix

IndexAll(ix, rs) ==
    LET after[n \in 0..Len(rs)] ==
            IF n = 0 THEN ix ELSE IndexOne(after[n - 1], rs[n])
    IN  after[Len(rs)]

(* VectorIndex::build, of the live records of a full scan in id order: the *)
(* first vector fixes the dimension, those of another are skipped.         *)
Built(m) ==
    LET some  == {id \in RecordId : ~View[id].deleted /\ dimOf[View[id].seq] # 0}
        first == CHOOSE id \in some : \A other \in some : id <= other
        dim   == IF some = {} THEN 0 ELSE dimOf[View[first].seq]
    IN  [EmptyIndex(m) EXCEPT
            !.dim = dim,
            !.shows = [id \in RecordId |->
                IF id \in some /\ dimOf[View[id].seq] = dim THEN View[id].seq ELSE 0]]

(* Mutant: put_batch indexes the first of its records only. *)
IndexedFirst(rs) ==
    IF index = NoIndex \/ rs = <<>> THEN index ELSE IndexOne(index, rs[1])

(* Mutant: deletes are left to the next rebuild. *)
IndexedPuts(rs) ==
    IF index = NoIndex THEN index
    ELSE IndexAll(index, SelectSeq(rs, LAMBDA r : ~r.deleted))

Indexed(rs) == IF index = NoIndex THEN index ELSE IndexAll(index, rs)

(* Each record of a put or a batch brings a vector of some dimension.      *)
Carries(s) == \E i \in DOMAIN op.recs : op.recs[i].seq = s /\ ~op.recs[i].deleted

WriteVectors ==
    /\ Write
    /\ dimOf' \in {f \in [1..MaxSeq -> Dims \cup {0}] :
          \A s \in 1..MaxSeq : f[s] = dimOf[s] \/ Carries(s)'}
    /\ UNCHANGED <<index, paramVars>>

(* The write shows in the index and in the memtable, whether or not the    *)
(* flush that may follow fails.                                            *)
ApplyIndexed ==
    /\ Apply
    /\ index' = Indexed(op.recs)
    /\ UNCHANGED <<dimOf, paramVars>>

(* build_index_impl: a request without a body asks for the default metric, *)
(* one with an unknown name is refused.  A new index takes the place of    *)
(* the old one.                                                            *)
ParseMetric(name) == IF name = NoMetric THEN L2 ELSE name

BuildIndex(name) ==
    /\ pc = "idle"
    /\ index' = Built(ParseMetric(name))
    /\ index_params' = ParseMetric(name)
    /\ asked' = ParseMetric(name)
    /\ UNCHANGED <<vars, dimOf>>

(* compact() that got to its end without an error.                         *)
(* Mutant: it rebuilds with the default parameters. *)
RebuiltByDefault == IF index_params = NoMetric THEN index ELSE Built(L2)

Rebuilt == IF index_params = NoMetric THEN index ELSE Built(index_params)

CompactReturns ==
    /\ NothingToMerge \/ CompactDone
    /\ index' = Rebuilt
    /\ UNCHANGED <<dimOf, paramVars>>

CrashIndexed ==
    /\ Crash
    /\ index' = NoIndex
    /\ index_params' = NoMetric
    /\ asked' = NoMetric
    /\ UNCHANGED dimOf

(* search_knn and its variants: reads, like get and scan.                  *)
Search ==
    /\ pc = "idle"
    /\ UNCHANGED allVars

EngineAlone ==
    /\ \/ AppendFrame \/ AppendFails \/ Sync \/ SyncFails
       \/ Flush \/ FlushStep
       \/ Compact \/ MergeTables \/ MergeFails \/ Swap \/ SwapFails
       \/ RemoveOld \/ RemoveFails
       \/ Open \/ OpenFails
    /\ UNCHANGED <<dimOf, index, paramVars>>

IndexedNext ==
    \/ WriteVectors \/ EngineAlone \/ ApplyIndexed \/ CompactReturns \/ CrashIndexed
    \/ \E name \in Metric \cup {NoMetric} : BuildIndex(name)
    \/ Search

IndexedSpec == IndexedInit /\ [][IndexedNext]_allVars

-----------------------------------------------------------------------------
(* Safety. *)

Shows(id) == index.shows[id]

(* Whatever the dimensions, and whichever write failed: the index shows no *)
(* record that a scan does not, and none in a version newer than it.  (The *)
(* first conjunct is the type invariant.)                                  *)
NoGhosts ==
    /\ IndexedTypeOK
    /\ index # NoIndex =>
          \A id \in RecordId : Shows(id) # 0 =>
              ~View[id].deleted /\ Shows(id) <= View[id].seq

(* A record whose vector has the index's dimension is found, and with this *)
(* vector; so only a vector of another dimension can be missing or stale.  *)
OnlyMismatchesStale ==
    index # NoIndex =>
        \A id \in RecordId :
            ~View[id].deleted /\ dimOf[View[id].seq] = index.dim /\ index.dim # 0 =>
                Shows(id) = View[id].seq

(* engine.rs:67-71: whatever was compacted, flushed or failed since, a     *)
(* search measures by the metric the last build asked for, and there is an *)
(* index to search exactly if one was built since the engine was opened.   *)
AskedMetricHolds == index.metric = asked

-----------------------------------------------------------------------------
(* The inductive invariant behind the safety properties. *)

(* What an index shows of a slot that a scan finds for an id: nothing newer, *)
(* nothing of a deleted record, and of a live one its vector, if that has    *)
(* the index's dimension.  An index without one has not met a vector.        *)
Reflects(ix, id, slot) ==
    /\ ix.shows[id] <= slot.seq
    /\ slot.deleted => ix.shows[id] = 0
    /\ ~slot.deleted =>
          IF ix.dim = 0 THEN dimOf[slot.seq] = 0
          ELSE dimOf[slot.seq] = ix.dim => ix.shows[id] = slot.seq

(* The running write is newer than what readers see until it is applied,   *)
(* so that applying it to the index and to the memtable comes to the same. *)
Ahead ==
    pc \in {"append", "apply"} =>
        \A k \in DOMAIN op.recs : View[op.recs[k].id].seq < op.recs[k].seq

(* The index is gone with its process; the parameters are those last asked *)
(* for, and the index was built with them.                                 *)
ParamsInv ==
    /\ pc = "down" => index = NoIndex
    /\ index = NoIndex <=> asked = NoMetric
    /\ index_params = asked /\ index.metric = asked

IndexedInv ==
    /\ IndexedTypeOK
    /\ Ahead
    /\ ParamsInv
    /\ index # NoIndex => \A id \in RecordId : Reflects(index, id, View[id])
=============================================================================
