# NeuraStore in TLA+

NeuraStore is a vector database in Rust: a storage engine (write-ahead log,
memtable, sorted tables), an approximate nearest-neighbour index kept next to
it, and an HTTP server that serves several collections of records. This
directory holds TLA+ models of it, the TLC configurations that check them on
small instances, and theorems with proofs checked by TLAPS. `src/` below is the
repository's root, so the code is in `src/src/`. `PROJECT.json` lists components,
runs, mutants, hazards, findings and theorems, and says for every definition
which lines it models.

## 1. The system

| Component | State | Operations | Interacts with |
|---|---|---|---|
| write-ahead log, `wal.rs` | one file of frames (length, checksum, record) | `append`, `append_batch`, `replay`, `clear` | called by the engine before a write takes effect |
| memtable, `memtable.rs` | newest write of each id since the last flush, deletions included | `insert`, `delete`, `get_raw`, `iter_all`, `clear` | filled by writes and by replay |
| table, `sstable.rs` | an immutable sorted file and its copy in memory | `write_sstable`, `open`, `get`, `iter` | written by flush and compaction |
| engine, `engine.rs` | the three above, a sequence counter, the next table number, the index | `open`, `put`, `put_batch`, `delete`, `get`, `scan_live`, `flush`, `compact`, `build_index`, `index_handle`, searches | one caller at a time (`&mut self`) |
| graph, `hnsw.rs` | vectors, neighbour lists by layer, entry point | `insert`, `search`, `search_filtered`, `brute_force` | owned by the vector index |
| vector index, `vector_index.rs` | graph, ids, metadata, tombstones, values by field, counter | `build`, `insert`, `delete`, searches with and without a filter | fed by the engine; searched by it and by holders of a handle |
| collections and handlers, `bin/server.rs` | map from names to open engines behind a lock, a lock for each engine | look up or open, list, the record, search, index and compaction requests | tokio tasks, one for each request |
| rate limiter, `bin/server.rs` | a token bucket for each client | `check` | called by the middleware, before the handlers |
| anomaly detector, `bin/server.rs` | two moving averages for each client | `record_and_check` | called by the middleware, after the limiter; only reports |
| request middleware, `bin/server.rs` | the configured keys | identify a request, then limiter, then detector | around every request under `/v1` |
| binary batches, `bin/server.rs`, python client | a cursor into one body | encode, parse, validate | before `put_batch` |

What is hard in it, and what makes each part correct:

* **Crashes and failing I/O.** Every operation of the engine has several effects
  on the disk, and the process may die, or one of the calls fail, between any
  two. Whatever happens, an acknowledged write must be what readers see and what
  the next `open` recovers, flush and compaction must be invisible, and the
  places that decide which of several writes of an id is the last one (memtable
  over tables, later table over earlier, replay by sequence number) must agree.
* **Two copies of the truth.** The index is in memory, is updated write by write
  and rebuilt by compaction; it must show what a scan of the store shows, through
  updates, deletes, failures and restarts. Inside it, the graph, the id maps, the
  tombstones, the values by field and the counter must agree.
* **An approximate graph.** Pruning is one-sided and order-dependent; what a
  search may miss has to be bounded by what the graph can reach.
* **Tasks and locks.** Requests race for the map and the engines. A directory
  must never be opened twice, every read must see what was answered before, and
  the two levels of locks must neither deadlock nor starve anyone.
* **Time.** The bucket and the detector compute with differences of clock
  readings; the detector's are taken before its mutex, and requests of one client
  overtake one another on the way from the limiter to the detector.
* **Lengths claimed by a sender or kept in a file.** The parser of binary batches
  must stay in the body whatever the body says of itself; a table finds its blobs
  by offsets taken while they grow; two endpoints and a client in another
  language must agree on what a record is.

The 40 places where this bites are listed, each with the properties that
watch it, under `hazards` in `PROJECT.json`.

## 2. Modules

```
Layers ── Wal ── Engine ─┬─ EngineKV ── MCEngine
   │                     │     └ INSTANCE KVStore
   │                     ├─ IndexedEngine ── MCIndexedEngine
   │                     └─ PowerLoss ── MCPowerLoss
   └─────────────┐
BatchParser ─────┼─ Ingest ── MCIngest
TableFile ───────┘

Distance ── Hnsw ─┬─ MCHnsw
                  └─ VectorIndex ── MCVectorIndex

Collections ── MCCollections

          ┌─ RateLimiter ─────┐
Clients ──┤                   ├─ Middleware ── MCMiddleware
          └─ AnomalyDetector ─┘

Engine ── EngineProofs ── EngineInvProofs ─┐
EngineKV ──────────────────────────────────┴─ EngineKVProofs ─┐
IndexedEngine ────────────────────────────────────────────────┴─ IndexedEngineProofs
VectorIndex ── VectorIndexProofs               Middleware ── MiddlewareProofs
Collections ── CollectionsProofs               Ingest ── IngestProofs
```

* **Layers**: records (id, sequence number, deletion mark), memtables and table
  contents as functions from ids to slots, insertion with the last writer
  winning, the merge by position. A vector and its metadata are stood for by the
  sequence number of the write that carried them: no step of the engine looks
  at either.
* **Wal**: the log as a sequence of frames, each with the number of words of it
  that were written (length, checksum, payload). `synced` is how much of the file
  `sync_data` has made durable; a crash keeps any prefix beyond it, cut anywhere
  inside a frame. Replay reads whole frames up to the end or the first torn one.
  When a later append has completed the torn frame's words with its own, replay
  misreads what follows and fails its checksum.
* **Engine**: `put`, `put_batch`, `delete`, `flush`, `compact`, `open` cut into one
  action for each effect on the disk (append a frame, sync, write a table, open
  it, clear the log, write the merged table, swap, remove a file), each with its
  failure, and a crash between any two. `pc` names the step that comes next.
  Table names are compared as the strings they are.
* **KVStore, EngineKV**: the promise to a caller, with no log or table in it, and
  the refinement mapping. An acknowledged binding is safe until a later write of
  the id; a write that failed or was cut off is in limbo: it may or may not be
  there after a restart, never in place of a later acknowledged one.
* **PowerLoss** extends Engine with a disk that may undo what was not synced: for
  each file name the tables it may be found to hold, for the log the earlier
  contents it may be found with. The code syncs files and never a directory, so
  a rename or an unlink stays open for ever, and a truncation until the next
  `sync_data` of the log. The directory itself and the log's own name are taken
  to be durable.
* **Hnsw**: insertion (random level, greedy descent, links both ways, pruning
  of the neighbours' lists), the layer search with its beam, the filtered search with its visit
  cap, brute force. Neighbour lists and heaps are sets: the code uses their order
  for distances only. The vectors are vectors of integers, named by numbers
  (`Components`), compared by any of the code's three metrics. Their distances are
  computed once, into a table that no step changes (`apart`). One variable is none of the
  code's: `crowded` keeps the nodes whose full list on layer 0 once dropped a neighbour.
* **Distance**: the metrics, on vectors of different lengths too, which a release build
  compares over the shorter. Only the order of distances from one vector matters,
  so the square of the cosine with its sign stands for the cosine; the vectors are
  chosen so that distances from one of them never tie.
* **VectorIndex** extends Hnsw with ids, tombstones, metadata, the values by
  field, the live counter, the dimension, and the searches: overfetch, equality
  by candidates, other filters by the graph. A filter is a request's operator and
  JSON value, read as `parse_filter_op` reads them; values are typed, compared and
  printed as the code does.
* **IndexedEngine** extends Engine with what VectorIndex amounts to for a caller:
  for each record the write whose vector a search returns. Writes that reached
  the log update it even if their flush then fails; compaction and `build_index`
  rebuild it from a scan; a restart starts without one. The dimension of each
  written vector is chosen when it is written. Beside the index stand the metric it
  was built with and the one last asked for.
* **Collections**: concurrent requests by both routes. tokio's `RwLock` is modelled
  from its documentation as a queue in order of arrival in which neighbouring
  readers are in together. An engine's contents are one number, read and stored
  in two steps. Open may fail at either of its steps, handlers may fail with or
  without an effect, a client may go away while its handler waits, the server
  may die and restart.
* **Clients, RateLimiter, AnomalyDetector**: the two per-client computations of the
  middleware over one clock, with time in ticks of 1 ms and tokens and rates in
  whole numbers of small parts. The bucket reads the clock under its mutex; the
  detector's readings are taken before, so they may be applied in any order.
* **Middleware**: `security_middleware` with every configuration: with keys, a
  request without a valid one is refused; without, all share one identity; limiter
  and detector are there or not. A request is identified and limited in one step,
  reads the clock in another and is measured in a third.
* **BatchParser**: `parse_binary_batch`, one action for each field, with `usize`
  arithmetic that wraps. A field is the span of the body it was read from; what
  the header and each metadata length say is up to the sender.
* **TableFile**: `write_sstable` and `SsTableReader`: index, metadata blob and vector
  blob grow record by record, lengths are cut to the index's width, an entry is
  found by binary search, and a slice beyond a blob is a panic.
* **Ingest** composes the two: records go through the client's encoder, a body
  that may be cut off or be another sender's, the parser, the checks of the binary
  endpoint, `put_batch`, perhaps a delete, the memtable, the table's file, lookup and the JSON
  answer. The JSON endpoints, single and bulk, are operators that it is compared
  with.

The MC modules only add symmetry sets, vectors, texts and bounds.

## 3. What TLC checks

| Run | Question, and bounds that matter |
|---|---|
| `engine` | 2 ids, 3 writes, batches of 2, a flush every 2 entries, 4 table numbers written in base 3, two digits wide, 1 crash, 1 I/O error: reads and recovery keep acknowledged writes; point reads equal scans; tables, files and log are in write order; maintenance changes no read; sequence numbers are fresh; the invariant of the proofs holds, types included; the engine implements KVStore |
| `hnsw` | up to 5 vectors in every order with every level up to 1, by each metric, asked for these and for a shorter vector: each node linked to one other, in lists of two: lists are indexed within their bounds, a search loses nodes only behind a list that was pruned, pruning gives up no better neighbour than it keeps, a wide beam is exact on what it can reach |
| `vector_index` | 2 records over 4 graph nodes by the cosine, 2 dimensions, values that print alike, 2 queries: one live node for a record, overfetch, the two filter paths agree, filters partition the records |
| `indexed_engine` | vectors of two dimensions and empty ones, 1 crash or 1 I/O error: no ghosts, only mismatched vectors stale, so the index of vectors of one dimension shows exactly what a scan does; compaction keeps the metric asked for |
| `collections` | 3 tasks, 2 collections, 2 writes each, 1 restart: one engine for a directory, current reads, no lost write, complete listings |
| `collections_live` | every request ends, under fairness |
| `middleware` | 2 tasks, requests with two keys or none, every configuration, intervals of 1 ms and 1.5 s, bursts just short of three tokens: the rate holds whatever a request shows, no bucket is made for an invalid key, who is turned away has reached the limit, each admitted request is measured once, a flag means that rates differ, a burst is flagged, a steady client whose readings are applied in order is not |
| `ingest` | batches of up to 2 records of up to 2 components, whole, cut off after any byte, with bytes behind, or made up; integers of 2 bits for lengths in a body: the parser stays in the body and reads the fields that were sent, a cut batch is refused as a whole, the binary and the JSON endpoints store the same, a table gives back its records, an answer says what was sent |
| `torn_tail`, `batch_prefix`, `live_count`, `power_loss` | what comments promise and the code does not keep (section 6) |

Why the bounds are enough to be worth running: two ids and three writes already
give updates, deletions, revived ids, a batch that straddles a flush and three
tables to merge; one crash with one I/O error gives every double failure, such as
a crash in the recovered state of a failed flush. Five graph nodes with
lists of two are enough for pruning to cut some off, from the entry point too, and also for graphs
in which no list was ever pruned, since an insertion links to a single node. In base 3 the third
table's number is the first that needs its padding: written without it, it sorts before the
second's. Three tasks give a lock holder, a waiter and a rival of the
waiter. Two tasks of the middleware are enough for one request to overtake another,
and two records for a second one whose fields follow those of a first. `MaxSeq`, `MaxSst`, `MaxCrashes`, `MaxFaults`, `MaxBatch`,
`OneAccident` (a constraint of MCIndexedEngine), `MaxNodes`, `TopLevel`,
`MaxWrites`, `MaxRestarts`, `MaxOpens`, `Gap`, `MaxRequests`, `MaxSteps`, `MaxDim`
and the sets of inputs (`Components`, `Metric`, `Sought`, `Queries`, `Targets`, `Text`, `KeySets`) are bounds
of the models, not of the code; the thresholds (`FlushThreshold`, `NameBase`, `NameLimit`, `M`,
`EfConstruction`, `OverfetchPerK`, `MinRequests`, `U32`, `Limit` and so on) are the code's parameters
with smaller values.

Every property of a passing run has a mutant in `PROJECT.json`: a definition of the
model replaced by one with a plausible bug (tombstones confused with absence, a
guard dropped, the wrong end of a heap, the second look at the map left out, the
averages not seeded), with which TLC finds the property violated. The mutated
forms stand in the modules just before the definitions they replace and are used
by nothing else.

**Fairness.** `collections_live` is the only liveness run. It assumes weak fairness
of each task's next step: tokio polls every task that was woken, a lock wakes the
next in its queue, and no step blocks for ever, since a failed open or write ends
its request too. Nothing is assumed of clients (arrival, disconnection) or of the
server's death. The bound leaves no room for a write to succeed in this run
(`MaxWrites = 0`), so writers hold their lock and fail; a writer's second step
under the same lock adds nothing that anyone waits for. The engine itself has no
liveness of its own: its operations run to their end on the caller's thread.

Deadlock is checked in every run but `middleware`, where requests and time are used
up in the end (`MaxRequests`, `MaxSteps`).

## 4. What is proved

TLAPS checks the following for every value of the constants. Together the theorems state
every safety property of every passing run; what stays with TLC alone is listed at
the end of this section.

* `EngineProofs`: `EngineTypeCorrect`, the types of every reachable state, and the facts
  about insertion and merging the other proofs rest on.
* `EngineInvProofs`: `EngineInvariant`, and from it `LevelsStayInSeqOrder`,
  `DiskStaysInSeqOrder`, `MemtableStaysLogged`, `ReadersStayOnDisk`,
  `SeqStaysFresh`, `AckedStaysNotOlder`, `GetAlwaysMatchesScan` and
  `MaintenanceAlwaysKeepsView`.
* `EngineKVProofs`: `FullInvariant`, and from it `ReadsAlwaysSeeAcked`,
  `AckedAlwaysSurvives` and the refinement, `EngineRefinesKV`.
* `IndexedEngineProofs`: `IndexKeepsEngine` (under the index the engine takes the engine's
  own steps), `IndexReflectsStore`, and from it `IndexNeverShowsGhosts`,
  `MatchingVectorsAreFound` and `AskedMetricAlwaysHolds`.
* `VectorIndexProofs`: of the graph `GraphStaysInBounds`, `WideSearchesAreExact`,
  `LossTakesPruning` and `PruningKeepsTheCloser`; of the index `OneNodeAnswers`, `FiltersDivide`,
  `ShortcutIsExact`, `OverfetchSuffices` and `GraphStaysInBoundsUnderIndex`.
* `CollectionsProofs`: `CollectionsInvariant`, and from it `OneEngineOpensADirectory`,
  `ReadsStayCurrent`, `WritesAlwaysAddUp` and `ListsAreComplete`.
* `MiddlewareProofs`: of the limiter `RateInvariant`, `RateIsEnforced` and
  `RefusalsAreDue`; of the detector `DetectorInvariant`, `FlagsAreSpikes`,
  `BurstsAreFlagged` and `SteadyClientsUnflagged`; of the middleware
  `ImplementsLimiter` and `ImplementsDetector` (each of its steps is a step of the component
  or leaves it alone), from them the same of the composed system (`ServerHoldsRate`,
  `ServerRefusesWhenDue`, `ServerFlagsSpikes`, `ServerFlagsBursts`, `ServerSparesSteady`), and
  of both components at once `EveryAdmissionMeasured` and `KeysBuyNothing`.
* `IngestProofs`: of the parser `ParserIsContained`, of a table `TableReadsBack`, of the two
  on the way of a record `IngestIsContained`, `BatchesArriveAsSent`,
  `CutBodiesAreRefused`, `EndpointsAgree` and `RecordsComeBack`.

### Assumptions

Those the modules declare, and two that theorems add:

* `MaxSst < NameLimit` (the order of the engine, and everything that rests on it): table
  numbers stay below the first that outgrows the six digits. Beyond it the stacking order of
  `open` is wrong (`1000000.sst` sorts before `999999.sst`), so the theorems would be false.
* `Threshold <= 8` (`BurstsAreFlagged`, `ServerFlagsBursts`): the code's is 5, and with 25 the
  property would be false (section 6).

Declared ones that matter: the parser's integers leave room for the largest body and one
record's length (`BodyLimit + 4 * U32 + 8 < Usize`, true of 64-bit targets, where `Usize` is
2^64 and `U32` is 2^32; on a 32-bit target it is false); bincode's encoding of metadata is
injective and never empty; a body, and the encoding of one record's metadata, is shorter than
the 2^32 of a table's lengths (`SizeAssumption`; the server's limit on bodies is far below
it); rates, thresholds and the detector's floor are positive (`DetectorAssumption`,
`RateLimiterAssumption`); records and keys are finitely many; what a filter calls a number
holds one (`ValueAssumption`).

### The engine

**The order of its parts.** None of the properties is inductive. That a table
holds nothing newer than the one above it is kept by a flush only because the
memtable is newer than every table, by `open` only because file numbers follow
write order, by compaction only because the number of the merged table is above
those of its sources; and after a crash between a flush's table and its log
clearing the same writes are in both. `EngineInv` says, for each step of the running
operation, what is where:

* `StepInv`: what each value of `pc` implies of the operation, table and log;
* `NameInv`: open readers are files on disk, in number order, below the next number;
* `DiskInv`: files in number order are in write order; a frame of the log is at
  least as new as any file's write of its id, or that write is in the log too; each
  acknowledged write is in the log or covered by a file; the memtable is logged;
* `MemoryInv`: the levels in memory are in order and cover each acknowledged write;
* `SeqInv`: the counter is above all that is stored;
* `OpInv`: the running write is newer than all stored before it, and once applied it
  is covered.

Once an engine has been reopened with whole frames behind a torn one (`tainted`)
the invariant claims only the first two: from there on acknowledged writes really
are lost (`torn_tail`), and the model says so instead of excluding the case. The
proof has a lemma for each action, and under it a step for each conjunct the action
can disturb.

**Which write it is.** That a read finds a write *as recent* as the acknowledged one does not
say that it finds that one or a later one that failed, and after a torn frame nothing of the
above is left to say it from. `SurvivalInv` is the second half of the invariant (`FullInv`), kept
on damaged logs too:

* `RunningInv`: the running write is newer than everything acknowledged or in limbo;
* `CounterInv`: the counter is ahead of everything that can still be read;
* `FrameInv`: readable frames are in write order, and hold what the running write appended;
* `TableInv`: a file on disk answers for an id what the open tables merge to, or a later one
  answers for it, or a failed flush left the file behind;
* `ViewInv`: what readers see of an id is its acknowledged write or one from the limbo;
* `LogInv`: so is a frame that replay reads, or a synced later one of the id is read too. It is
  claimed of ids of which no synced frame lies behind a torn one.

**The refinement.** With `FullInv` every step is one of KVStore: a `put` that begins is its
`Start`, applying to the memtable is its effect and, when the flush it may set off has
returned, its answer; a failed or cut-off write goes to limbo; flush and compaction change
nothing the mapping sees (`MaintenanceKeepsView`); `open` is recovery, where `FilesAnswerAsTables`
and `RecoveredIsCurrent` say that what replay and the files give for each id is among what
KVStore lets it come back as.

### The index

**Next to the store.** `IndexedInv` says for each id what the index shows of the slot that a
scan finds: nothing newer, nothing of a deleted record, and a live record's own vector
if that has the index's dimension. A write changes index and memtable in one step, and
comes to the same in both because the running write is newer than what readers see
(`Ahead`); a batch goes record by record, by induction along it. A flush and a compaction
change neither side, a rebuild reads one from the other, a restart has no index. That the
engine below keeps its own invariant is `IndexKeepsEngine`.

**The graph.** Distance and, among equal ones, age of the node is a strict order
of nodes, so the nearest and the k nearest of a finite set exist, and cutting a list
to its k nearest keeps at most k. A descent moves along links on its layer only, so the node
it ends at is on the layer below too, which is what `LinksOnLayer` needs for the links that
the insertion adds. That a recursive function of the model (the rounds of a search, the
hops of reachability) has the value its equation gives is proved for each by induction.

**Wide beams.** While the beam has room for every node a search never turns away and never
stops early. After i rounds it has looked at everything but its frontier, one node more with
each round, and at nothing that is more than i hops away (`Swept`): it ends with all that can
be reached, so its results are the nearest of them. For a beam of any width `Beamed` says
less: it is as full as what it has seen allows.

**What pruning may cost.** A set of nodes that no link leaves is empty, all of the graph, or
holds a crowded node (`Whole`). An insertion links the new node to at least one older node, and
that one back to it unless its list was full, which makes it crowded; so a set that was cut off
by dropping a link holds the node that dropped it. What is reachable, closed after as many hops
as there are nodes, is such a set. `OneWayMeansFull` is inductive on its own: a list once full
stays full and only ever swaps a neighbour for a closer one, so whatever was given up is, by
transitivity, farther than all that is kept.

**In front of the graph.** `IndexInv`: the node a record was last inserted as is the last of its
nodes and the others are tombstoned (`Bridged`), the field index lists the nodes with a
value (`Keyed`), the counter is not above the number of known records. Overfetch is a matter
of counting: a beam of k plus the overfetch that is full holds at least k nodes that are not
tombstones, because there are no more tombstones than that.

### The server

**Collections.** `CollectionsInv` says who is in which queue and why: each task at most
once, and only where its `pc` says; a task that opens an engine is alone at the head of the map's
queue, so that what it found there, nothing, is still true; every engine is registered under
its own name, so two engines never share a directory; a task that writes is alone at the head of its
engine's queue, so that the number it read is still the engine's; an open engine knows what
was written to its directory. The queue of a lock is a sequence of any length; that its
leaving tasks keep the others' places is a lemma of its own.

**The limiter.** `RateHolds` is about pairs of past requests and says
nothing of the bucket. `Spendable` adds it: for each past admission, the tokens
taken since and those still in the bucket together are at most the burst plus the
refill up to `last_refill`. A refill adds the same to both sides, the cap only
lowers the left one, and taking a token moves it from the bucket to the past. `RefusesOnlyAtLimit`
is the other half, and needs the opposite bound, `Undiminished`: a bucket is full, or for some past
admission the two sides meet, so what it lacks was spent on requests let through and none of it on those
turned away.

**The detector.** The slow average never falls below the lowest rate
measured and the fast one never rises above the highest, because each is a weighted
mean and both start at a measured rate. A report needs the fast one to be
`Threshold` times the slow one, so two measured rates are that far apart. Conversely a fast
request moves the fast average by half of its rate and the slow one by a fiftieth: three
thresholds above the baseline are enough for a report, as long as the threshold is at most 8.
For steady clients `SteadyInv` says that, until one request overtakes another, the readings on their
way to the detector are, in some order, just those that follow the ones already measured;
each then measures the client's one interval, and two averages of one rate are equal.

**The middleware.** Its state is that of both components plus what is
on its way between them. Requests on their way carry identities the components know
(`Known`), so each of its steps is one of the limiter's, one of the detector's, or
neither's; the components' theorems then carry over. That every admission is
measured once is about both: `OnceInv` counts, for each client, the requests admitted,
measured and held by tasks. That keys buy nothing counts too: only valid keys have buckets
(`KeysInv`); of the requests let through in a stretch of time each client's are at most the
share `RateHolds` grants it, so all of them map one-to-one into valid keys times share.

### Batches and tables

**The parser.** `ParserInv` says that the cursor is the end of the last
field, that the fields of a record follow one another from the end of the record
before, and that the cursor is at least 12 bytes further for every record parsed
(`CursorKeepsPace`), so the rounds of the loop are bounded by the body and not by the
count it claims. No sum wraps, by the assumption above.

**Tables.** `TableInv` says that each entry of the index points at
exactly the bytes of its record. Appending to a blob keeps the slices it had
(`SliceStays`). It is proved of records whose lengths fit the index's 32 bits
(`Storable`): the code cuts longer ones.

**Client and parser.** The encoder lays records out one after another; the parser does not
know where. `Following` says that it finds them: what is announced in the header is the
batch's, the records parsed are the first of the batch, the cursor is where the client laid out the
field that comes next, and a parse that ended did so for a reason (the body ends within the
record whose turn it is, or its metadata is malformed). A body cut off at any byte has such an end, as the
place of a record grows with its number.

**Endpoints and answers.** What the binary endpoint stores is what it parsed (`Answered`), and
the JSON endpoint, single or bulk, stores the same entries of the same records. From there
`ServedInv` follows them: the memtable holds of each id the last of its records, unless a
delete came later; the rows of the table are the ids held, in increasing order; a table is opened when
its file is whole. The binary search finds an id in such an index, by induction over
the width of the part that is left, so what is answered is what was sent last.

### Only model-checked

* `EveryRequestEnds`, the liveness property: fairness and ENABLED are outside what the
  prover does.
* The four runs of section 6, where a counterexample is the result.

Induction over data is done with sets as predicates (the naturals that have the property are
all of them). The library's theorems that take the predicate as an operator cannot be used
with the provers at hand, and neither can RECURSIVE operators: what the proofs are about
is written with recursive functions of one argument.

## 5. Not modelled, and why

* What a process crash without power loss leaves unsynced in the page cache and a
  later power loss then takes away.
* Floating-point rounding, equal distances, and how a search orders NaN.
* bincode's own encoding, and JSON beyond the kinds of values a metadata map can hold.
* The checks of collection names and of search vectors: they refuse a request before it
  reaches any state.
* Handles to the index (`index_handle`): nothing but a test calls it. A rebuild puts
  a new index in the place of the shared one, so a handle given out before it
  answers from an index that no later write or delete reaches.
* The rest of the Python client, benchmarks, demonstration program, packaging: no state of their own.

## 6. Where the code and its promises part

Each of these is a run that TLC must find violated, listed under `findings` with the
line it contradicts.

| Run | What the code does |
|---|---|
| `torn_tail` | `open` appends behind a torn frame that `replay` steps over: writes acknowledged after that are lost by the next restart, or make it fail |
| `batch_prefix` | a batch cut off by a crash comes back in part |
| `live_count` | a record deleted and inserted again is not counted |
| `power_loss` | `flush` clears the log after it has synced the table's file, but not the directory that names it: a power loss can keep the truncation and undo the rename |

The last rests on what POSIX leaves open (`fsync` of a file does not make its directory
entry durable); a file system that orders renames before later truncations hides it.

Smaller limits met while modelling. The models contain them, and the passing properties
named here say how far the code's behaviour holds in spite of them:

* from 1,000,000 tables on, names no longer sort in write order (`LevelsInSeqOrder` is
  checked and proved below that number);
* pruning keeps the links nearest to one end, so a stored vector can lose every link
  that leads to it and not even a search for itself finds it, under any metric
  (`LostOnlyByPruning` says that it takes a list that was pruned);
* a search for no results by the equality path returns one (`HeapTop`);
* an equality filter for 0 misses records that hold -0, which every other filter
  treats as 0 (`RangesPartition`, `FastPathMatchesGraph`);
* a put whose vector has another dimension than the index is stored and
  acknowledged, but searches go on returning the record's previous vector
  (`OnlyMismatchesStale`);
* when a request of a client passes the detector before one that read the clock
  earlier, the interval it measures spans both and the other one measures the full
  rate, which can flag a steady client (`SteadyNeverFlagged` claims nothing from
  there on);
* the default burst is twice the rate (`bin/server.rs`, line 282), so with a rate below
  one request in two seconds a bucket never holds a token and every request is refused
  (`RefusesOnlyAtLimit` holds of that too: one request is more than the burst);
* a detector with a threshold of 25 would never report a burst after a quiet time: the first
  fast request lifts the fast average by half of its rate and the baseline by a fiftieth,
  and from then on the two draw nearer (`BurstsAreFlagged` is proved for thresholds up to 8);
* the binary endpoint stores NaN, which the JSON endpoints cannot carry, and answers
  with `null` in its place (`BinaryMatchesJson`, `ServedAsSent`);
* a query of another dimension than the index is answered by the components both have;
  a debug build stops at an assertion instead (`WideBeamIsExact`).

Met but not in a model: `parse_binary_batch` reserves space for the number of records
the header claims before it reads one.

## 7. Plan

Done in this order, most important behaviour first: storage engine and its proofs,
abstract store and refinement, graph, vector index, index next to the store,
collections, rate limiter, anomaly detector; then binary batches and tables with their
proofs and the way of a record through both, power losses, the middleware as a
composition with its proofs, the three metrics.

Next, in order:

1. An abstract `Searcher` that VectorIndex implements for a wide beam, so that the
   index in IndexedEngine is a refinement and not an abstraction by hand.
2. Collections over Engine's promise: KVStore for each collection instead of a number.
3. Unsynced data that outlives a process crash and not a later power loss.
4. Proofs: of PowerLoss, what holds in spite of `power_loss`: that the engine's theorems
   remain true as long as no power loss undoes a rename; that IndexedEngine's `index` is
   what VectorIndex returns, once 1. is done.
