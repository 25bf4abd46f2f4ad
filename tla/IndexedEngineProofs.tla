------------------------ MODULE IndexedEngineProofs ------------------------
(***************************************************************************)
(* The index next to the store, for every value of the constants whose     *)
(* table numbers fit the padding of the file names: any number of records, *)
(* dimensions and metrics, batches of any length, crashes and I/O errors.  *)
(***************************************************************************)
EXTENDS IndexedEngine, EngineKVProofs

USE IndexedAssumption

-----------------------------------------------------------------------------
(* The engine under the index is the engine. *)

LEMMA StepsOfEngine == [IndexedNext]_allVars => [Next]_vars
<1> SUFFICES ASSUME [IndexedNext]_allVars PROVE [Next]_vars
  OBVIOUS
<1>1. CASE WriteVectors
  BY <1>1 DEF WriteVectors, Next
<1>2. CASE EngineAlone
  BY <1>2 DEF EngineAlone, Next, WriteStep, CompactStep, Restart
<1>3. CASE ApplyIndexed
  BY <1>3 DEF ApplyIndexed, Next, WriteStep
<1>4. CASE CompactReturns
  BY <1>4 DEF CompactReturns, Next, CompactStep
<1>5. CASE CrashIndexed
  BY <1>5 DEF CrashIndexed, Next, Restart
<1>6. CASE \E name \in Metric \cup {NoMetric} : BuildIndex(name)
  BY <1>6 DEF BuildIndex
<1>7. CASE Search \/ UNCHANGED allVars
  BY <1>7 DEF Search, allVars
<1> QED BY <1>1, <1>2, <1>3, <1>4, <1>5, <1>6, <1>7 DEF IndexedNext

(* Whatever is said of the engine holds with the index next to it: the     *)
(* index is fed by the engine's steps and changes none of them.            *)
THEOREM IndexKeepsEngine == IndexedSpec => Spec
<1>1. IndexedInit => Init
  BY DEF IndexedInit
<1> QED BY <1>1, StepsOfEngine, PTL DEF IndexedSpec, Spec

-----------------------------------------------------------------------------
(* Numbers. *)

(* A set of numbers that is not empty has a least element.                 *)
LEMMA Least ==
  ASSUME NEW T \in SUBSET Nat, T # {}
  PROVE  \E x \in T : \A y \in T : x <= y
<1>1. PICK x \in T : \A y \in T : ~ (<<y, x>> \in OpToRel(<, Nat))
  BY NatLessThanWellFounded, WFMin
<1>2. \A y \in T : y < x => <<y, x>> \in OpToRel(<, Nat)
  BY DEF OpToRel
<1>3. \A y \in T : ~(y < x)
  BY <1>1, <1>2, Zenon
<1>4. x \in Nat /\ \A y \in T : y \in Nat
  OBVIOUS
<1> QED BY <1>3, <1>4

(* Induction, for a predicate given by the set of numbers it holds of.     *)
LEMMA Induction ==
  ASSUME NEW S, 0 \in S, \A n \in Nat : n \in S => n + 1 \in S
  PROVE  Nat \subseteq S
<1> DEFINE T == Nat \ S
<1>1. SUFFICES ASSUME T # {} PROVE FALSE
  OBVIOUS
<1>2. PICK x \in T : \A y \in T : x <= y
  BY <1>1, Least
<1>3. x # 0 /\ x - 1 \in Nat /\ x - 1 \notin T
  BY <1>2
<1> QED BY <1>2, <1>3

-----------------------------------------------------------------------------
(* What readers of the engine see. *)

(* A slot a scan finds; a live one was written.                            *)
LEMMA ViewSlot ==
  ASSUME TypeOK, NEW id \in RecordId
  PROVE  /\ View[id] \in Slot /\ View[id].seq \in Nat
         /\ ~View[id].deleted => View[id].seq \in 1..MaxSeq
<1>1. /\ Len(sstables) + 1 \in Nat
      /\ Levels \in [1..(Len(sstables) + 1) -> Layer]
  <2>1. /\ Len(sstables) \in Nat /\ memtable \in Layer
        /\ \A i \in 1..Len(sstables) : sstables[i].recs \in Layer
    <3>1. \A i \in 1..Len(sstables) : sstables[i] \in Reader
      BY DEF TypeOK
    <3> QED BY <3>1 DEF TypeOK, Reader
  <2> QED BY <2>1 DEF Levels
<1>2. View[id] \in Slot
      /\ \/ View[id] = Absent
         \/ \E i \in 1..(Len(sstables) + 1) : /\ Present(Levels[i], id)
                                              /\ View[id] = Levels[i][id]
  BY <1>1, MergeSlot DEF View
<1>3. View[id].seq \in 0..MaxSeq
  BY <1>2 DEF Slot, SeqNo
<1>4. ~View[id].deleted => View[id].seq > 0
  BY <1>2 DEF Absent, Present
<1> QED BY <1>2, <1>3, <1>4

(* Nothing that is seen is later than the engine's counter.                *)
LEMMA ViewCounted ==
  ASSUME TypeInv, SurvivalInv, pc # "down", NEW id \in RecordId
  PROVE  View[id].seq <= seq
<1>1. View[id] \in Current(id)
  BY DEF SurvivalInv, ViewInv
<1>2. CASE View[id] = acked[id]
  BY <1>2 DEF SurvivalInv, CounterInv
<1>3. CASE View[id] # acked[id]
  <2>1. PICK r \in UNION LimboAfter(op) : View[id] = SlotOf(r)
    BY <1>1, <1>3 DEF Current
  <2>2. r \in UNION limbo \/ \E k \in DOMAIN op.recs : r = op.recs[k]
    BY <2>1 DEF LimboAfter
  <2>3. r.seq <= seq
    BY <2>2 DEF SurvivalInv, CounterInv
  <2> QED BY <2>1, <2>3 DEF SlotOf
<1> QED BY <1>2, <1>3

(* While the engine runs, only the step that applies a write changes what  *)
(* is seen, and only a write in progress goes on writing.                  *)
LEMMA ViewKept ==
  ASSUME TypeInv, TypeInv', EngineInv, pc # "down",
         Write \/ EngineAlone \/ CompactReturns
  PROVE  /\ \A id \in RecordId : View'[id] = View[id]
         /\ pc' # "down"
         /\ pc' \in {"append", "apply"} =>
               Write \/ (pc = "append" /\ op'.recs = op.recs)
<1>1. ASSUME memtable' = memtable, sstables' = sstables
      PROVE  \A id \in RecordId : View'[id] = View[id]
  BY <1>1 DEF View, Levels
<1>2. CASE Write
  <2>1. PICK recs : BeginWrite(recs)
    BY <1>2 DEF Write, Put, Delete, PutBatch
  <2> QED BY <1>1, <1>2, <2>1 DEF BeginWrite, Goto
<1>3. CASE AppendFrame \/ Sync
  <2>1. memtable' = memtable /\ sstables' = sstables /\ pc = "append" /\ pc' # "down"
    BY <1>3 DEF AppendFrame, Sync, Goto, memVars
  <2>2. op'.recs = op.recs
    BY <1>3 DEF AppendFrame, Sync, TypeInv, TypeOK, Op
  <2> QED BY <1>1, <2>1, <2>2
<1>4. CASE AppendFails \/ SyncFails
  BY <1>1, <1>4 DEF AppendFails, SyncFails, ReturnErr, memVars
<1>5. CASE Flush \/ Compact
  BY <1>1, <1>5 DEF Flush, Compact, Begin, Goto, memVars
<1>6. CASE FlushStep \/ MergeTables \/ MergeFails \/ Swap \/ SwapFails
           \/ RemoveOld \/ RemoveFails \/ NothingToMerge \/ CompactDone
  <2>1. [Next]_vars
    BY <1>6 DEF Next, CompactStep
  <2>2. Maintaining /\ pc' \notin {"down", "append", "apply"}
    <3>1. CASE FlushStep
      BY <3>1 DEF FlushStep, FlushNothing, FlushWrite, FlushWriteFails, Install,
         InstallFails, WalClear, WalClearFails, AfterFlush, ReturnOk, ReturnErr, Goto,
         Maintaining
    <3>2. CASE MergeTables \/ MergeFails \/ Swap \/ SwapFails
      BY <3>2 DEF MergeTables, MergeFails, Swap, SwapFails, ReturnErr, Goto, Maintaining
    <3>3. CASE RemoveOld \/ RemoveFails \/ NothingToMerge \/ CompactDone
      BY <3>3 DEF RemoveOld, RemoveFails, NothingToMerge, CompactDone, ReturnOk, Goto,
         Maintaining
    <3> QED BY <1>6, <3>1, <3>2, <3>3
  <2> QED BY <2>1, <2>2, MaintenanceView
<1>7. CASE Open \/ OpenFails
  BY <1>7 DEF Open, OpenFails
<1> QED BY <1>2, <1>3, <1>4, <1>5, <1>6, <1>7 DEF EngineAlone, CompactReturns

-----------------------------------------------------------------------------
(* The index one record, a batch and a scan make. *)

(* A record's insertion or deletion gives an index again, by the same      *)
(* metric.                                                                 *)
LEMMA IndexOneType ==
  ASSUME dimOf \in [1..MaxSeq -> Dims \cup {0}], NEW ix \in Index,
         NEW r \in Record, r.seq > 0
  PROVE  /\ IndexOne(ix, r) \in Index /\ IndexOne(ix, r).metric = ix.metric
         /\ \A id \in RecordId : id # r.id => IndexOne(ix, r).shows[id] = ix.shows[id]
<1>1. r.id \in RecordId /\ r.seq \in 1..MaxSeq
  BY DEF Record, SeqNo
<1>2. 0 \in SeqNo /\ r.seq \in SeqNo
  BY <1>1, LayersAssumption DEF SeqNo
<1>3. dimOf[r.seq] \in Dims \cup {0}
  BY <1>1
<1> QED BY <1>1, <1>2, <1>3 DEF IndexOne, Index

(* What it shows of the record is what a later scan will find.             *)
LEMMA IndexOneReflects ==
  ASSUME dimOf \in [1..MaxSeq -> Dims \cup {0}], NEW ix \in Index,
         NEW r \in Record, r.seq > 0, ix.shows[r.id] <= r.seq
  PROVE  /\ Reflects(IndexOne(ix, r), r.id, SlotOf(r))
         /\ IndexOne(ix, r).shows[r.id] <= r.seq
<1>1. r.id \in RecordId /\ r.seq \in 1..MaxSeq /\ r.deleted \in BOOLEAN
  BY DEF Record, SeqNo
<1>2. ix.shows \in [RecordId -> SeqNo] /\ DOMAIN ix.shows = RecordId
  BY DEF Index
<1>3. CASE r.deleted
  <2>1. IndexOne(ix, r).shows[r.id] = 0
    BY <1>1, <1>2, <1>3 DEF IndexOne, Index
  <2> QED BY <1>1, <1>3, <2>1 DEF Reflects, SlotOf
<1>4. CASE ~r.deleted /\ Accepts(ix, dimOf[r.seq])
  <2>1. /\ IndexOne(ix, r).shows[r.id] = r.seq
        /\ IndexOne(ix, r).dim = dimOf[r.seq] /\ dimOf[r.seq] # 0
    BY <1>1, <1>2, <1>4 DEF IndexOne, Index, Accepts
  <2> QED BY <1>1, <1>4, <2>1 DEF Reflects, SlotOf
<1>5. CASE ~r.deleted /\ ~Accepts(ix, dimOf[r.seq])
  <2>1. IndexOne(ix, r) = ix
    BY <1>5 DEF IndexOne
  <2>2. dimOf[r.seq] = 0 \/ ix.dim \notin {0, dimOf[r.seq]}
    BY <1>5 DEF Accepts
  <2> QED BY <1>5, <2>1, <2>2 DEF Reflects, SlotOf
<1> QED BY <1>3, <1>4, <1>5

(* What it shows of other records it shows still.  If it had no dimension  *)
(* yet, none of them has a vector.                                         *)
LEMMA IndexOneLeaves ==
  ASSUME dimOf \in [1..MaxSeq -> Dims \cup {0}], NEW ix \in Index,
         NEW r \in Record, r.seq > 0,
         NEW id \in RecordId, id # r.id, NEW slot, Reflects(ix, id, slot)
  PROVE  Reflects(IndexOne(ix, r), id, slot)
<1>1. IndexOne(ix, r).shows[id] = ix.shows[id]
  BY IndexOneType
<1>2. \/ IndexOne(ix, r).dim = ix.dim
      \/ ix.dim = 0 /\ IndexOne(ix, r).dim # 0
  BY DEF IndexOne, Index, Accepts
<1> QED BY <1>1, <1>2 DEF Reflects

(* A batch is indexed one record after the other.                          *)
After(f, ix, rs) ==
    /\ f \in [0..Len(rs) -> Index]
    /\ f[0] = ix
    /\ \A n \in 1..Len(rs) : f[n] = IndexOne(f[n - 1], rs[n])

LEMMA IndexAllIs ==
  ASSUME dimOf \in [1..MaxSeq -> Dims \cup {0}], NEW ix \in Index,
         NEW rs \in Seq(Record), \A n \in DOMAIN rs : rs[n].seq > 0
  PROVE  \E f : After(f, ix, rs) /\ IndexAll(ix, rs) = f[Len(rs)]
<1> DEFINE N == Len(rs)
           Upto(k, g) == /\ g \in [0..k -> Index]
                         /\ g[0] = ix
                         /\ \A n \in 1..k : g[n] = IndexOne(g[n - 1], rs[n])
           S == {k \in Nat : k <= N => \E g : Upto(k, g)}
           Rounds(g) == [n \in 0..N |-> IF n = 0 THEN ix ELSE IndexOne(g[n - 1], rs[n])]
<1>1. N \in Nat /\ \A n \in 1..N : rs[n] \in Record /\ rs[n].seq > 0
  OBVIOUS
<1> HIDE DEF N
<1>2. 0 \in S
  <2>1. Upto(0, [n \in 0..0 |-> ix])
    OBVIOUS
  <2> HIDE DEF Upto
  <2> QED BY <2>1
<1>3. ASSUME NEW k \in Nat, k \in S PROVE k + 1 \in S
  <2>1. CASE k + 1 <= N
    <3>1. PICK g : Upto(k, g)
      <4> HIDE DEF Upto
      <4> QED BY <1>1, <1>3, <2>1
    <3> DEFINE h == [n \in 0..(k + 1) |->
                        IF n <= k THEN g[n] ELSE IndexOne(g[k], rs[k + 1])]
    <3>2. g[k] \in Index /\ rs[k + 1] \in Record /\ rs[k + 1].seq > 0
      BY <1>1, <2>1, <3>1
    <3>3. IndexOne(g[k], rs[k + 1]) \in Index
      BY <3>2, IndexOneType
    <3>4. h \in [0..(k + 1) -> Index]
      BY <3>1, <3>3
    <3>5. \A n \in 1..(k + 1) : h[n] = IndexOne(h[n - 1], rs[n])
      <4>1. TAKE n \in 1..(k + 1)
      <4>2. CASE n <= k
        <5>1. n \in 1..k /\ h[n] = g[n] /\ h[n - 1] = g[n - 1]
          BY <4>2
        <5> QED BY <3>1, <5>1
      <4>3. CASE n = k + 1
        <5>1. h[n] = IndexOne(g[k], rs[k + 1]) /\ h[n - 1] = g[k]
          BY <4>3
        <5> QED BY <4>3, <5>1
      <4> QED BY <4>2, <4>3
    <3>6. Upto(k + 1, h)
      BY <3>1, <3>4, <3>5
    <3> HIDE DEF Upto, h
    <3> QED BY <3>6
  <2>2. CASE ~(k + 1 <= N)
    BY <2>2
  <2> QED BY <2>1, <2>2
<1>4. N \in S
  <2> HIDE DEF S
  <2>1. \A k \in Nat : k \in S => k + 1 \in S
    BY <1>3
  <2> QED BY <1>1, <1>2, <2>1, Induction
<1>5. PICK g : Upto(N, g)
  BY <1>1, <1>4
<1>6. g = Rounds(g)
  <2>1. \A n \in 0..N : g[n] = IF n = 0 THEN ix ELSE IndexOne(g[n - 1], rs[n])
    BY <1>1, <1>5
  <2>2. g = [n \in 0..N |-> g[n]]
    BY <1>5
  <2> QED BY <2>1, <2>2
<1> DEFINE f == CHOOSE h : h = Rounds(h)
<1>7. f = Rounds(f)
  <2> HIDE DEF Rounds
  <2> QED BY <1>6
<1>8. IndexAll(ix, rs) = f[N]
  BY DEF IndexAll, N
<1> HIDE DEF f
<1>9. DOMAIN f = 0..N /\ f[0] = ix /\ \A n \in 1..N : f[n] = IndexOne(f[n - 1], rs[n])
  BY <1>1, <1>7
<1>10. \A n \in 0..N : f[n] = g[n]
  <2> DEFINE T == {n \in Nat : n <= N => f[n] = g[n]}
  <2>1. 0 \in T
    BY <1>1, <1>5, <1>9
  <2>2. ASSUME NEW n \in Nat, n \in T PROVE n + 1 \in T
    <3>1. CASE n + 1 <= N
      <4>1. n + 1 \in 1..N /\ (n + 1) - 1 = n /\ n <= N
        BY <1>1, <3>1
      <4>2. f[n] = g[n]
        BY <2>2, <4>1
      <4>3. /\ f[n + 1] = IndexOne(f[(n + 1) - 1], rs[n + 1])
            /\ g[n + 1] = IndexOne(g[(n + 1) - 1], rs[n + 1])
        BY <1>5, <1>9, <4>1
      <4>4. f[n + 1] = g[n + 1]
        BY <4>1, <4>2, <4>3
      <4> QED BY <4>4
    <3>2. CASE ~(n + 1 <= N)
      BY <3>2
    <3> QED BY <3>1, <3>2
  <2>3. Nat \subseteq T
    <3> HIDE DEF T
    <3>1. \A n \in Nat : n \in T => n + 1 \in T
      BY <2>2
    <3> QED BY <2>1, <3>1, Induction
  <2> QED BY <1>1, <2>3
<1>11. After(g, ix, rs) /\ IndexAll(ix, rs) = g[Len(rs)]
  <2>1. N \in 0..N
    BY <1>1
  <2> QED BY <1>5, <1>8, <1>10, <2>1 DEF After, N
<1> QED BY <1>11

(* After a batch, what the index shows of an id is what its last record in *)
(* the batch says, and what was seen before if it has none.                *)
LEMMA BatchReflects ==
  ASSUME dimOf \in [1..MaxSeq -> Dims \cup {0}], NEW ix \in Index,
         NEW rs \in Seq(Record), NEW slots \in Layer,
         \A k \in DOMAIN rs : slots[rs[k].id].seq < rs[k].seq,
         \A j, k \in DOMAIN rs : j < k => rs[j].seq < rs[k].seq,
         \A id \in RecordId : Reflects(ix, id, slots[id])
  PROVE  /\ IndexAll(ix, rs) \in Index /\ IndexAll(ix, rs).metric = ix.metric
         /\ \A id \in RecordId :
               /\ Writes(rs, id) = {} => Reflects(IndexAll(ix, rs), id, slots[id])
               /\ \A k \in Writes(rs, id) : (\A j \in Writes(rs, id) : j <= k) =>
                     Reflects(IndexAll(ix, rs), id, SlotOf(rs[k]))
<1> DEFINE N == Len(rs)
<1>1. /\ N \in Nat /\ DOMAIN rs = 1..N
      /\ \A n \in 1..N : rs[n] \in Record /\ rs[n].id \in RecordId /\ rs[n].seq \in Nat
  <2>1. \A n \in 1..N : rs[n] \in Record
    OBVIOUS
  <2> QED BY <2>1 DEF Record, SeqNo
<1>2. \A id \in RecordId : slots[id].seq \in Nat
  BY DEF Layer, Slot, SeqNo
<1>3. \A n \in 1..N : rs[n].seq > 0
  <2> SUFFICES ASSUME NEW n \in 1..N PROVE rs[n].seq > 0
    OBVIOUS
  <2>1. slots[rs[n].id].seq < rs[n].seq
    BY <1>1
  <2>2. rs[n].id \in RecordId /\ rs[n].seq \in Nat
    BY <1>1
  <2>3. slots[rs[n].id].seq \in Nat
    BY <1>2, <2>2
  <2> QED BY <2>1, <2>2, <2>3
<1>4. PICK f : After(f, ix, rs) /\ IndexAll(ix, rs) = f[N]
  BY <1>1, <1>3, IndexAllIs
<1> HIDE DEF N
<1> DEFINE Older(n, id) == \/ f[n].shows[id] <= slots[id].seq
                           \/ \E k \in 1..n : /\ rs[k].id = id
                                              /\ f[n].shows[id] <= rs[k].seq
           Untouched(n, id) == (\A k \in 1..n : rs[k].id # id)
                                   => Reflects(f[n], id, slots[id])
           Touched(n, id) == \A k \in 1..n :
               rs[k].id = id /\ (\A j \in (k + 1)..n : rs[j].id # id)
                   => Reflects(f[n], id, SlotOf(rs[k]))
           P(n) == /\ f[n].metric = ix.metric
                   /\ \A id \in RecordId :
                         Older(n, id) /\ Untouched(n, id) /\ Touched(n, id)
           S == {n \in Nat : n <= N => P(n)}
<1>5. 0 \in S
  <2>1. f[0] = ix
    BY <1>4 DEF After
  <2> QED BY <2>1 DEF Reflects
<1>6. ASSUME NEW n \in Nat, n \in S PROVE n + 1 \in S
  <2> SUFFICES ASSUME n + 1 <= N PROVE P(n + 1)
    OBVIOUS
  <2> DEFINE r == rs[n + 1]
  <2>1. n + 1 \in 1..N /\ n \in 0..N /\ n <= N
    BY <1>1
  <2>2. P(n)
    BY <1>6, <2>1
  <2>3. f[n] \in Index /\ f[n + 1] = IndexOne(f[n], r)
    <3>1. (n + 1) - 1 = n
      OBVIOUS
    <3> QED BY <1>1, <1>4, <2>1, <3>1 DEF After, N
  <2>4. r \in Record /\ r.seq > 0 /\ r.id \in RecordId /\ r.seq \in Nat
    BY <1>1, <1>3, <2>1
  <2> HIDE DEF r, P
  <2> DEFINE ix1 == f[n]
  <2>10. ix1 \in Index /\ IndexOne(ix1, r) = f[n + 1]
    BY <2>3
  <2>11. ix1.shows \in [RecordId -> SeqNo]
    BY <2>10 DEF Index
  <2>5. f[n + 1].metric = f[n].metric
    BY <2>3, <2>4, IndexOneType
  <2>6. ASSUME NEW id \in RecordId, id # r.id
        PROVE  Older(n + 1, id) /\ Untouched(n + 1, id) /\ Touched(n + 1, id)
    <3>0. Older(n, id) /\ Untouched(n, id) /\ Touched(n, id)
      BY <2>2 DEF P
    <3>1. f[n + 1].shows[id] = f[n].shows[id]
      <4>1. IndexOne(ix1, r).shows[id] = ix1.shows[id]
        <5> HIDE DEF ix1
        <5> QED BY <2>4, <2>6, <2>10, IndexOneType
      <4> QED BY <2>10, <4>1
    <3>2. \A slot : Reflects(f[n], id, slot) => Reflects(f[n + 1], id, slot)
      BY <2>3, <2>4, <2>6, IndexOneLeaves
    <3>3. Older(n + 1, id)
      BY <3>0, <3>1
    <3>4. Untouched(n + 1, id)
      BY <3>0, <3>2
    <3>5. Touched(n + 1, id)
      <4> SUFFICES ASSUME NEW k \in 1..(n + 1), rs[k].id = id,
                          \A j \in (k + 1)..(n + 1) : rs[j].id # id
                   PROVE  Reflects(f[n + 1], id, SlotOf(rs[k]))
        OBVIOUS
      <4>1. k \in 1..n
        BY <2>6 DEF r
      <4>2. \A j \in (k + 1)..n : rs[j].id # id
        OBVIOUS
      <4> QED BY <3>0, <3>2, <4>1, <4>2
    <3> QED BY <3>3, <3>4, <3>5
  <2>7. Older(n + 1, r.id) /\ Untouched(n + 1, r.id) /\ Touched(n + 1, r.id)
    <3>1. f[n].shows[r.id] <= r.seq
      <4>1. Older(n, r.id)
        BY <2>2, <2>4 DEF P
      <4>2. slots[r.id].seq < r.seq
        BY <1>1, <2>1 DEF r
      <4>3. \A k \in 1..n : rs[k].id = r.id => rs[k].seq <= r.seq
        <5> SUFFICES ASSUME NEW k \in 1..n PROVE rs[k].seq <= r.seq
          OBVIOUS
        <5>1. k \in DOMAIN rs /\ n + 1 \in DOMAIN rs /\ k < n + 1
          BY <1>1, <2>1
        <5>2. rs[k].seq < r.seq
          BY <5>1 DEF r
        <5> QED BY <1>1, <2>4, <5>1, <5>2
      <4>4. f[n].shows[r.id] \in Nat
        <5>1. ix1.shows[r.id] \in SeqNo
          BY <2>4, <2>11
        <5> QED BY <5>1 DEF SeqNo
      <4>5. \A k \in 1..n : rs[k].seq \in Nat
        BY <1>1, <2>1
      <4>6. slots[r.id].seq \in Nat
        BY <1>2, <2>4
      <4> QED BY <2>4, <4>1, <4>2, <4>3, <4>4, <4>5, <4>6
    <3>2. Reflects(f[n + 1], r.id, SlotOf(r)) /\ f[n + 1].shows[r.id] <= r.seq
      BY <2>3, <2>4, <3>1, IndexOneReflects
    <3>3. n + 1 \in 1..(n + 1)
      OBVIOUS
    <3>4. Older(n + 1, r.id) /\ Untouched(n + 1, r.id)
      BY <3>2, <3>3 DEF r
    <3>5. \A k \in 1..(n + 1) : (\A j \in (k + 1)..(n + 1) : rs[j].id # r.id) => k = n + 1
      BY DEF r
    <3> QED BY <3>2, <3>4, <3>5 DEF r
  <2> QED BY <2>2, <2>5, <2>6, <2>7 DEF P
<1>7. P(N)
  <2> HIDE DEF P
  <2>1. \A n \in Nat : n \in S => n + 1 \in S
    BY <1>6
  <2>2. N \in S
    <3> HIDE DEF S
    <3> QED BY <1>1, <1>5, <2>1, Induction
  <2> QED BY <1>1, <2>2
<1>8. f[N] \in Index
  BY <1>1, <1>4 DEF After, N
<1>9. ASSUME NEW id \in RecordId
      PROVE  /\ Writes(rs, id) = {} => Reflects(f[N], id, slots[id])
             /\ \A k \in Writes(rs, id) : (\A j \in Writes(rs, id) : j <= k) =>
                   Reflects(f[N], id, SlotOf(rs[k]))
  <2>1. Untouched(N, id) /\ Touched(N, id)
    BY <1>7
  <2>2. \A k \in 1..N : rs[k].id = id <=> k \in Writes(rs, id)
    BY <1>1 DEF Writes
  <2>3. CASE Writes(rs, id) = {}
    BY <2>1, <2>2, <2>3
  <2>4. ASSUME NEW k \in Writes(rs, id), \A j \in Writes(rs, id) : j <= k
        PROVE  Reflects(f[N], id, SlotOf(rs[k]))
    <3>1. k \in 1..N /\ rs[k].id = id
      BY <1>1 DEF Writes
    <3>2. \A j \in (k + 1)..N : rs[j].id # id
      <4> SUFFICES ASSUME NEW j \in (k + 1)..N, rs[j].id = id PROVE FALSE
        OBVIOUS
      <4>1. j \in 1..N /\ ~(j <= k)
        BY <1>1, <3>1
      <4> QED BY <2>2, <2>4, <4>1
    <3> QED BY <2>1, <3>1, <3>2
  <2> QED BY <2>3, <2>4
<1> QED BY <1>4, <1>7, <1>8, <1>9

(* An index built from a scan reflects it.                                 *)
LEMMA BuiltReflects ==
  ASSUME TypeOK, dimOf \in [1..MaxSeq -> Dims \cup {0}], NEW m \in Metric
  PROVE  /\ Built(m) \in Index /\ Built(m).metric = m
         /\ \A id \in RecordId : Reflects(Built(m), id, View[id])
<1> DEFINE some  == {id \in RecordId : ~View[id].deleted /\ dimOf[View[id].seq] # 0}
           first == CHOOSE id \in some : \A other \in some : id <= other
           dim   == IF some = {} THEN 0 ELSE dimOf[View[first].seq]
           shows == [id \in RecordId |->
                        IF id \in some /\ dimOf[View[id].seq] = dim
                        THEN View[id].seq ELSE 0]
<1>1. Built(m) = [dim |-> dim, shows |-> shows, metric |-> m]
  <2>1. Built(m) = [EmptyIndex(m) EXCEPT !.dim = dim, !.shows = shows]
    BY DEF Built
  <2> HIDE DEF dim, shows
  <2> QED BY <2>1 DEF EmptyIndex
<1>2. \A id \in RecordId : /\ View[id].seq \in 0..MaxSeq
                           /\ ~View[id].deleted => View[id].seq \in 1..MaxSeq
  BY ViewSlot DEF Slot, SeqNo
<1>3. \A id \in some : dimOf[View[id].seq] \in Dims
  BY <1>2
<1>4. some # {} => first \in some
  <2> SUFFICES ASSUME some # {} PROVE \E id \in some : \A other \in some : id <= other
    OBVIOUS
  <2>1. some \in SUBSET Nat
    OBVIOUS
  <2> HIDE DEF some
  <2> QED BY <2>1, Least
<1> HIDE DEF first
<1>5. dim \in Dims \cup {0} /\ (dim = 0 <=> some = {})
  BY <1>3, <1>4
<1>6. shows \in [RecordId -> SeqNo]
  BY <1>2, LayersAssumption DEF SeqNo
<1>7. Built(m) \in Index /\ Built(m).metric = m
  BY <1>1, <1>5, <1>6 DEF Index
<1>8. ASSUME NEW id \in RecordId PROVE Reflects(Built(m), id, View[id])
  <2>1. Built(m).dim = dim /\ Built(m).shows[id] = shows[id]
    BY <1>1
  <2>2. shows[id] = IF id \in some /\ dimOf[View[id].seq] = dim
                    THEN View[id].seq ELSE 0
    OBVIOUS
  <2>3. shows[id] <= View[id].seq
    BY <1>2, <2>2
  <2>4. View[id].deleted => shows[id] = 0
    BY <2>2
  <2>5. ~View[id].deleted =>
           IF dim = 0 THEN dimOf[View[id].seq] = 0
           ELSE dimOf[View[id].seq] = dim => shows[id] = View[id].seq
    BY <1>5, <2>2
  <2> HIDE DEF dim, shows
  <2> QED BY <2>1, <2>3, <2>4, <2>5 DEF Reflects
<1> QED BY <1>7, <1>8

-----------------------------------------------------------------------------
(* Every step keeps the invariant. *)

LEMMA IndexedInitInv == IndexedInit => IndexedInv
<1> SUFFICES ASSUME IndexedInit PROVE IndexedInv
  OBVIOUS
<1>1. TypeOK
  BY TypeInit DEF IndexedInit, TypeInv
<1>2. pc = "down"
  BY DEF IndexedInit, Init
<1> QED BY <1>1, <1>2 DEF IndexedInit, IndexedInv, IndexedTypeOK, Ahead, ParamsInv, NoIndex

(* What is on the way to be written is newer than what is seen.            *)
LEMMA AheadStep ==
  ASSUME TypeInv, TypeInv', EngineInv, SurvivalInv, Ahead, pc # "down",
         Write \/ EngineAlone \/ CompactReturns
  PROVE  Ahead'
<1> SUFFICES ASSUME pc' \in {"append", "apply"}, NEW k \in DOMAIN op'.recs
             PROVE  View'[op'.recs[k].id].seq < op'.recs[k].seq
  BY DEF Ahead
<1>1. op'.recs[k].id \in RecordId /\ View'[op'.recs[k].id] = View[op'.recs[k].id]
  <2>1. op'.recs \in Seq(Record)
    BY DEF TypeInv, TypeOK, Op
  <2>2. op'.recs[k] \in Record
    BY <2>1
  <2>3. op'.recs[k].id \in RecordId
    BY <2>2 DEF Record
  <2> QED BY <2>3, ViewKept
<1>2. CASE Write
  <2>1. PICK recs \in Seq(Record) :
          /\ BeginWrite(recs)
          /\ \A j \in DOMAIN recs : recs[j].seq \in (seq + 1)..(seq + Len(recs))
    BY <1>2, WriteBegins DEF TypeInv
  <2>2. op'.recs = recs
    BY <2>1 DEF BeginWrite, NoOp
  <2>3. View[op'.recs[k].id].seq <= seq /\ View[op'.recs[k].id].seq \in Nat
    BY <1>1, ViewCounted, ViewSlot DEF TypeInv
  <2>4. seq \in Nat
    BY TypeNumbers DEF TypeInv, Numbers
  <2>5. op'.recs[k].seq \in (seq + 1)..(seq + Len(recs))
    BY <2>1, <2>2
  <2>6. Len(recs) \in Nat
    BY <2>1
  <2> QED BY <1>1, <2>3, <2>4, <2>5, <2>6
<1>3. CASE pc = "append" /\ op'.recs = op.recs
  BY <1>1, <1>3 DEF Ahead
<1> QED BY <1>2, <1>3, ViewKept

(* Steps that leave index and dimensions alone.                            *)
LEMMA SameIndex ==
  ASSUME IndexedInv, TypeInv', Ahead',
         dimOf' = dimOf, index' = index, paramVars' = paramVars,
         pc' = "down" => index = NoIndex,
         index # NoIndex => \A id \in RecordId : View'[id] = View[id]
  PROVE  IndexedInv'
<1>1. IndexedTypeOK'
  BY DEF IndexedInv, IndexedTypeOK, TypeInv, paramVars, Index
<1>2. ParamsInv'
  BY DEF IndexedInv, ParamsInv, paramVars, NoIndex
<1>3. index' # NoIndex => \A id \in RecordId : Reflects(index, id, View[id])'
  BY DEF IndexedInv, Reflects, NoIndex
<1> QED BY <1>1, <1>2, <1>3 DEF IndexedInv, NoIndex

(* The vectors of a write are those of new sequence numbers: what is seen  *)
(* keeps the dimensions it had.                                            *)
LEMMA WriteVectorsInv ==
  ASSUME TypeInv, TypeInv', EngineInv, SurvivalInv, IndexedInv, WriteVectors
  PROVE  IndexedInv'
<1>1. /\ Write /\ index' = index /\ index_params' = index_params /\ asked' = asked
      /\ dimOf' \in [1..MaxSeq -> Dims \cup {0}]
      /\ \A s \in 1..MaxSeq : dimOf'[s] = dimOf[s] \/ Carries(s)'
  BY DEF WriteVectors, paramVars
<1>2. PICK recs \in Seq(Record) :
        /\ BeginWrite(recs)
        /\ \A j \in DOMAIN recs : recs[j].seq \in (seq + 1)..(seq + Len(recs))
  BY <1>1, WriteBegins DEF TypeInv
<1>3. op'.recs = recs /\ pc = "idle" /\ pc' = "append"
  BY <1>2 DEF BeginWrite, NoOp, Goto
<1>4. seq \in Nat /\ Len(recs) \in Nat
  BY <1>2, TypeNumbers DEF TypeInv, Numbers
<1>5. \A s \in 1..MaxSeq : s <= seq => dimOf'[s] = dimOf[s]
  <2> SUFFICES ASSUME NEW s \in 1..MaxSeq, s <= seq, Carries(s)' PROVE FALSE
    BY <1>1
  <2>1. PICK i \in DOMAIN recs : recs[i].seq = s
    BY <1>3 DEF Carries
  <2> QED BY <1>2, <1>4, <2>1
<1>6. Ahead' /\ \A id \in RecordId : View'[id] = View[id]
  BY <1>1, <1>3, AheadStep, ViewKept DEF IndexedInv
<1>7. IndexedTypeOK' /\ ParamsInv'
  BY <1>1, <1>3 DEF IndexedInv, IndexedTypeOK, ParamsInv, TypeInv, Index, NoIndex
<1>8. ASSUME index # NoIndex, NEW id \in RecordId PROVE Reflects(index, id, View[id])'
  <2>1. Reflects(index, id, View[id])
    BY <1>8 DEF IndexedInv
  <2>2. ~View[id].deleted => dimOf'[View[id].seq] = dimOf[View[id].seq]
    BY <1>3, <1>4, <1>5, ViewSlot, ViewCounted DEF TypeInv
  <2> QED BY <1>1, <1>6, <2>1, <2>2 DEF Reflects
<1> QED BY <1>1, <1>6, <1>7, <1>8 DEF IndexedInv, NoIndex

(* A write applied to memtable and index alike.                            *)
LEMMA ApplyIndexedInv ==
  ASSUME TypeInv, TypeInv', EngineInv, SurvivalInv, IndexedInv, ApplyIndexed
  PROVE  IndexedInv'
<1>1. /\ Apply /\ index' = Indexed(op.recs) /\ dimOf' = dimOf
      /\ index_params' = index_params /\ asked' = asked
      /\ pc = "apply" /\ pc' \in {"idle", "flush"}
  BY DEF ApplyIndexed, Apply, Goto, ReturnOk, paramVars
<1>2. RunningInv /\ TypeOK /\ op.recs \in Seq(Record)
  BY DEF SurvivalInv, TypeInv, TypeOK, Op
<1>3. Ahead'
  BY <1>1 DEF Ahead
<1>4. CASE index = NoIndex
  <2>1. index' = NoIndex
    BY <1>1, <1>4 DEF Indexed
  <2> QED BY <1>1, <1>3, <1>4, <2>1
          DEF IndexedInv, IndexedTypeOK, ParamsInv, TypeInv, NoIndex, Index
<1>5. CASE index # NoIndex
  <2>1. index' = IndexAll(index, op.recs) /\ index \in Index
    BY <1>1, <1>5 DEF Indexed, IndexedInv, IndexedTypeOK
  <2>2. View \in Layer
    <3>1. \A id \in RecordId : View[id] \in Slot
      BY <1>2, ViewSlot
    <3> QED BY <3>1 DEF View, Merge, Layer
  <2>3. /\ index' \in Index /\ index'.metric = index.metric
        /\ \A id \in RecordId :
              /\ Writes(op.recs, id) = {} => Reflects(index', id, View[id])
              /\ \A k \in Writes(op.recs, id) : (\A j \in Writes(op.recs, id) : j <= k) =>
                    Reflects(index', id, SlotOf(op.recs[k]))
    <3>1. \A k \in DOMAIN op.recs : View[op.recs[k].id].seq < op.recs[k].seq
      BY <1>1 DEF IndexedInv, Ahead
    <3>2. \A j, k \in DOMAIN op.recs : j < k => op.recs[j].seq < op.recs[k].seq
      BY <1>2 DEF RunningInv
    <3>3. /\ dimOf \in [1..MaxSeq -> Dims \cup {0}]
          /\ \A id \in RecordId : Reflects(index, id, View[id])
      BY <1>5 DEF IndexedInv, IndexedTypeOK
    <3> QED BY <1>2, <2>1, <2>2, <3>1, <3>2, <3>3, BatchReflects
  <2>4. ASSUME NEW id \in RecordId PROVE Reflects(index', id, View'[id])
    <3> DEFINE w == Winner(op.recs, id)
    <3>1. CASE Writes(op.recs, id) = {}
      <4>1. View'[id] = View[id]
        BY <1>1, <1>2, <3>1, AppliedView
      <4> QED BY <2>3, <3>1, <4>1
    <3>2. CASE Writes(op.recs, id) # {}
      <4>1. View'[id] = SlotOf(op.recs[w])
        BY <1>1, <1>2, <3>2, AppliedView
      <4>2. /\ w \in DOMAIN op.recs /\ op.recs[w].id = id
            /\ \A k \in Writes(op.recs, id) : k = w \/ k < w
        BY <1>2, <3>2, RunningWinner
      <4>3. w \in Writes(op.recs, id) /\ \A k \in Writes(op.recs, id) : k <= w
        <5>1. w \in Writes(op.recs, id)
          BY <4>2 DEF Writes
        <5>2. DOMAIN op.recs \subseteq Nat
          BY TypeNumbers DEF TypeInv, Numbers
        <5>3. \A k \in Writes(op.recs, id) : k \in Nat
          BY <5>2 DEF Writes
        <5> QED BY <4>2, <5>1, <5>3
      <4> HIDE DEF w
      <4> QED BY <2>3, <4>1, <4>3
    <3> QED BY <3>1, <3>2
  <2>5. \A id \in RecordId : Reflects(index, id, View[id])'
    BY <1>1, <2>4 DEF Reflects
  <2>6. index' # NoIndex /\ index.metric # NoMetric
    BY <2>1, <2>3 DEF Index, NoIndex
  <2>7. IndexedTypeOK'
    BY <1>1, <2>3 DEF IndexedInv, IndexedTypeOK, TypeInv, Index, NoIndex
  <2>8. ParamsInv'
    BY <1>1, <1>5, <2>3, <2>6 DEF IndexedInv, ParamsInv
  <2> QED BY <1>3, <2>5, <2>7, <2>8 DEF IndexedInv
<1> QED BY <1>4, <1>5

(* An index made from a scan, whether asked for or after a compaction.     *)
LEMMA FreshIndex ==
  ASSUME TypeInv, TypeInv', IndexedInv, Ahead', NEW m \in Metric,
         dimOf' = dimOf, index' = Built(m), index_params' = m, asked' = m,
         pc' # "down", \A id \in RecordId : View'[id] = View[id]
  PROVE  IndexedInv'
<1>1. /\ Built(m) \in Index /\ Built(m).metric = m
      /\ \A id \in RecordId : Reflects(Built(m), id, View[id])
  BY BuiltReflects DEF TypeInv, IndexedInv, IndexedTypeOK
<1>2. Built(m) # NoIndex /\ m # NoMetric
  BY <1>1 DEF NoIndex
<1>3. IndexedTypeOK'
  BY <1>1 DEF IndexedInv, IndexedTypeOK, TypeInv, Index, NoIndex
<1>4. ParamsInv'
  BY <1>1, <1>2 DEF ParamsInv, NoIndex
<1>5. \A id \in RecordId : Reflects(index, id, View[id])'
  BY <1>1 DEF Reflects
<1> QED BY <1>3, <1>4, <1>5 DEF IndexedInv

LEMMA BuildIndexInv ==
  ASSUME TypeInv, TypeInv', IndexedInv, NEW name \in Metric \cup {NoMetric},
         BuildIndex(name)
  PROVE  IndexedInv'
<1>1. /\ dimOf' = dimOf /\ index' = Built(ParseMetric(name))
      /\ index_params' = ParseMetric(name) /\ asked' = ParseMetric(name)
      /\ pc' = "idle"
      /\ \A id \in RecordId : View'[id] = View[id]
  BY DEF BuildIndex, vars, memVars, View, Levels
<1>2. ParseMetric(name) \in Metric
  BY DEF ParseMetric
<1>3. Ahead'
  BY <1>1 DEF Ahead
<1> HIDE DEF BuildIndex
<1> QED BY <1>1, <1>2, <1>3, FreshIndex

(* A compaction that gets to its end rebuilds the index there is, by the   *)
(* metric it was built with.                                               *)
LEMMA CompactReturnsInv ==
  ASSUME TypeInv, TypeInv', EngineInv, SurvivalInv, IndexedInv, CompactReturns
  PROVE  IndexedInv'
<1>1. /\ index' = Rebuilt /\ dimOf' = dimOf /\ paramVars' = paramVars
      /\ pc # "down" /\ pc' = "idle"
  BY DEF CompactReturns, NothingToMerge, CompactDone, ReturnOk, paramVars
<1>2. Ahead' /\ \A id \in RecordId : View'[id] = View[id]
  BY <1>1, ViewKept DEF Ahead
<1>3. CASE index_params = NoMetric
  BY <1>1, <1>2, <1>3, SameIndex DEF Rebuilt
<1>4. CASE index_params # NoMetric
  <2>1. index_params \in Metric /\ asked = index_params
    BY <1>4 DEF IndexedInv, IndexedTypeOK, ParamsInv
  <2> QED BY <1>1, <1>2, <1>4, <2>1, FreshIndex DEF Rebuilt, paramVars
<1> QED BY <1>3, <1>4

LEMMA EngineAloneInv ==
  ASSUME TypeInv, TypeInv', EngineInv, SurvivalInv, IndexedInv, EngineAlone
  PROVE  IndexedInv'
<1>1. dimOf' = dimOf /\ index' = index /\ paramVars' = paramVars
  BY DEF EngineAlone
<1>2. CASE pc # "down"
  <2>1. Ahead' /\ pc' # "down" /\ \A id \in RecordId : View'[id] = View[id]
    BY <1>2, AheadStep, ViewKept DEF IndexedInv
  <2> QED BY <1>1, <2>1, SameIndex
<1>3. CASE pc = "down"
  <2>1. Open \/ OpenFails
    <3>1. ~(AppendFrame \/ AppendFails \/ Sync \/ SyncFails \/ Flush \/ Compact)
      BY <1>3 DEF AppendFrame, AppendFails, Sync, SyncFails, Flush, Compact, Begin
    <3>2. ~FlushStep
      BY <1>3 DEF FlushStep, FlushNothing, FlushWrite, FlushWriteFails, Install,
         InstallFails, WalClear, WalClearFails
    <3>3. ~(MergeTables \/ MergeFails \/ Swap \/ SwapFails \/ RemoveOld \/ RemoveFails)
      BY <1>3 DEF MergeTables, MergeFails, Swap, SwapFails, RemoveOld, RemoveFails
    <3> QED BY <3>1, <3>2, <3>3 DEF EngineAlone
  <2>2. pc' \in {"down", "idle"}
    BY <1>3, <2>1 DEF Open, OpenFails, vars
  <2>3. index = NoIndex
    BY <1>3 DEF IndexedInv, ParamsInv
  <2>4. Ahead'
    BY <2>2 DEF Ahead
  <2> QED BY <1>1, <2>3, <2>4, SameIndex
<1> QED BY <1>2, <1>3

(* A restart starts without an index.                                      *)
LEMMA CrashIndexedInv ==
  ASSUME TypeInv', IndexedInv, CrashIndexed
  PROVE  IndexedInv'
<1>1. /\ index' = NoIndex /\ index_params' = NoMetric /\ asked' = NoMetric
      /\ dimOf' = dimOf /\ pc' = "down"
  BY DEF CrashIndexed, Crash
<1> QED BY <1>1 DEF IndexedInv, IndexedTypeOK, TypeInv, ParamsInv, Ahead, NoIndex, Index

(* Steps that change nothing.                                              *)
LEMMA IndexedStutter ==
  ASSUME IndexedInv, UNCHANGED allVars
  PROVE  IndexedInv'
<1>1. /\ dimOf' = dimOf /\ index' = index /\ index_params' = index_params
      /\ asked' = asked /\ pc' = pc /\ op' = op /\ View' = View
      /\ TypeOK' <=> TypeOK
  BY DEF allVars, paramVars, vars, memVars, diskVars, walVars, obsVars, View, Levels,
     TypeOK, WalTypeOK
<1> QED BY <1>1 DEF IndexedInv, IndexedTypeOK, ParamsInv, Ahead, Reflects, NoIndex, Index

LEMMA IndexedStep ==
  ASSUME TypeInv, TypeInv', EngineInv, SurvivalInv, IndexedInv, [IndexedNext]_allVars
  PROVE  IndexedInv'
<1>1. CASE \E name \in Metric \cup {NoMetric} : BuildIndex(name)
  BY <1>1, BuildIndexInv
<1>2. CASE Search \/ UNCHANGED allVars
  BY <1>2, IndexedStutter DEF Search
<1> QED BY <1>1, <1>2, WriteVectorsInv, EngineAloneInv, ApplyIndexedInv,
           CompactReturnsInv, CrashIndexedInv DEF IndexedNext

-----------------------------------------------------------------------------
(* Through updates, deletes, batches, flushes, compactions, rebuilds,      *)
(* failures and restarts, the index reflects what a scan of the store      *)
(* would find (IndexedInv), torn frames or not.                            *)
THEOREM IndexReflectsStore ==
  ASSUME MaxSst < NameLimit
  PROVE  IndexedSpec => []IndexedInv
<1> DEFINE Inv == TypeInv /\ EngineInv /\ SurvivalInv /\ IndexedInv
<1>1. IndexedInit => Inv
  BY TypeInit, InvInit, SurvivalInit, IndexedInitInv DEF IndexedInit
<1>2. Inv /\ [IndexedNext]_allVars => Inv'
  BY StepsOfEngine, TypeStep, InvStep, SurvivalStep, IndexedStep
<1> QED BY <1>1, <1>2, PTL DEF IndexedSpec

(* The index shows no record that a scan does not, and none in a version   *)
(* newer than it, whichever write failed or was cut off.                   *)
THEOREM IndexNeverShowsGhosts ==
  ASSUME MaxSst < NameLimit
  PROVE  IndexedSpec => []NoGhosts
<1>1. IndexedInv => NoGhosts
  BY DEF IndexedInv, NoGhosts, Shows, Reflects
<1> QED BY <1>1, IndexReflectsStore, PTL

(* A record whose vector has the dimension of the index is found with this *)
(* vector: only one of another dimension can be missing or stale.          *)
THEOREM MatchingVectorsAreFound ==
  ASSUME MaxSst < NameLimit
  PROVE  IndexedSpec => []OnlyMismatchesStale
<1>1. IndexedInv => OnlyMismatchesStale
  BY DEF IndexedInv, OnlyMismatchesStale, Shows, Reflects
<1> QED BY <1>1, IndexReflectsStore, PTL

(* A search measures by the metric last asked for, however often the index *)
(* was rebuilt since (engine.rs:67-71).                                    *)
THEOREM AskedMetricAlwaysHolds ==
  ASSUME MaxSst < NameLimit
  PROVE  IndexedSpec => []AskedMetricHolds
<1>1. IndexedInv => AskedMetricHolds
  BY DEF IndexedInv, ParamsInv, AskedMetricHolds
<1> QED BY <1>1, IndexReflectsStore, PTL
=============================================================================
