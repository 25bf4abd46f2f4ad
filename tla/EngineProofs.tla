---------------------------- MODULE EngineProofs ----------------------------
(***************************************************************************)
(* Facts about the operators of Layers, for every set of record ids: what  *)
(* a memtable insertion and a merge by position return.  Then theorems     *)
(* about Engine, for every value of its constants: any number of records,  *)
(* writes, tables, crashes and I/O errors.                                 *)
(***************************************************************************)
EXTENDS Engine, WellFoundedInduction, FiniteSetTheorems, TLAPS

(* A non-empty set of numbers with an upper bound has a greatest element.  *)
LEMMA BoundedHasGreatest ==
  ASSUME NEW n \in Nat, NEW S, S \subseteq 0..n, S # {}
  PROVE  \E x \in S : \A y \in S : y <= x
<1> DEFINE R == StrictSubsetOrdering(0..n)
           Above(x) == (x + 1)..n
           F == {Above(x) : x \in S}
<1>1. IsWellFoundedOn(R, SUBSET (0..n))
  <2>1. IsFiniteSet(0..n)
    BY FS_Interval
  <2>2. IsWellFoundedOn(R, FiniteSubsetsOf(0..n))
    BY FS_StrictSubsetOrderingWellFounded
  <2> QED BY <2>1, <2>2, FS_FiniteSubsetsOfFinite
<1>2. F \subseteq SUBSET (0..n)
  OBVIOUS
<1>3. F # {}
  OBVIOUS
<1>4. PICK t \in F : \A u \in F : ~ (<<u, t>> \in R)
  <2> HIDE DEF R, F
  <2> QED BY <1>1, <1>2, <1>3, WFMin
<1>5. PICK x \in S : t = Above(x)
  OBVIOUS
<1>6. ASSUME NEW y \in S, ~ (y <= x) PROVE FALSE
  <2>1. Above(y) \in F
    OBVIOUS
  <2>2. Above(y) \subseteq Above(x)
    BY <1>6
  <2>3. y \in Above(x) /\ y \notin Above(y)
    BY <1>6
  <2>4. <<Above(y), t>> \in R
    BY <1>2, <1>5, <2>1, <2>2, <2>3 DEF StrictSubsetOrdering
  <2> QED BY <1>4, <2>1, <2>4
<1> QED BY <1>6

(* Newest is that greatest element.                                        *)
LEMMA NewestOfBounded ==
  ASSUME NEW n \in Nat, NEW S, S \subseteq 0..n, S # {}
  PROVE  Newest(S) \in S /\ \A y \in S : y <= Newest(S)
BY BoundedHasGreatest DEF Newest

-----------------------------------------------------------------------------
(* Insertion into the memtable. *)

(* A non-empty batch of writes of an id has a winner: one of them, and     *)
(* none of the others has a greater seq.                                   *)
LEMMA WinnerWins ==
  ASSUME NEW n \in Nat, NEW D, D \subseteq 1..n,
         NEW rs \in [D -> Record], NEW id, Writes(rs, id) # {}
  PROVE  /\ Winner(rs, id) \in Writes(rs, id)
         /\ \A j \in Writes(rs, id) : rs[j].seq <= rs[Winner(rs, id)].seq
<1> DEFINE W == Writes(rs, id)
           Seqs == {rs[i].seq : i \in W}
           Top == {i \in W : \A j \in W : rs[j].seq <= rs[i].seq}
<1>1. W \subseteq D
  BY DEF Writes
<1>2. \A i \in W : rs[i].seq \in 0..MaxSeq
  BY <1>1 DEF Record, SeqNo
<1>3. Seqs \subseteq 0..MaxSeq /\ Seqs # {}
  BY <1>2
<1>4. PICK s \in Seqs : \A y \in Seqs : y <= s
  <2> HIDE DEF Seqs
  <2> QED BY <1>3, BoundedHasGreatest, LayersAssumption
<1>5. Top # {}
  BY <1>4
<1>6. Top \subseteq 0..n
  <2>1. Top \subseteq D
    BY <1>1
  <2>2. D \subseteq 0..n
    OBVIOUS
  <2> QED BY <2>1, <2>2
<1>7. Newest(Top) \in Top
  <2> HIDE DEF Top
  <2> QED BY <1>5, <1>6, NewestOfBounded
<1>8. Winner(rs, id) = Newest(Top)
  BY DEF Winner
<1> QED BY <1>7, <1>8

(* What a batch of insertions leaves in the memtable for an id.            *)
LEMMA InsertAllSlot ==
  ASSUME NEW n \in Nat, NEW D, D \subseteq 1..n,
         NEW rs \in [D -> Record], NEW layer \in Layer, NEW id \in RecordId
  PROVE  LET slot == InsertAll(layer, rs)[id]
         IN  /\ slot \in Slot
             /\ slot.seq >= layer[id].seq
             /\ \A i \in Writes(rs, id) : rs[i].seq <= slot.seq
             /\ \/ slot = layer[id]
                \/ \E i \in Writes(rs, id) : slot = SlotOf(rs[i])
<1> DEFINE slot == InsertAll(layer, rs)[id]
<1>0. /\ layer[id] \in Slot /\ layer[id].seq \in Nat
      /\ \A i \in Writes(rs, id) : rs[i] \in Record /\ rs[i].seq \in Nat
  BY DEF Layer, Writes, Slot, Record, SeqNo
<1>1. CASE \E i \in Writes(rs, id) : rs[i].seq >= layer[id].seq
  <2>1. /\ Winner(rs, id) \in Writes(rs, id)
        /\ \A j \in Writes(rs, id) : rs[j].seq <= rs[Winner(rs, id)].seq
    BY <1>1, WinnerWins
  <2>2. slot = SlotOf(rs[Winner(rs, id)])
    BY <1>1 DEF InsertAll
  <2>3. slot \in Slot /\ slot.seq = rs[Winner(rs, id)].seq
    BY <1>0, <2>1, <2>2 DEF SlotOf, Record, Slot
  <2> QED BY <1>0, <1>1, <2>1, <2>2, <2>3
<1>2. CASE ~ \E i \in Writes(rs, id) : rs[i].seq >= layer[id].seq
  <2>1. slot = layer[id]
    BY <1>2 DEF InsertAll
  <2> QED BY <1>0, <1>2, <2>1
<1> QED BY <1>1, <1>2

(* The memtable after a batch is a layer.                                  *)
LEMMA InsertAllType ==
  ASSUME NEW n \in Nat, NEW D, D \subseteq 1..n,
         NEW rs \in [D -> Record], NEW layer \in Layer
  PROVE  InsertAll(layer, rs) \in Layer
<1>1. \A id \in RecordId : InsertAll(layer, rs)[id] \in Slot
  BY InsertAllSlot
<1> QED BY <1>1 DEF InsertAll, Layer

-----------------------------------------------------------------------------
(* Merging by position. *)

(* For each id, the merge holds what the last level that has it holds.     *)
LEMMA MergeSlot ==
  ASSUME NEW n \in Nat, NEW layers \in [1..n -> Layer], NEW id \in RecordId
  PROVE  LET slot == Merge(layers)[id]
         IN  /\ slot \in Slot
             /\ \/ /\ slot = Absent
                   /\ \A i \in 1..n : ~Present(layers[i], id)
                \/ \E i \in 1..n : /\ Present(layers[i], id)
                                   /\ slot = layers[i][id]
                                   /\ \A j \in 1..n :
                                        Present(layers[j], id) => j <= i
<1> DEFINE H == Holders(layers, id)
<1>1. H = {i \in 1..n : Present(layers[i], id)}
  BY DEF Holders
<1>2. \A i \in 1..n : layers[i][id] \in Slot
  BY DEF Layer
<1>3. CASE H = {}
  BY <1>1, <1>3, LayersAssumption DEF Merge, Absent, Slot, SeqNo
<1>4. CASE H # {}
  <2>1. H \subseteq 0..n
    BY <1>1
  <2>2. Newest(H) \in H /\ \A j \in H : j <= Newest(H)
    <3> HIDE DEF H
    <3> QED BY <1>4, <2>1, NewestOfBounded
  <2>3. Merge(layers)[id] = layers[Newest(H)][id]
    BY <1>4 DEF Merge
  <2> QED BY <1>1, <1>2, <2>2, <2>3
<1> QED BY <1>3, <1>4

(* A merge of layers is a layer.                                           *)
LEMMA MergeType ==
  ASSUME NEW n \in Nat, NEW layers \in [1..n -> Layer]
  PROVE  Merge(layers) \in Layer
<1>1. \A id \in RecordId : Merge(layers)[id] \in Slot
  BY MergeSlot
<1> QED BY <1>1 DEF Merge, Layer

(* A level on top of a stack decides the ids it holds and no others.       *)
LEMMA MergeOnTop ==
  ASSUME NEW n \in Nat, NEW layers \in [1..n -> Layer], NEW top \in Layer,
         NEW id \in RecordId
  PROVE  Merge([i \in 1..(n + 1) |-> IF i <= n THEN layers[i] ELSE top])[id]
            = IF Present(top, id) THEN top[id] ELSE Merge(layers)[id]
<1> DEFINE stack == [i \in 1..(n + 1) |-> IF i <= n THEN layers[i] ELSE top]
           H == Holders(stack, id)
<1>1. /\ DOMAIN stack = 1..(n + 1) /\ stack[n + 1] = top /\ n + 1 \in 1..(n + 1)
      /\ \A i \in 1..n : stack[i] = layers[i] /\ i # n + 1
  OBVIOUS
<1>2. Merge(stack)[id] = IF H = {} THEN Absent ELSE stack[Newest(H)][id]
  BY DEF Merge
<1> HIDE DEF stack
<1>3. H \subseteq 0..(n + 1)
  BY <1>1 DEF Holders
<1>4. CASE Present(top, id)
  <2>1. n + 1 \in H
    BY <1>1, <1>4 DEF Holders
  <2> DEFINE w == Newest(H)
  <2>2. w \in H /\ \A y \in H : y <= w
    BY <1>3, <2>1, NewestOfBounded
  <2>3. w \in 0..(n + 1) /\ n + 1 <= w
    BY <1>3, <2>1, <2>2
  <2>4. H # {}
    BY <2>1
  <2> HIDE DEF w
  <2>5. w = n + 1
    BY <2>3
  <2> QED BY <1>1, <1>2, <1>4, <2>4, <2>5 DEF w, stack
<1>5. CASE ~Present(top, id)
  <2>1. H = Holders(layers, id)
    BY <1>1, <1>5 DEF Holders
  <2>2. CASE H = {}
    BY <1>2, <1>5, <2>1, <2>2 DEF Merge, stack
  <2>3. CASE H # {}
    <3> DEFINE w == Newest(H)
    <3>1. H \subseteq 0..n
      BY <2>1 DEF Holders
    <3>2. w \in H
      BY <2>3, <3>1, NewestOfBounded
    <3>3. w \in 1..n
      BY <2>1, <3>2 DEF Holders
    <3>4. Merge(layers)[id] = layers[w][id]
      BY <2>1, <2>3 DEF Merge
    <3>5. Merge(stack)[id] = stack[w][id]
      BY <1>2, <2>3
    <3> HIDE DEF w
    <3> QED BY <1>1, <1>5, <3>3, <3>4, <3>5 DEF stack
  <2> QED BY <2>2, <2>3
<1> QED BY <1>4, <1>5

(* Merging a merge again changes nothing.                                  *)
LEMMA MergeTwice ==
  ASSUME NEW n \in Nat, NEW layers \in [1..n -> Layer], NEW id \in RecordId
  PROVE  Merge(<<Merge(layers)>>)[id] = Merge(layers)[id]
<1> DEFINE m == Merge(layers)
<1>1. Present(m, id) \/ m[id] = Absent
  BY MergeSlot DEF Present
<1> HIDE DEF m
<1>2. Holders(<<m>>, id) = IF Present(m, id) THEN {1} ELSE {}
  BY DEF Holders
<1>3. Newest({1}) = 1
  BY DEF Newest
<1>4. Merge(<<m>>)[id] = m[id]
  BY <1>1, <1>2, <1>3 DEF Merge
<1> QED BY <1>4 DEF m

(* The empty layer is one.                                                 *)
LEMMA EmptyLayerType == EmptyLayer \in Layer
BY LayersAssumption DEF EmptyLayer, Absent, Layer, Slot, SeqNo

-----------------------------------------------------------------------------

USE LayersAssumption, EngineAssumption

-----------------------------------------------------------------------------
(* Type correctness.  The table a flush or a merge has written but not yet *)
(* opened has a number in range.                                           *)
StepOK ==
    /\ pc = "install" => nextSst \in SstId
    /\ pc = "swap" => nextSst - 1 \in SstId

TypeInv == TypeOK /\ StepOK

(* The types hold of a new engine.                                         *)
LEMMA TypeInit == Init => TypeInv
<1> SUFFICES ASSUME Init PROVE TypeInv
  OBVIOUS
<1>1. WalTypeOK
  BY DEF Init, WalInit, WalTypeOK
<1>2. files \in [SstId -> Layer] /\ memtable \in Layer /\ acked \in Layer
  BY EmptyLayerType DEF Init
<1>3. op \in Op
  BY DEF Init, NoOp, Op
<1>4. /\ onDisk \subseteq SstId /\ pc \in Step /\ sstables \in Seq(Reader)
      /\ nextSst \in Nat \ {0} /\ seq \in SeqNo
  BY DEF Init, Step, SeqNo
<1>6. crashes \in 0..MaxCrashes /\ faults \in 0..MaxFaults
  BY DEF Init
<1>7. limbo \subseteq SUBSET Record /\ tainted \in BOOLEAN
  BY Zenon DEF Init
<1>5. StepOK
  BY DEF Init, StepOK
<1> QED BY <1>1, <1>2, <1>3, <1>4, <1>5, <1>6, <1>7 DEF TypeInv, TypeOK

(* A flush or a compaction that returns, in either way. *)
LEMMA TypeReturn ==
  ASSUME TypeOK
  PROVE  /\ NoOp \in Op
         /\ op \in Op /\ AckedAfter(op) \in Layer
         /\ LimboAfter(op) \subseteq SUBSET Record
<1>1. NoOp \in Op
  BY DEF NoOp, Op
<1>2. op.recs \in [1..Len(op.recs) -> Record] /\ Len(op.recs) \in Nat
  BY DEF TypeOK, Op
<1>3. InsertAll(acked, op.recs) \in Layer
  BY <1>2, InsertAllType DEF TypeOK
<1>4. AckedAfter(op) \in Layer
  BY <1>3 DEF AckedAfter, TypeOK
<1>5. {op.recs[i] : i \in DOMAIN op.recs} \subseteq Record
  BY <1>2
<1>6. LimboAfter(op) \subseteq SUBSET Record
  BY <1>5 DEF LimboAfter, TypeOK
<1> QED BY <1>1, <1>4, <1>6 DEF TypeOK
(* What a frame adds to the log, whole or torn, keeps its type. *)
LEMMA AppendFrameType ==
  ASSUME WalTypeOK, NEW r \in Record, NEW w \in 1..FrameWords(r),
         log' = Append(log, [rec |-> r, words |-> w]), synced' = synced
  PROVE  WalTypeOK'
<1>1. [rec |-> r, words |-> w] \in Frame
  BY DEF Frame, FrameWords, Record
<1>2. log' \in Seq(Frame) /\ Len(log') = Len(log) + 1
  BY <1>1 DEF WalTypeOK
<1>3. \A i \in DOMAIN log' : log'[i].words <= FrameWords(log'[i].rec)
  BY <1>1, <1>2 DEF WalTypeOK
<1> QED BY <1>2, <1>3 DEF WalTypeOK

(* And so does what a crash takes from it. *)
LEMMA LoseUnsyncedType ==
  ASSUME WalTypeOK, LoseUnsynced
  PROVE  WalTypeOK'
<1>0. log \in Seq(Frame) /\ synced \in 0..Len(log) /\ Len(log) \in Nat
  BY DEF WalTypeOK
<1>1. CASE \E n \in synced..Len(log) : log' = SubSeq(log, 1, n)
  <2>1. PICK n \in synced..Len(log) : log' = SubSeq(log, 1, n)
    BY <1>1
  <2>2. /\ log' \in Seq(Frame) /\ Len(log') = n
        /\ \A i \in 1..n : log'[i] = log[i]
    BY <1>0, <2>1
  <2>3. \A i \in DOMAIN log' : log'[i].words <= FrameWords(log'[i].rec)
    BY <1>0, <2>2 DEF WalTypeOK
  <2> QED BY <1>0, <2>2, <2>3 DEF WalTypeOK, LoseUnsynced
<1>2. CASE \E n \in (synced + 1)..Len(log) : \E w \in 1..log[n].words :
             log' = Append(SubSeq(log, 1, n - 1), [log[n] EXCEPT !.words = w])
  <2>0. PICK n \in (synced + 1)..Len(log) : \E w \in 1..log[n].words :
             log' = Append(SubSeq(log, 1, n - 1), [log[n] EXCEPT !.words = w])
    BY <1>2
  <2>1. PICK w \in 1..log[n].words :
             log' = Append(SubSeq(log, 1, n - 1), [log[n] EXCEPT !.words = w])
    BY <2>0
  <2> DEFINE kept == SubSeq(log, 1, n - 1)
             cut == [log[n] EXCEPT !.words = w]
  <2>2. n \in 1..Len(log) /\ log[n] \in Frame /\ n - 1 \in 0..Len(log)
    BY <1>0
  <2>3. /\ kept \in Seq(Frame) /\ Len(kept) = n - 1
        /\ \A i \in 1..(n - 1) : kept[i] = log[i]
    BY <1>0, <2>2
  <2>4. log[n].words \in 1..4 /\ log[n].words <= FrameWords(log[n].rec)
    BY <1>0, <2>2 DEF WalTypeOK, Frame
  <2>5. /\ cut \in Frame /\ cut.rec = log[n].rec
        /\ cut.words <= FrameWords(cut.rec)
    <3>1. w \in 1..4 /\ w <= FrameWords(log[n].rec) /\ FrameWords(log[n].rec) \in Nat
      BY <2>4 DEF FrameWords
    <3> QED BY <2>2, <3>1 DEF Frame
  <2> HIDE DEF kept, cut
  <2>6. log' = Append(kept, cut)
    BY <2>1 DEF kept, cut
  <2>7. /\ log' \in Seq(Frame) /\ Len(log') = n
        /\ \A i \in 1..(n - 1) : log'[i] = kept[i]
        /\ log'[n] = cut
    BY <2>2, <2>3, <2>5, <2>6
  <2>8. \A i \in DOMAIN log' : log'[i].words <= FrameWords(log'[i].rec)
    BY <1>0, <2>2, <2>3, <2>5, <2>7 DEF WalTypeOK
  <2> QED BY <1>0, <2>7, <2>8 DEF WalTypeOK, LoseUnsynced
<1> QED BY <1>1, <1>2 DEF LoseUnsynced

(* What open() reads back has the type of what was written. *)
LEMMA ReplayedType ==
  ASSUME WalTypeOK
  PROVE  /\ Readable \subseteq 1..Len(log) /\ Len(log) \in Nat
         /\ [i \in Readable |-> log[i].rec] \in [Readable -> Record]
         /\ Replayed \in Layer
<1>1. Readable \subseteq 1..Len(log) /\ Len(log) \in Nat
  BY DEF Readable, WalTypeOK
<1>2. [i \in Readable |-> log[i].rec] \in [Readable -> Record]
  <2>1. \A i \in Readable : log[i] \in Frame
    BY <1>1 DEF WalTypeOK
  <2>2. \A i \in Readable : log[i].rec \in Record
    BY <2>1 DEF Frame
  <2> QED BY <2>2
<1>3. Replayed \in Layer
  BY <1>1, <1>2, InsertAllType, EmptyLayerType DEF Replayed
<1> QED BY <1>1, <1>2, <1>3
-----------------------------------------------------------------------------
(* Every step keeps the types. *)
ObsOK ==
    /\ acked \in Layer
    /\ limbo \subseteq SUBSET Record
    /\ tainted \in BOOLEAN
    /\ crashes \in 0..MaxCrashes
    /\ faults \in 0..MaxFaults

(* A change of program counter keeps it one.                               *)
LEMMA GotoType ==
  ASSUME TypeOK, NEW step \in Step, Goto(step)
  PROVE  pc' = step /\ pc' \in Step /\ ObsOK'
BY DEF Goto, TypeOK, ObsOK, obsVars

(* A successful return acknowledges records of the right type.             *)
LEMMA ReturnOkType ==
  ASSUME TypeOK, ReturnOk
  PROVE  pc' = "idle" /\ pc' \in Step /\ op' \in Op /\ ObsOK'
BY TypeReturn DEF ReturnOk, TypeOK, ObsOK, Step

(* A failing return moves the records to limbo.                            *)
LEMMA ReturnErrType ==
  ASSUME TypeOK, ReturnErr
  PROVE  pc' = "idle" /\ pc' \in Step /\ op' \in Op /\ ObsOK'
<1>1. faults' \in 0..MaxFaults
  BY DEF ReturnErr, TypeOK
<1> QED BY <1>1, TypeReturn DEF ReturnErr, TypeOK, ObsOK, Step

(* A flush returns, or goes on to the merge it is part of.                 *)
LEMMA AfterFlushType ==
  ASSUME TypeOK, AfterFlush
  PROVE  pc' \in {"idle", "merge"} /\ pc' \in Step /\ op' \in Op /\ ObsOK'
<1>1. CASE op.kind = "compact"
  BY <1>1, GotoType DEF AfterFlush, TypeOK, Step
<1>2. CASE op.kind # "compact"
  BY <1>2, ReturnOkType DEF AfterFlush
<1> QED BY <1>1, <1>2

(* The start of a write numbers records within the bound.                  *)
LEMMA BeginWriteType ==
  ASSUME TypeInv, NEW recs \in Seq(Record), BeginWrite(recs)
  PROVE  TypeInv'
<1>1. op' \in Op
  <2>1. op' = [kind |-> "write", recs |-> recs, next |-> 1, doomed |-> <<>>]
    BY DEF BeginWrite, NoOp
  <2> QED BY <2>1 DEF Op
<1>2. seq' \in SeqNo
  BY DEF BeginWrite, SeqNo, TypeInv, TypeOK
<1>3. pc' = "append" /\ pc' \in Step /\ ObsOK'
  BY GotoType DEF BeginWrite, TypeInv, Step
<1> QED BY <1>1, <1>2, <1>3
        DEF BeginWrite, TypeInv, TypeOK, StepOK, ObsOK, WalTypeOK, diskVars, walVars

(* A put, a delete or a batch begins a write of records with the next      *)
(* sequence numbers.                                                       *)
LEMMA WriteBegins ==
  ASSUME TypeOK, Write
  PROVE  \E recs \in Seq(Record) :
            /\ BeginWrite(recs)
            /\ \A k \in DOMAIN recs : recs[k].seq \in (seq + 1)..(seq + Len(recs))
            /\ \A k \in DOMAIN recs : recs[k].seq = seq + k
<1>0. seq \in SeqNo /\ seq \in Nat
  BY DEF TypeOK, SeqNo
<1> DEFINE Fine(recs) ==
             /\ recs \in Seq(Record)
             /\ BeginWrite(recs)
             /\ \A k \in DOMAIN recs : recs[k].seq \in (seq + 1)..(seq + Len(recs))
             /\ \A k \in DOMAIN recs : recs[k].seq = seq + k
<1>1. ASSUME NEW id \in RecordId, Put(id) PROVE Fine(<<LiveRecord(id, seq + 1)>>)
  <2>1. seq + 1 <= MaxSeq
    BY <1>1 DEF Put, BeginWrite
  <2>2. LiveRecord(id, seq + 1) \in Record
    BY <1>0, <2>1 DEF LiveRecord, Record, SeqNo
  <2> QED BY <1>0, <1>1, <2>2 DEF Put, LiveRecord
<1>2. ASSUME NEW id \in RecordId, Delete(id) PROVE Fine(<<Tombstone(id, seq + 1)>>)
  <2>1. seq + 1 <= MaxSeq
    BY <1>2 DEF Delete, BeginWrite
  <2>2. Tombstone(id, seq + 1) \in Record
    BY <1>0, <2>1 DEF Tombstone, Record, SeqNo
  <2> QED BY <1>0, <1>2, <2>2 DEF Delete, Tombstone
<1>3. ASSUME NEW n \in 0..MaxBatch, NEW ids \in [1..n -> RecordId], PutBatch(ids)
      PROVE  Fine([i \in DOMAIN ids |-> LiveRecord(ids[i], seq + i)])
  <2> DEFINE recs == [i \in DOMAIN ids |-> LiveRecord(ids[i], seq + i)]
  <2>1. n \in Nat /\ recs = [i \in 1..n |-> LiveRecord(ids[i], seq + i)]
    OBVIOUS
  <2>2. Len(recs) = n
    BY <2>1
  <2>3. seq + n <= MaxSeq /\ BeginWrite(recs)
    BY <1>3, <2>2 DEF PutBatch, BeginWrite
  <2>4. \A i \in 1..n : LiveRecord(ids[i], seq + i) \in Record
    BY <1>0, <2>1, <2>3 DEF LiveRecord, Record, SeqNo
  <2>5. recs \in Seq(Record)
    BY <2>1, <2>4
  <2>6. \A k \in DOMAIN recs : recs[k].seq \in (seq + 1)..(seq + Len(recs))
                                /\ recs[k].seq = seq + k
    BY <1>0, <2>1, <2>2 DEF LiveRecord
  <2> QED BY <2>3, <2>5, <2>6
<1> QED BY <1>1, <1>2, <1>3 DEF Write

(* put, put_batch and delete start with types intact.                      *)
LEMMA WriteType ==
  ASSUME TypeInv, Write
  PROVE  TypeInv'
<1>1. PICK recs \in Seq(Record) : BeginWrite(recs)
  BY WriteBegins DEF TypeInv
<1> QED BY <1>1, BeginWriteType
(* So do the steps of a write: append, sync, apply.                        *)
LEMMA WriteStepType ==
  ASSUME TypeInv, WriteStep
  PROVE  TypeInv'
<1> USE DEF TypeInv, TypeOK, StepOK, ObsOK, memVars
<1>0. /\ op \in Op /\ op.recs \in Seq(Record) /\ op.next \in Nat \ {0}
      /\ op.recs \in [1..Len(op.recs) -> Record] /\ Len(op.recs) \in Nat
  BY DEF Op
<1>1. ASSUME op.next <= Len(op.recs) PROVE op.recs[op.next] \in Record
  BY <1>0, <1>1
<1>2. CASE AppendFrame
  <2>1. pc' = "append" /\ pc' \in Step /\ ObsOK'
    BY <1>2, GotoType DEF AppendFrame, Step
  <2>2. WalTypeOK'
    <3> DEFINE r == op.recs[op.next]
    <3>1. r \in Record
      BY <1>1, <1>2 DEF AppendFrame
    <3>2. FrameWords(r) \in 1..FrameWords(r)
      BY DEF FrameWords
    <3>3. log' = Append(log, [rec |-> r, words |-> FrameWords(r)]) /\ synced' = synced
      BY <1>2 DEF AppendFrame, WriteFrame
    <3> HIDE DEF r
    <3> QED BY <3>1, <3>2, <3>3, AppendFrameType
  <2>3. op' \in Op
    <3>1. op.next + 1 \in Nat \ {0}
      BY <1>0
    <3>2. op' = [op EXCEPT !.next = op.next + 1]
      BY <1>2 DEF AppendFrame
    <3> QED BY <1>0, <3>1, <3>2 DEF Op
  <2> QED BY <1>2, <2>1, <2>2, <2>3 DEF AppendFrame
<1>3. CASE AppendFails
  <2>1. pc' = "idle" /\ pc' \in Step /\ op' \in Op /\ ObsOK'
    BY <1>3, ReturnErrType DEF AppendFails
  <2>2. WalTypeOK'
    <3> DEFINE r == op.recs[op.next]
    <3>1. r \in Record
      BY <1>1, <1>3 DEF AppendFails
    <3>2. PICK w \in 0..(FrameWords(r) - 1) :
             log' = IF w = 0 THEN log ELSE Append(log, [rec |-> r, words |-> w])
      BY <1>3 DEF AppendFails, TearFrame
    <3>3. synced' = synced
      BY <1>3 DEF AppendFails, TearFrame
    <3>4. CASE w = 0
      BY <3>2, <3>3, <3>4 DEF WalTypeOK
    <3>5. CASE w # 0
      <4>1. w \in 1..FrameWords(r)
        BY <3>2, <3>5 DEF FrameWords
      <4>2. log' = Append(log, [rec |-> r, words |-> w])
        BY <3>2, <3>5
      <4> HIDE DEF r
      <4> QED BY <3>1, <3>3, <4>1, <4>2, AppendFrameType
    <3> QED BY <3>4, <3>5
  <2> QED BY <1>3, <2>1, <2>2 DEF AppendFails
<1>4. CASE Sync
  <2>1. pc' = "apply" /\ pc' \in Step /\ ObsOK'
    BY <1>4, GotoType DEF Sync, Step
  <2>2. WalTypeOK'
    BY <1>4 DEF Sync, SyncData, WalTypeOK
  <2> QED BY <1>4, <2>1, <2>2 DEF Sync
<1>5. CASE SyncFails
  <2>1. pc' = "idle" /\ pc' \in Step /\ op' \in Op /\ ObsOK'
    BY <1>5, ReturnErrType DEF SyncFails
  <2> QED BY <1>5, <2>1 DEF SyncFails, diskVars, walVars, WalTypeOK
<1>6. CASE Apply
  <2>1. memtable' \in Layer
    BY <1>0, <1>6, InsertAllType DEF Apply
  <2>2. pc' \in {"flush", "idle"} /\ pc' \in Step /\ op' \in Op /\ ObsOK'
    <3>1. CASE Size(memtable') >= FlushThreshold
      BY <1>6, <3>1, GotoType DEF Apply, Step
    <3>2. CASE ~(Size(memtable') >= FlushThreshold)
      BY <1>6, <3>2, ReturnOkType DEF Apply
    <3> QED BY <3>1, <3>2
  <2> QED BY <1>6, <2>1, <2>2 DEF Apply, diskVars, walVars, WalTypeOK
<1> QED BY <1>2, <1>3, <1>4, <1>5, <1>6 DEF WriteStep

(* So do the steps of a flush.                                             *)
LEMMA FlushStepType ==
  ASSUME TypeInv, Flush \/ Compact \/ FlushStep
  PROVE  TypeInv'
<1> USE DEF TypeInv, TypeOK, StepOK, ObsOK, memVars
<1>1. ASSUME NEW kind \in {"flush", "compact"}, Begin(kind) PROVE TypeInv'
  <2>1. op' \in Op
    <3>1. op' = [kind |-> kind, recs |-> <<>>, next |-> 1, doomed |-> <<>>]
      BY <1>1 DEF Begin, NoOp
    <3> QED BY <3>1 DEF Op
  <2>2. pc' = "flush" /\ pc' \in Step /\ ObsOK'
    BY <1>1, GotoType DEF Begin, Step
  <2> QED BY <1>1, <2>1, <2>2 DEF Begin, diskVars, walVars, WalTypeOK
<1>2. CASE FlushNothing
  BY <1>2, AfterFlushType DEF FlushNothing, diskVars, walVars, WalTypeOK
<1>3. CASE FlushWrite
  <2>1. pc' = "install" /\ pc' \in Step /\ ObsOK'
    BY <1>3, GotoType DEF FlushWrite, Step
  <2>2. nextSst \in SstId /\ files' \in [SstId -> Layer] /\ onDisk' \subseteq SstId
    BY <1>3 DEF FlushWrite, WriteSst, SstId
  <2> QED BY <1>3, <2>1, <2>2 DEF FlushWrite, WriteSst, walVars, WalTypeOK
<1>4. CASE FlushWriteFails
  BY <1>4, ReturnErrType DEF FlushWriteFails, diskVars, walVars, WalTypeOK
<1>5. CASE Install
  <2>1. pc' = "walclear" /\ pc' \in Step /\ ObsOK'
    BY <1>5, GotoType DEF Install, Step
  <2>2. sstables' \in Seq(Reader)
    <3>1. [name |-> nextSst, recs |-> files[nextSst]] \in Reader
      BY <1>5 DEF Install, Reader
    <3> QED BY <1>5, <3>1 DEF Install
  <2> QED BY <1>5, <2>1, <2>2, EmptyLayerType
          DEF Install, diskVars, walVars, WalTypeOK
<1>6. CASE InstallFails
  BY <1>6, ReturnErrType DEF InstallFails, diskVars, walVars, WalTypeOK
<1>7. CASE WalClear
  <2>1. WalTypeOK'
    BY <1>7 DEF WalClear, Clear, WalTypeOK
  <2> QED BY <1>7, <2>1, AfterFlushType DEF WalClear
<1>8. CASE WalClearFails
  BY <1>8, ReturnErrType DEF WalClearFails, diskVars, walVars, WalTypeOK
<1> QED BY <1>1, <1>2, <1>3, <1>4, <1>5, <1>6, <1>7, <1>8
        DEF Flush, Compact, FlushStep

(* So do the steps of a compaction.                                        *)
LEMMA CompactStepType ==
  ASSUME TypeInv, CompactStep
  PROVE  TypeInv'
<1> USE DEF TypeInv, TypeOK, StepOK, ObsOK, memVars
<1>0. /\ sstables \in [1..Len(sstables) -> Reader] /\ Len(sstables) \in Nat
      /\ op \in Op /\ op.doomed \in Seq(SstId)
  BY DEF Op
<1>1. CASE NothingToMerge
  BY <1>1, ReturnOkType DEF NothingToMerge, diskVars, walVars, WalTypeOK
<1>2. CASE MergeTables
  <2>1. pc' = "swap" /\ pc' \in Step /\ ObsOK'
    BY <1>2, GotoType DEF MergeTables, Step
  <2>2. Compacted \in Layer
    <3>1. \A i \in 1..Len(sstables) : sstables[i].recs \in Layer
      BY <1>0 DEF Reader
    <3>2. [i \in DOMAIN sstables |-> sstables[i].recs] \in [1..Len(sstables) -> Layer]
      BY <1>0, <3>1
    <3> QED BY <1>0, <3>2, MergeType DEF Compacted
  <2>3. nextSst \in SstId /\ files' \in [SstId -> Layer] /\ onDisk' \subseteq SstId
    BY <1>2, <2>2 DEF MergeTables, WriteSst, SstId
  <2> QED BY <1>2, <2>1, <2>3 DEF MergeTables, WriteSst, walVars, WalTypeOK
<1>3. CASE MergeFails
  BY <1>3, ReturnErrType DEF MergeFails, diskVars, walVars, WalTypeOK
<1>4. CASE Swap
  <2>1. pc' = "remove" /\ pc' \in Step /\ ObsOK'
    BY <1>4, GotoType DEF Swap, Step
  <2>2. sstables' \in Seq(Reader)
    <3>1. [name |-> nextSst - 1, recs |-> files[nextSst - 1]] \in Reader
      BY <1>4 DEF Swap, Reader
    <3> QED BY <1>4, <3>1 DEF Swap
  <2>3. op' \in Op
    <3>1. \A i \in 1..Len(sstables) : sstables[i].name \in SstId
      BY <1>0 DEF Reader
    <3>2. [i \in DOMAIN sstables |-> sstables[i].name] \in Seq(SstId)
      BY <1>0, <3>1
    <3> QED BY <1>0, <1>4, <3>2 DEF Swap, Op
  <2> QED BY <1>4, <2>1, <2>2, <2>3 DEF Swap, diskVars, walVars, WalTypeOK
<1>5. CASE SwapFails
  BY <1>5, ReturnErrType DEF SwapFails, diskVars, walVars, WalTypeOK
<1>6. CASE RemoveOld
  <2>1. pc' = "remove" /\ pc' \in Step /\ ObsOK'
    BY <1>6, GotoType DEF RemoveOld, Step
  <2>2. op' \in Op
    <3>1. Tail(op.doomed) \in Seq(SstId)
      BY <1>0, <1>6 DEF RemoveOld
    <3>2. op' = [op EXCEPT !.doomed = Tail(op.doomed)]
      BY <1>6 DEF RemoveOld
    <3> QED BY <1>0, <3>1, <3>2 DEF Op
  <2>3. files' \in [SstId -> Layer] /\ onDisk' \subseteq SstId
    BY <1>6, EmptyLayerType DEF RemoveOld
  <2> QED BY <1>6, <2>1, <2>2, <2>3 DEF RemoveOld, walVars, WalTypeOK
<1>7. CASE RemoveFails
  <2>1. op' \in Op
    <3>1. Tail(op.doomed) \in Seq(SstId)
      BY <1>0, <1>7 DEF RemoveFails
    <3>2. op' = [op EXCEPT !.doomed = Tail(op.doomed)]
      BY <1>7 DEF RemoveFails
    <3> QED BY <1>0, <3>1, <3>2 DEF Op
  <2>2. faults' \in 0..MaxFaults
    BY <1>7 DEF RemoveFails
  <2> QED BY <1>7, <2>1, <2>2 DEF RemoveFails, diskVars, walVars, WalTypeOK
<1>8. CASE CompactDone
  BY <1>8, ReturnOkType DEF CompactDone, diskVars, walVars, WalTypeOK
<1> QED BY <1>1, <1>2, <1>3, <1>4, <1>5, <1>6, <1>7, <1>8 DEF CompactStep
-----------------------------------------------------------------------------
(* Files in name order. *)
LEMMA LeadingDigitsType ==
  ASSUME NEW n \in Nat
  PROVE  LeadingDigits(n) \in 0..n
<1>1. n \div NameBase \in 0..n
  OBVIOUS
<1> QED BY <1>1 DEF LeadingDigits

(* A non-empty set of files has a last one in name order. *)
LEMMA LastNameExists ==
  ASSUME NEW H, H \subseteq SstId, H # {}
  PROVE  \E n \in H : \A m \in H : m = n \/ NameLess(m, n)
<1> DEFINE Leads == {LeadingDigits(n) : n \in H}
<1>0. MaxSst \in Nat /\ \A n \in H : n \in 1..MaxSst /\ n \in Nat
  BY DEF SstId
<1>1. \A n \in H : LeadingDigits(n) \in 0..MaxSst
  BY <1>0, LeadingDigitsType
<1>2. Leads \subseteq 0..MaxSst /\ Leads # {}
  BY <1>1
<1>3. PICK g \in Leads : \A y \in Leads : y <= g
  <2> HIDE DEF Leads
  <2> QED BY <1>0, <1>2, BoundedHasGreatest
<1> DEFINE T == {n \in H : LeadingDigits(n) = g}
<1>4. T \subseteq 0..MaxSst
  BY <1>0
<1>5. T # {}
  OBVIOUS
<1>6. PICK n \in T : \A m \in T : m <= n
  <2> HIDE DEF T
  <2> QED BY <1>0, <1>4, <1>5, BoundedHasGreatest
<1>7. ASSUME NEW m \in H PROVE m = n \/ NameLess(m, n)
  <2>1. LeadingDigits(m) <= g /\ LeadingDigits(n) = g
    BY <1>3
  <2>2. LeadingDigits(m) \in Nat /\ g \in Nat
    BY <1>1, <1>2
  <2>3. CASE LeadingDigits(m) = g
    <3>1. m <= n
      BY <1>6, <2>3
    <3> QED BY <1>0, <2>1, <2>3, <3>1 DEF NameLess
  <2>4. CASE LeadingDigits(m) # g
    BY <2>1, <2>2, <2>4 DEF NameLess
  <2> QED BY <2>3, <2>4
<1> QED BY <1>7

(* The file that answers for an id is the last one that has it. *)
LEMMA FileSlotIs ==
  ASSUME TypeOK, NEW id \in RecordId
  PROVE  /\ FileSlot(id) \in Slot
         /\ \/ /\ FileSlot(id) = Absent
               /\ \A n \in onDisk : ~Present(files[n], id)
            \/ \E n \in onDisk :
                  /\ Present(files[n], id)
                  /\ FileSlot(id) = files[n][id]
                  /\ \A m \in onDisk :
                       Present(files[m], id) => m = n \/ NameLess(m, n)
<1> DEFINE H == {n \in onDisk : Present(files[n], id)}
           Last(n) == \A m \in H : m = n \/ NameLess(m, n)
<1>1. H \subseteq SstId
  BY DEF TypeOK
<1>2. \A n \in H : files[n][id] \in Slot
  BY <1>1 DEF TypeOK, Layer
<1>3. CASE H = {}
  <2>1. FileSlot(id) = Absent
    BY <1>3 DEF FileSlot
  <2> QED BY <1>3, <2>1 DEF Absent, Slot, SeqNo
<1>4. CASE H # {}
  <2>1. \E n \in H : Last(n)
    BY <1>1, <1>4, LastNameExists
  <2>2. FileSlot(id) = files[CHOOSE n \in H : Last(n)][id]
    BY <1>4 DEF FileSlot
  <2>3. PICK n \in H : Last(n) /\ FileSlot(id) = files[n][id]
    BY <2>1, <2>2
  <2> QED BY <1>2, <2>3
<1> QED BY <1>3, <1>4

(* The memtable that replay builds is a layer.                             *)
LEMMA RecoveredType ==
  ASSUME TypeOK
  PROVE  Recovered \in Layer
<1>1. ASSUME NEW id \in RecordId PROVE Recovered[id] \in Slot
  <2>1. Replayed[id] \in Slot
    BY ReplayedType DEF TypeOK, Layer
  <2> QED BY <2>1, FileSlotIs DEF Recovered
<1> QED BY <1>1 DEF Recovered, Layer

(* The greatest sequence number on the disk, and the greatest file name. *)
LEMMA SeqsOnDiskType ==
  ASSUME TypeOK
  PROVE  /\ Newest(SeqsOnDisk \cup {0}) \in SeqNo
         /\ \A s \in SeqsOnDisk : s <= Newest(SeqsOnDisk \cup {0})
<1> DEFINE S == SeqsOnDisk \cup {0}
<1>1. \A i \in Readable : log[i].rec.seq \in SeqNo
  BY ReplayedType DEF TypeOK, WalTypeOK, Frame, Record
<1>2. \A n \in onDisk, id \in RecordId : files[n][id].seq \in SeqNo
  BY DEF TypeOK, Layer, Slot
<1>3. S \subseteq 0..MaxSeq /\ S # {}
  BY <1>1, <1>2 DEF SeqsOnDisk, SeqNo
<1>4. Newest(S) \in S /\ \A s \in S : s <= Newest(S)
  <2> HIDE DEF S
  <2> QED BY <1>3, NewestOfBounded
<1> QED BY <1>3, <1>4 DEF SeqNo

(* The table number open() computes is above every file's.                 *)
LEMMA FreshNameType ==
  ASSUME TypeOK
  PROVE  FreshName \in Nat \ {0} /\ \A n \in onDisk : n < FreshName
<1> DEFINE S == onDisk \cup {0}
<1>1. S \subseteq 0..MaxSst /\ S # {} /\ MaxSst \in Nat
  BY DEF TypeOK, SstId
<1>2. Newest(S) \in S /\ \A n \in S : n <= Newest(S)
  <2> HIDE DEF S
  <2> QED BY <1>1, NewestOfBounded
<1>3. FreshName = Newest(S) + 1
  BY DEF FreshName
<1>4. Newest(S) \in Nat /\ \A n \in onDisk : n \in Nat /\ n <= Newest(S)
  <2>1. \A n \in S : n \in Nat
    BY <1>1
  <2> HIDE DEF S
  <2>2. onDisk \subseteq S
    BY DEF S
  <2> QED BY <1>2, <2>1, <2>2
<1> HIDE DEF S
<1> QED BY <1>3, <1>4

(* A crash and a recovery keep the types.                                  *)
LEMMA RestartType ==
  ASSUME TypeInv, Restart
  PROVE  TypeInv'
<1> USE DEF TypeInv, TypeOK, StepOK
<1>1. CASE Crash
  <2>1. WalTypeOK'
    BY <1>1, LoseUnsyncedType DEF Crash
  <2>2. crashes' \in 0..MaxCrashes
    BY <1>1 DEF Crash
  <2>3. op' \in Op /\ limbo' \subseteq SUBSET Record /\ memtable' \in Layer
    BY <1>1, TypeReturn, EmptyLayerType DEF Crash
  <2>4. sstables' \in Seq(Reader) /\ seq' \in SeqNo /\ nextSst' \in Nat \ {0}
    BY <1>1 DEF Crash, SeqNo
  <2> QED BY <1>1, <2>1, <2>2, <2>3, <2>4 DEF Crash, Step
<1>2. CASE Open
  <2>1. sstables' \in Seq(Reader)
    <3>1. PICK o \in [1..Cardinality(onDisk) -> onDisk] :
             sstables' = [i \in DOMAIN o |-> [name |-> o[i], recs |-> files[o[i]]]]
      BY <1>2 DEF Open
    <3>2. Cardinality(onDisk) \in Nat
      <4>1. IsFiniteSet(SstId)
        BY FS_Interval DEF SstId
      <4> QED BY <4>1, FS_Subset, FS_CardinalityType
    <3>3. \A i \in 1..Cardinality(onDisk) : [name |-> o[i], recs |-> files[o[i]]] \in Reader
      BY DEF Reader
    <3> QED BY <3>1, <3>2, <3>3
  <2>2. nextSst' \in Nat \ {0} /\ seq' \in SeqNo
    BY <1>2, FreshNameType, SeqsOnDiskType DEF Open
  <2>3. memtable' \in Layer /\ acked' \in Layer
    BY <1>2, ReplayedType, RecoveredType DEF Open
  <2>4. tainted' \in BOOLEAN /\ limbo' \subseteq SUBSET Record
    BY <1>2, Zenon DEF Open
  <2> QED BY <1>2, <2>1, <2>2, <2>3, <2>4
          DEF Open, Step, diskVars, walVars, WalTypeOK
<1>3. CASE OpenFails
  BY <1>3 DEF OpenFails, vars, diskVars, walVars, memVars, obsVars, WalTypeOK
<1> QED BY <1>1, <1>2, <1>3 DEF Restart

(* No step leaves TypeInv.                                                 *)
LEMMA TypeStep == TypeInv /\ [Next]_vars => TypeInv'
<1> SUFFICES ASSUME TypeInv, [Next]_vars PROVE TypeInv'
  OBVIOUS
<1>1. CASE UNCHANGED vars \/ Read
  BY <1>1 DEF Read, vars, diskVars, walVars, memVars, obsVars,
              TypeInv, TypeOK, StepOK, WalTypeOK
<1>2. CASE Next
  BY <1>1, <1>2, WriteType, WriteStepType, FlushStepType, CompactStepType,
     RestartType DEF Next
<1> QED BY <1>1, <1>2

(* The engine's variables always have their types: in particular the log   *)
(* never counts more synced frames than it holds, and a flush or a merge   *)
(* never opens a table number that was not written.                        *)
THEOREM EngineTypeCorrect == Spec => []TypeOK
<1>1. TypeInv => TypeOK
  BY DEF TypeInv
<1> QED BY <1>1, TypeInit, TypeStep, PTL DEF Spec
=============================================================================
