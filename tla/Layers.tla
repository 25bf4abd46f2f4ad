------------------------------- MODULE Layers -------------------------------
(***************************************************************************)
(* The data every storage level of the engine is made of: records          *)
(* (src/record.rs), the memtable that buffers them (src/memtable.rs), the  *)
(* immutable tables it is flushed into (src/sstable.rs), and the merge by  *)
(* position that reads, recovery and compaction share (src/engine.rs).     *)
(*                                                                         *)
(* A record's vector and metadata are what its write stored: no property   *)
(* of the storage engine looks inside them, and every write draws a fresh  *)
(* sequence number, so `seq' stands for the payload as well.               *)
(***************************************************************************)
EXTENDS Naturals, Sequences, FiniteSets

CONSTANTS
    RecordId,   \* RecordId (a u64)
    MaxSeq      \* bound: the greatest sequence number (the code: 2^64 - 1)

ASSUME LayersAssumption == IsFiniteSet(RecordId) /\ MaxSeq \in Nat

SeqNo == 0..MaxSeq

Record == [id : RecordId, seq : SeqNo, deleted : BOOLEAN]

LiveRecord(id, seq) == [id |-> id, seq |-> seq, deleted |-> FALSE]

Tombstone(id, seq) == [id |-> id, seq |-> seq, deleted |-> TRUE]

(* What one level answers for one id.  next_seq() starts at 1, so seq 0 is *)
(* never issued and marks an id the level does not hold.                   *)
Slot == [seq : SeqNo, deleted : BOOLEAN]

Absent == [seq |-> 0, deleted |-> TRUE]

SlotOf(r) == [seq |-> r.seq, deleted |-> r.deleted]

Layer == [RecordId -> Slot]

EmptyLayer == [id \in RecordId |-> Absent]

Present(layer, id) == layer[id].seq > 0

Size(layer) == Cardinality({id \in RecordId : Present(layer, id)})

(* What a reader makes of a slot: a tombstone is as good as nothing.       *)
Seen(slot) == IF slot.deleted THEN Absent ELSE slot

-----------------------------------------------------------------------------
(* MemTable::insert: the last writer wins by seq, and at equal seq the one *)
(* inserted later.                                                         *)
Insert(layer, r) ==
    IF layer[r.id].seq > r.seq THEN layer
                               ELSE [layer EXCEPT ![r.id] = SlotOf(r)]

(* The memtable after inserting the records rs one after the other: for    *)
(* each id, the last among those of greatest seq, unless the layer already *)
(* held a later one.                                                       *)
Writes(rs, id) == {i \in DOMAIN rs : rs[i].id = id}

Newest(S) == CHOOSE i \in S : \A j \in S : j <= i

Winner(rs, id) ==
    Newest({i \in Writes(rs, id) :
              \A j \in Writes(rs, id) : rs[j].seq <= rs[i].seq})

InsertAll(layer, rs) ==
    [id \in RecordId |->
        IF \E i \in Writes(rs, id) : rs[i].seq >= layer[id].seq
        THEN SlotOf(rs[Winner(rs, id)])
        ELSE layer[id]]

-----------------------------------------------------------------------------
(* Levels stacked oldest first: a later level's entry replaces an earlier  *)
(* one's, whatever their seqs.                                             *)
Holders(layers, id) == {i \in DOMAIN layers : Present(layers[i], id)}

Merge(layers) ==
    [id \in RecordId |->
        IF Holders(layers, id) = {}
        THEN Absent
        ELSE layers[Newest(Holders(layers, id))][id]]
=============================================================================
