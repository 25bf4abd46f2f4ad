------------------------------ MODULE TableFile ------------------------------
(***************************************************************************)
(* The inside of a table of src/sstable.rs: an index sorted by id, whose   *)
(* entries point into one blob of metadata and one of vectors, and the     *)
(* reader that binary-searches the index and cuts the blobs up again.      *)
(*                                                                         *)
(* The vector blob is a sequence of floats, of 4 bytes each; offsets and   *)
(* lengths are in bytes, as in the file.                                   *)
(***************************************************************************)
EXTENDS Integers, Sequences

CONSTANTS
    TableId,    \* RecordId
    Float,      \* the components of vectors
    Metadata,   \* the metadata maps of records
    NoMetadata, \* the empty map
    Bincode,    \* bincode::serialize: the bytes of each metadata map
    Panic,      \* what slicing beyond the end of a blob comes to
    Corrupt,    \* "corrupt metadata blob in sstable"
    Limit       \* lengths in the index are below this (the code: 2^32)

Byte == UNION {{Bincode[m][i] : i \in DOMAIN Bincode[m]} : m \in Metadata}

(* Even the empty map has bytes: its length.  No two maps have the same.   *)
ASSUME TableAssumption ==
    /\ TableId \subseteq Nat
    /\ Limit \in Nat \ {0} /\ NoMetadata \in Metadata
    /\ \A m \in Metadata : Bincode[m] \in Seq(Byte) /\ Bincode[m] # <<>>
    /\ \A m, n \in Metadata : Bincode[m] = Bincode[n] => m = n

VARIABLES
    rows,           \* the records to write, in the memtable's order
    index,          \* Vec<IndexEntry>
    meta_blob,
    vector_blob

tableVars == <<rows, index, meta_blob, vector_blob>>

Row == [id : TableId, seq : Nat, deleted : BOOLEAN,
        vector : Seq(Float), metadata : Metadata]

IndexEntry ==
    [id : TableId, seq : Nat, deleted : BOOLEAN,
     meta_offset : Nat, meta_len : 0..(Limit - 1),
     vec_offset : Nat, vec_len : 0..(Limit - 1)]

(* What the u32 lengths can express.                                       *)
Storable(r) ==
    Len(Bincode[r.metadata]) < Limit /\ 4 * Len(r.vector) < Limit

TableInit ==
    /\ rows \in {s \in Seq(Row) : \A i \in DOMAIN s : Storable(s[i])}
    /\ index = <<>>
    /\ meta_blob = <<>>
    /\ vector_blob = <<>>

-----------------------------------------------------------------------------
Truncated(n) == IF n < Limit THEN n ELSE n % Limit

(* Mutant: the offsets are taken after the blobs have grown.               *)
EntryAfter(r) ==
    [id |-> r.id, seq |-> r.seq, deleted |-> r.deleted,
     meta_offset |-> Len(meta_blob) + Len(Bincode[r.metadata]),
     meta_len |-> Truncated(Len(Bincode[r.metadata])),
     vec_offset |-> 4 * Len(vector_blob),
     vec_len |-> Truncated(4 * Len(r.vector))]

EntryFor(r) ==
    [id |-> r.id, seq |-> r.seq, deleted |-> r.deleted,
     meta_offset |-> Len(meta_blob),
     meta_len |-> Truncated(Len(Bincode[r.metadata])),
     vec_offset |-> 4 * Len(vector_blob),
     vec_len |-> Truncated(4 * Len(r.vector))]

(* One round of write_sstable's loop.                                      *)
WriteRow ==
    /\ Len(index) < Len(rows)
    /\ LET r == rows[Len(index) + 1]
       IN  /\ index' = Append(index, EntryFor(r))
           /\ meta_blob' = meta_blob \o Bincode[r.metadata]
           /\ vector_blob' = vector_blob \o r.vector
    /\ UNCHANGED rows

TableSpec == TableInit /\ [][WriteRow]_tableVars

-----------------------------------------------------------------------------
(* Reading. *)

(* A range that reaches past the end of a slice panics.                    *)
Slice(blob, from, n) ==
    IF from + n <= Len(blob) THEN SubSeq(blob, from + 1, from + n) ELSE Panic

Deserialize(bytes) ==
    IF \E m \in Metadata : Bincode[m] = bytes
    THEN CHOOSE m \in Metadata : Bincode[m] = bytes
    ELSE Corrupt

Reconstruct(e) ==
    [id |-> e.id, seq |-> e.seq, deleted |-> e.deleted,
     vector |-> Slice(vector_blob, e.vec_offset \div 4, e.vec_len \div 4),
     metadata |-> IF e.meta_len = 0 THEN NoMetadata
                  ELSE Deserialize(Slice(meta_blob, e.meta_offset, e.meta_len))]

(* SSTableReader::iter.                                                    *)
Iter == [i \in DOMAIN index |-> Reconstruct(index[i])]

(* slice::binary_search_by_key: the position of id among the entries from  *)
(* lo up to but not including hi, 0 if it is not there.                    *)
SearchFor(id) ==
    LET probe[part \in (1..Len(index) + 1) \X (1..Len(index) + 1)] ==
            LET lo == part[1]
                hi == part[2]
                mid == (lo + hi) \div 2
            IN  IF lo >= hi THEN 0
                ELSE IF index[mid].id = id THEN mid
                ELSE IF index[mid].id < id THEN probe[<<mid + 1, hi>>]
                ELSE probe[<<lo, mid>>]
    IN  probe[<<1, Len(index) + 1>>]

(* The file: magic, index, metadata and vectors, each of the three behind  *)
(* its length; in bincode an entry of the index takes 41 bytes and its     *)
(* number of entries 8.                                                    *)
Sections ==
    <<4, 8, 8 + 41 * Len(index), 8, Len(meta_blob), 8, 4 * Len(vector_blob)>>

-----------------------------------------------------------------------------
(* Safety. *)

(* Every entry leads back to the record it was written for, while the      *)
(* blobs grow behind it: as long as no record outgrows the u32 lengths,    *)
(* reading the table gives what was written.                               *)
RowsReadBack ==
    \A i \in DOMAIN index : Reconstruct(index[i]) = rows[i]

TableTypeOK ==
    /\ rows \in Seq(Row)
    /\ \A i \in DOMAIN rows : Storable(rows[i])
    /\ index \in Seq(IndexEntry)
    /\ Len(index) <= Len(rows)
    /\ meta_blob \in Seq(Byte)
    /\ vector_blob \in Seq(Float)

(* Where an entry points, its record's bytes are: the strengthening of     *)
(* RowsReadBack the proof needs.                                           *)
Holds(blob, from, n, s) ==
    /\ from \in Nat /\ n = Len(s) /\ from + n <= Len(blob)
    /\ Slice(blob, from, n) = s

PointsAt(e, r) ==
    /\ e.id = r.id /\ e.seq = r.seq /\ e.deleted = r.deleted
    /\ Holds(meta_blob, e.meta_offset, e.meta_len, Bincode[r.metadata])
    /\ Holds(vector_blob, e.vec_offset \div 4, e.vec_len \div 4, r.vector)

TableInv ==
    /\ TableTypeOK
    /\ \A i \in DOMAIN index : PointsAt(index[i], rows[i])
=============================================================================
