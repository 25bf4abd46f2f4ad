------------------------------- MODULE Ingest -------------------------------
(***************************************************************************)
(* The way of a bulk insert through the formats of NeuraStore: the client  *)
(* encodes records (client.py), the server parses and validates the body   *)
(* and hands the records to put_batch (bin/server.rs), the memtable is     *)
(* written to a table and the table is opened again (sstable.rs), and a    *)
(* record is looked up and answered as JSON.                               *)
(*                                                                         *)
(* BatchParser says what the parser does to any body.  Here most bodies    *)
(* are what a client sent, possibly cut off on the way or with bytes       *)
(* behind, so the spans the parser finds can be compared with the fields   *)
(* that were encoded.                                                      *)
(***************************************************************************)
EXTENDS BatchParser, TableFile, Layers

CONSTANTS
    Text,       \* metadata as it is sent: its length in bytes and its JSON
    NaN,        \* the component no JSON number stands for
    MaxBatch,   \* bound: records in a batch
    MaxDim      \* bound: components of a vector

(* In JSON a map holds one value here; none of its entries matter more     *)
(* than one does.  `empty' is {} or no bytes at all.                       *)
JsonKind == {"empty", "string", "integer", "float", "bool", "null", "malformed"}

ASSUME IngestAssumption ==
    /\ RecordId = TableId
    /\ \A t \in Text : t.len \in 0..(U32 - 1) /\ t.json.kind \in JsonKind
    /\ MaxBatch \in Nat /\ MaxBatch < MaxSeq /\ MaxBatch < U32
    /\ MaxDim \in Nat /\ MaxDim < U32

VARIABLES
    sent,       \* the batch the client encoded, NoBatch for other senders
    status,     \* the server's answer
    stored,     \* put_batch's entries; the i-th drew sequence number i
    gone,       \* the ids a later request deleted
    memtable,
    file        \* the table's file: its length, and has it been opened?

ingestVars == <<parserVars, tableVars, sent, status, stored, gone, memtable, file>>

-----------------------------------------------------------------------------
(* The client. *)

NoBatch == <<>>

Sent(dim) == [id : RecordId, vector : [1..dim -> Float], text : Text]

(* _encode_binary_batch takes the dimension from the first record, which   *)
(* has to exist, and raises when another record's vector differs.          *)
Batches ==
    UNION {UNION {[1..n -> Sent(dim)] : n \in 1..MaxBatch} : dim \in 0..MaxDim}

Dim(b) == Len(b[1].vector)

(* Where the fields of its i-th record lie: record by record, field by     *)
(* field.                                                                  *)
WidthOf(r) == 8 + 4 * Len(r.vector) + 4 + r.text.len

StartOf(b, i) ==
    LET start[k \in 1..Len(b) + 1] ==
            IF k = 1 THEN 12 ELSE start[k - 1] + WidthOf(b[k - 1])
    IN  start[i]

Layout(b, i) ==
    LET s == StartOf(b, i)
        v == s + 8 + 4 * Dim(b)
    IN  [id |-> <<s, s + 8>>, vector |-> <<s + 8, v>>, length |-> <<v, v + 4>>,
         meta |-> <<v + 4, v + 4 + b[i].text.len>>]

EncodedSize(b) == StartOf(b, Len(b) + 1)

(* Whose field this is, if it is one.                                      *)
Owners(field, span) == {i \in DOMAIN sent : Layout(sent, i)[field] = span}

Honest == sent # NoBatch

-----------------------------------------------------------------------------
(* JSON at the border. *)

Malformed(json) == json.kind = "malformed"

(* json_to_metadata_value: integers and floats become one f64.             *)
Supported(json) == json.kind \in {"empty", "string", "integer", "float", "bool"}

ToMetadata(json) ==
    CASE json.kind = "empty" -> NoMetadata
      [] json.kind \in {"integer", "float"} -> [kind |-> "number", val |-> json.val]
      [] OTHER -> json

(* Every supported text stands for some metadata map, and no u32 length of *)
(* a table overflows: a body is at most 50 MiB (build_router), and bincode *)
(* writes no more than a few bytes for each byte of JSON.                  *)
ASSUME SizeAssumption ==
    /\ \A t \in Text : Supported(t.json) => ToMetadata(t.json) \in Metadata
    /\ BodyLimit < Limit
    /\ \A m \in Metadata : Len(Bincode[m]) < Limit

(* metadata_value_to_json, and serde_json for floats: null for NaN.        *)
FromMetadata(m) ==
    CASE m = NoMetadata -> [kind |-> "empty", val |-> 0]
      [] m # NoMetadata /\ m.kind = "number" -> [m EXCEPT !.kind = "float"]
      [] OTHER -> m

Shown(vector) == [i \in DOMAIN vector |-> IF vector[i] = NaN THEN "null" ELSE vector[i]]

-----------------------------------------------------------------------------
(* What put_batch_impl asks of the records it is given ...                 *)
Acceptable(b) ==
    /\ b # <<>>
    /\ \A i \in DOMAIN b : b[i].vector # <<>>
    /\ \A i \in DOMAIN b : Supported(b[i].text.json)

(* Mutant: the copy of the check for empty vectors was forgotten.          *)
AcceptableNoVectorCheck(b) ==
    b # <<>> /\ \A i \in DOMAIN b : Supported(b[i].text.json)

(* ... and put_batch_binary_impl of those the parser found.                *)
AcceptableBinary(b) ==
    /\ b # <<>>
    /\ \A i \in DOMAIN b : b[i].vector # <<>>
    /\ \A i \in DOMAIN b : Supported(b[i].text.json)

Entries(b) ==
    [i \in DOMAIN b |-> [id |-> b[i].id, vector |-> b[i].vector,
                         metadata |-> ToMetadata(b[i].text.json)]]

(* The same batch through the JSON endpoint, as far as JSON can carry it.  *)
Expressible(b) ==
    \A i \in DOMAIN b : \A k \in DOMAIN b[i].vector : b[i].vector[k] # NaN

ViaJson(b) ==
    IF (\A i \in DOMAIN b : ~Malformed(b[i].text.json)) /\ Acceptable(b)
    THEN [status |-> "Created", stored |-> Entries(b)]
    ELSE [status |-> "BadRequest", stored |-> <<>>]

(* put_record_impl: a single record, in a request of its own.              *)
PutRecord(r) ==
    IF ~Malformed(r.text.json) /\ r.vector # <<>> /\ Supported(r.text.json)
    THEN [status |-> "Created", stored |-> Entries(<<r>>)]
    ELSE [status |-> "BadRequest", stored |-> <<>>]

-----------------------------------------------------------------------------
IngestInit ==
    /\ \/ /\ sent \in Batches
          /\ body \in [size : {n \in 0..BodyLimit : n <= EncodedSize(sent) + 1},
                       magic : {TRUE}, count : {Len(sent)}, dim : {Dim(sent)}]
       \/ /\ sent = NoBatch
          /\ body \in Body
    /\ cursor = 0
    /\ phase = "header"
    /\ spans = Nowhere
    /\ meta_len = 0
    /\ records = <<>>
    /\ rows = <<>> /\ index = <<>> /\ meta_blob = <<>> /\ vector_blob = <<>>
    /\ status = "none"
    /\ stored = <<>>
    /\ gone = {}
    /\ memtable = EmptyLayer
    /\ file = [size |-> 0, open |-> FALSE]

(* What the bytes at the cursor say, if the client put a field there.      *)
AsEncoded ==
    /\ phase = "length" /\ phase' = "meta" =>
          \A i \in Owners("length", <<cursor, cursor + 4>>) : meta_len' = sent[i].text.len
    /\ phase = "meta" =>
          \A i \in Owners("meta", <<cursor, cursor + meta_len>>) :
              (phase' = "BadMetadata") <=> Malformed(sent[i].text.json) /\ Fits(meta_len)

Parse ==
    /\ ParserNext
    /\ AsEncoded
    /\ UNCHANGED <<tableVars, sent, status, stored, gone, memtable, file>>

-----------------------------------------------------------------------------
(* The parsed records, when every span is a field the client encoded.      *)
Aligned(rec) == \A f \in Field : Owners(f, rec[f]) # {}

Decoded ==
    [k \in DOMAIN records |->
        LET field(f) == CHOOSE i \in Owners(f, records[k][f]) : TRUE
        IN  [id |-> sent[field("id")].id, vector |-> sent[field("vector")].vector,
             text |-> sent[field("meta")].text]]

Answer(code) ==
    /\ status' = code
    /\ UNCHANGED <<parserVars, tableVars, sent, gone, file>>

(* put_batch_binary_impl: a parse error or a record that is not acceptable *)
(* refuses the whole batch before the engine sees any of it.               *)
PutBatchBinary ==
    /\ Honest /\ status = "none"
    /\ phase \in Ended
    /\ IF phase = "ok" /\ AcceptableBinary(Decoded)
       THEN /\ stored' = Entries(Decoded)
            /\ memtable' = InsertAll(EmptyLayer,
                  [i \in DOMAIN stored' |-> LiveRecord(stored'[i].id, i)])
            /\ Answer("Created")
       ELSE UNCHANGED <<stored, memtable>> /\ Answer("BadRequest")

(* A later request deletes a record, which leaves a tombstone.             *)
Delete(id) ==
    /\ status = "Created" /\ gone = {} /\ rows = <<>>
    /\ memtable' = Insert(memtable, Tombstone(id, Len(stored) + 1))
    /\ gone' = {id}
    /\ UNCHANGED <<parserVars, tableVars, sent, status, stored, file>>

-----------------------------------------------------------------------------
(* flush(): iter_all gives write_sstable the records in id order.          *)
RowOf(id) ==
    LET slot == memtable[id]
        e == stored[slot.seq]
    IN  [id |-> id, seq |-> slot.seq, deleted |-> slot.deleted,
         vector |-> IF slot.deleted THEN <<>> ELSE e.vector,
         metadata |-> IF slot.deleted THEN NoMetadata ELSE e.metadata]

Held == {id \in RecordId : Present(memtable, id)}

(* Mutant: the records are written in the order they were put in.          *)
InsertionOrder ==
    {ids \in [1..Cardinality(Held) -> Held] :
        \A i, j \in DOMAIN ids : i < j => memtable[ids[i]].seq < memtable[ids[j]].seq}

(* The sequences, there is one, in which a BTreeMap gives what it holds.   *)
IdOrder ==
    {ids \in [1..Cardinality(Held) -> Held] :
        \A i, j \in DOMAIN ids : i < j => ids[i] < ids[j]}

BeginFlush ==
    /\ status = "Created" /\ rows = <<>>
    /\ \E ids \in IdOrder : rows' = [i \in DOMAIN ids |-> RowOf(ids[i])]
    /\ UNCHANGED <<parserVars, index, meta_blob, vector_blob, sent, status, stored,
                   gone, memtable, file>>

FlushRow ==
    /\ WriteRow
    /\ UNCHANGED <<parserVars, sent, status, stored, gone, memtable, file>>

(* Where the first k sections end.                                         *)
EndOf(k) ==
    LET end[n \in 0..Len(Sections)] == IF n = 0 THEN 0 ELSE end[n - 1] + Sections[n]
    IN  end[k]

FileSize == EndOf(Len(Sections))

(* The file is complete, and renamed, before anything reads it; after that *)
(* only the medium can shorten it.                                         *)
FinishFile ==
    /\ rows # <<>> /\ Len(index) = Len(rows)
    /\ file.size = 0
    /\ \E n \in {FileSize, FileSize - 1, 4} : file' = [size |-> n, open |-> FALSE]
    /\ UNCHANGED <<parserVars, tableVars, sent, status, stored, gone, memtable>>

(* SSTableReader::open takes section after section; one that is not whole  *)
(* is SSTableError::Truncated.                                             *)
Whole == \A k \in DOMAIN Sections : EndOf(k) <= file.size

OpenTable ==
    /\ file.size > 0 /\ ~file.open
    /\ Whole
    /\ file' = [file EXCEPT !.open = TRUE]
    /\ memtable' = EmptyLayer
    /\ LET missing == FileSize - file.size
       IN  vector_blob' = SubSeq(vector_blob, 1, (4 * Len(vector_blob) - missing) \div 4)
    /\ UNCHANGED <<parserVars, rows, index, meta_blob, sent, status, stored, gone>>

Rest ==
    /\ \/ phase \in Ended /\ ~Honest
       \/ status = "BadRequest"
       \/ file.size > 0 /\ (file.open \/ ~Whole)
    /\ UNCHANGED ingestVars

IngestNext ==
    \/ Parse \/ PutBatchBinary
    \/ \E id \in RecordId : Delete(id)
    \/ BeginFlush \/ FlushRow \/ FinishFile \/ OpenTable \/ Rest

IngestSpec == IngestInit /\ [][IngestNext]_ingestVars

-----------------------------------------------------------------------------
(* Looking a record up, and get_record's answer.                           *)
NotFound == [error |-> "record not found"]

Response(r) ==
    IF r.deleted THEN NotFound
    ELSE [id |-> r.id, vector |-> Shown(r.vector), metadata |-> FromMetadata(r.metadata)]

TableLookup(id) ==
    LET pos == SearchFor(id)
    IN  IF pos = 0 THEN NotFound ELSE Response(Reconstruct(index[pos]))

GetRecord(id) ==
    IF file.open THEN TableLookup(id)
    ELSE IF Present(memtable, id) THEN Response(RowOf(id)) ELSE NotFound

-----------------------------------------------------------------------------
(* Safety. *)

(* What the parser makes of a whole batch is the batch: the offsets the    *)
(* client lays its fields out at and those the server computes from its    *)
(* own cursor agree (the format is written down twice, in two languages).  *)
ParsedIsSent ==
    Honest /\ phase = "ok" =>
        (\A k \in DOMAIN records : Aligned(records[k])) /\ Decoded = sent

(* A body that was cut off on the way is refused as a whole, whichever     *)
(* field the cut falls into, and the record the error names is the first   *)
(* that did not arrive.                                                    *)
CutIsRefused ==
    Honest /\ body.size < EncodedSize(sent) =>
        /\ phase # "ok" /\ stored = <<>>
        /\ phase = "Truncated" =>
              /\ StartOf(sent, Len(records) + 1) <= body.size
              /\ StartOf(sent, Len(records) + 2) > body.size

(* The two bulk endpoints agree on what they accept and on what they       *)
(* store, wherever JSON can say the same as the binary format, and with    *)
(* the records put one by one, save that a batch is refused as a whole.    *)
BinaryMatchesJson ==
    Honest /\ body.size >= EncodedSize(sent) /\ Expressible(sent) /\ status # "none" =>
        LET json == ViaJson(sent)
        IN  /\ stored = json.stored
            /\ (status = "BadRequest") <=> (json.status = "BadRequest")
            /\ (status = "Created") <=>
                  \A i \in DOMAIN sent : PutRecord(sent[i]).status = "Created"
            /\ status = "Created" =>
                  /\ Len(stored) = Len(sent)
                  /\ \A i \in DOMAIN sent : PutRecord(sent[i]).stored = <<stored[i]>>

(* A record is answered as it was sent last, integers as floats, from the  *)
(* memtable as from the table it was flushed to, and one deleted since is  *)
(* not found in either.                                                    *)
Latest(id) == Newest(Writes(sent, id))

Expected(id) ==
    IF Writes(sent, id) = {} \/ id \in gone THEN NotFound
    ELSE LET r == sent[Latest(id)]
         IN  [id |-> id, vector |-> Shown(r.vector),
              metadata |-> FromMetadata(ToMetadata(r.text.json))]

ServedAsSent ==
    status = "Created" => \A id \in RecordId : GetRecord(id) = Expected(id)
=============================================================================
