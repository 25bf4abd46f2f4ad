---------------------------- MODULE IngestProofs ----------------------------
(***************************************************************************)
(* Any body: the parser of binary batches stays within it and reads every  *)
(* byte once, whatever it says of its own lengths.  Any table: what is     *)
(* read from it is what was written, for any number of records, any        *)
(* vectors and any metadata.  Any batch of a client: it is parsed as it    *)
(* was sent or refused, the bulk endpoints agree on it, and its records    *)
(* come back as they were sent, from the memtable as from the table.       *)
(***************************************************************************)
EXTENDS Ingest, SequenceTheorems, FiniteSetTheorems, TLAPS

-----------------------------------------------------------------------------
(* The parser. *)

(* No sum of the parser overflows: a u32 length, four times a u32          *)
(* dimension and the size of a body are small beside a usize.              *)
Width == 0..4 * U32 + 8

LEMMA NoOverflow ==
    ASSUME ParserTypeOK, NEW n \in Width
    PROVE  /\ n \in Nat /\ cursor \in Nat /\ body.size \in Nat
           /\ cursor <= body.size
           /\ Wrap(cursor + n) = cursor + n
           /\ Wrap(n) = n
<1>1. /\ cursor \in Nat /\ body.size \in Nat
      /\ cursor <= body.size /\ body.size <= BodyLimit
  BY ParserAssumption DEF ParserTypeOK, Body
<1>2. n \in Nat /\ n <= 4 * U32 + 8
  BY ParserAssumption DEF Width
<1>3. cursor + n < Usize /\ n < Usize
  BY <1>1, <1>2, ParserAssumption
<1> QED BY <1>1, <1>2, <1>3 DEF Wrap

LEMMA FieldWidths ==
    ASSUME ParserTypeOK
    PROVE  8 \in Width /\ 4 \in Width /\ VecBytes \in Width /\ meta_len \in Width
<1>1. /\ body.dim \in Nat /\ body.dim < U32 /\ U32 \in Nat /\ U32 > 0
      /\ meta_len \in Nat /\ meta_len < U32
  BY ParserAssumption DEF ParserTypeOK, Body
<1>2. 8 \in Width /\ 4 \in Width /\ meta_len \in Width /\ 4 * body.dim \in Width
  BY <1>1 DEF Width
<1> QED BY <1>2, NoOverflow DEF VecBytes

(* A field that fits ends in the body, where the cursor goes on.           *)
LEMMA TakeMoves ==
    ASSUME ParserInv, NEW f \in Field, NEW n \in Width, NEW next, Take(f, n, next)
    PROVE  /\ cursor' = cursor + n /\ cursor' \in 0..body.size
           /\ spans' \in [Field -> Nat \X Nat]
           /\ spans'[f][1] = cursor /\ spans'[f][2] = cursor'
           /\ \A g \in Field \ {f} : spans'[g] = spans[g]
           /\ phase = f /\ phase' = next /\ UNCHANGED <<body, records>>
           /\ SpansTile'
<1>1. /\ ParserTypeOK /\ SpansTile /\ phase = f /\ phase' = next
      /\ UNCHANGED <<body, records>>
      /\ spans \in [Field -> Nat \X Nat]
  BY DEF ParserInv, ParserTypeOK, Take
<1>2. /\ cursor \in Nat /\ n \in Nat /\ body.size \in Nat
      /\ cursor' = cursor + n /\ cursor + n <= body.size
      /\ spans' = [spans EXCEPT ![f] = <<cursor, cursor + n>>]
  BY <1>1, NoOverflow DEF Take, Fits, Sliced
<1>3. /\ spans' \in [Field -> Nat \X Nat]
      /\ spans'[f] = <<cursor, cursor + n>>
      /\ \A g \in Field \ {f} : spans'[g] = spans[g]
  BY <1>1, <1>2
<1>4. \A g \in Field : spans'[g][1] <= spans'[g][2] /\ spans'[g][2] <= body.size
  <2> SUFFICES ASSUME NEW g \in Field
               PROVE  spans'[g][1] <= spans'[g][2] /\ spans'[g][2] <= body.size
    OBVIOUS
  <2>1. CASE g = f
    BY <1>2, <1>3, <2>1
  <2>2. CASE g # f
    BY <1>1, <1>3, <2>2 DEF SpansTile
  <2> QED BY <2>1, <2>2
<1>5. SpansTile'
  BY <1>1, <1>4 DEF SpansTile, Tiled, Before
<1> QED BY <1>1, <1>2, <1>3, <1>5

(* Ending the parse moves nothing.                                         *)
LEMMA EndKeepsInv ==
    ASSUME ParserInv, NEW outcome \in Ended, EndWith(outcome)
    PROVE  ParserInv'
<1>1. ParserTypeOK'
  BY DEF ParserInv, ParserTypeOK, EndWith
<1>2. SpansTile' /\ RoundsFitTheBody'
  BY DEF ParserInv, SpansTile, Tiled, Before, RoundsFitTheBody, EndWith
<1>3. CursorKeepsPace'
  BY DEF CursorKeepsPace, EndWith, Ended, Field
<1> QED BY <1>1, <1>2, <1>3 DEF ParserInv

LEMMA HeaderKeepsInv ==
    ASSUME ParserInv, ReadHeader
    PROVE  ParserInv'
<1>1. CASE \E outcome \in Ended : EndWith(outcome)
  BY <1>1, EndKeepsInv
<1>2. CASE /\ body.size >= 12 /\ cursor' = 12 /\ phase' = "id"
           /\ UNCHANGED <<body, spans, meta_len, records>>
  <2>1. records = <<>> /\ Len(records) = 0
    BY DEF ParserInv, CursorKeepsPace, ReadHeader
  <2>2. ParserTypeOK'
    BY <1>2 DEF ParserInv, ParserTypeOK, Body, Field
  <2>3. SpansTile' /\ RoundsFitTheBody'
    BY <1>2 DEF ParserInv, SpansTile, Tiled, Before, RoundsFitTheBody
  <2>4. CursorKeepsPace'
    BY <1>2, <2>1 DEF CursorKeepsPace, Here, Before, Field
  <2> QED BY <2>2, <2>3, <2>4 DEF ParserInv
<1> QED BY <1>1, <1>2 DEF ReadHeader, Ended

LEMMA IdKeepsInv ==
    ASSUME ParserInv, ReadId
    PROVE  ParserInv'
<1>1. CASE Take("id", 8, "vector")
  <2>1. /\ ParserTypeOK /\ CursorKeepsPace /\ "id" \in Field /\ 8 \in Width
    BY FieldWidths DEF ParserInv, Field
  <2>2. /\ cursor' = cursor + 8 /\ cursor' \in 0..body.size
        /\ spans' \in [Field -> Nat \X Nat]
        /\ spans'["id"][1] = cursor /\ spans'["id"][2] = cursor'
        /\ phase = "id" /\ phase' = "vector" /\ UNCHANGED <<body, records>>
        /\ SpansTile'
    BY <1>1, <2>1, TakeMoves
  <2>3. cursor = Here /\ 12 * Len(records) + 12 <= cursor
    BY <2>1, <2>2 DEF CursorKeepsPace, Field
  <2>4. Len(records) \in Nat /\ cursor \in Nat
    BY <2>1, NoOverflow DEF ParserTypeOK
  <2>5. ParserTypeOK'
    BY <2>1, <2>2 DEF ParserTypeOK, ReadId, Field
  <2>6. RoundsFitTheBody'
    BY <2>2 DEF ParserInv, RoundsFitTheBody
  <2>7. CursorKeepsPace'
    <3>1. Here' = Here
      BY <2>2 DEF Here, Before
    <3>2. Len(records') = Len(records)
      BY <2>2
    <3>3. 12 * Len(records) + 20 <= cursor'
      BY <2>2, <2>3, <2>4
    <3> QED BY <2>2, <2>3, <3>1, <3>2, <3>3 DEF CursorKeepsPace, Field
  <2> QED BY <2>2, <2>5, <2>6, <2>7 DEF ParserInv
<1>2. CASE CutOff("id", 8)
  BY <1>2, EndKeepsInv DEF CutOff, Ended
<1> QED BY <1>1, <1>2 DEF ReadId

LEMMA VectorKeepsInv ==
    ASSUME ParserInv, ReadVector
    PROVE  ParserInv'
<1>1. CASE Take("vector", VecBytes, "length")
  <2>1. /\ ParserTypeOK /\ CursorKeepsPace /\ "vector" \in Field
        /\ VecBytes \in Width /\ VecBytes \in Nat
    BY FieldWidths, NoOverflow DEF ParserInv, Field
  <2>2. /\ cursor' = cursor + VecBytes /\ cursor' \in 0..body.size
        /\ spans' \in [Field -> Nat \X Nat]
        /\ spans'["vector"][1] = cursor /\ spans'["vector"][2] = cursor'
        /\ spans'["id"] = spans["id"]
        /\ phase = "vector" /\ phase' = "length" /\ UNCHANGED <<body, records>>
        /\ SpansTile'
    BY <1>1, <2>1, TakeMoves DEF Field
  <2>3. /\ spans["id"][1] = Here /\ spans["id"][2] = cursor
        /\ 12 * Len(records) + 20 <= cursor
    BY <2>1, <2>2 DEF CursorKeepsPace
  <2>4. Len(records) \in Nat /\ cursor \in Nat
    BY <2>1, NoOverflow DEF ParserTypeOK
  <2>5. ParserTypeOK'
    BY <2>1, <2>2 DEF ParserTypeOK, ReadVector, Field
  <2>6. RoundsFitTheBody'
    BY <2>2 DEF ParserInv, RoundsFitTheBody
  <2>7. CursorKeepsPace'
    BY <2>1, <2>2, <2>3, <2>4 DEF CursorKeepsPace, Here, Before, Field
  <2> QED BY <2>2, <2>5, <2>6, <2>7 DEF ParserInv
<1>2. CASE CutOff("vector", VecBytes)
  BY <1>2, EndKeepsInv DEF CutOff, Ended
<1> QED BY <1>1, <1>2 DEF ReadVector

LEMMA LengthKeepsInv ==
    ASSUME ParserInv, ReadLength
    PROVE  ParserInv'
<1>1. CASE Take("length", 4, "meta") /\ meta_len' \in 0..(U32 - 1)
  <2>1. ParserTypeOK /\ CursorKeepsPace /\ "length" \in Field /\ 4 \in Width
    BY FieldWidths DEF ParserInv, Field
  <2>2. /\ cursor' = cursor + 4 /\ cursor' \in 0..body.size
        /\ spans' \in [Field -> Nat \X Nat]
        /\ spans'["length"][1] = cursor /\ spans'["length"][2] = cursor'
        /\ spans'["id"] = spans["id"] /\ spans'["vector"] = spans["vector"]
        /\ phase = "length" /\ phase' = "meta" /\ UNCHANGED <<body, records>>
        /\ SpansTile'
    BY <1>1, <2>1, TakeMoves DEF Field
  <2>3. /\ spans["id"][1] = Here /\ spans["id"][2] = spans["vector"][1]
        /\ spans["vector"][2] = cursor
        /\ 12 * Len(records) + 20 <= cursor
    BY <2>1, <2>2 DEF CursorKeepsPace
  <2>4. Len(records) \in Nat /\ cursor \in Nat
    BY <2>1, NoOverflow DEF ParserTypeOK
  <2>5. ParserTypeOK'
    BY <1>1, <2>1, <2>2 DEF ParserTypeOK, Field
  <2>6. RoundsFitTheBody'
    BY <2>2 DEF ParserInv, RoundsFitTheBody
  <2>7. CursorKeepsPace'
    BY <2>2, <2>3, <2>4 DEF CursorKeepsPace, Here, Before, Field
  <2> QED BY <2>2, <2>5, <2>6, <2>7 DEF ParserInv
<1>2. CASE CutOff("length", 4)
  BY <1>2, EndKeepsInv DEF CutOff, Ended
<1> QED BY <1>1, <1>2 DEF ReadLength

(* The record that is complete lies where the last one ended.              *)
LEMMA MetaKeepsInv ==
    ASSUME ParserInv, ReadMeta
    PROVE  ParserInv'
<1>1. CASE /\ phase = "meta" /\ Fits(meta_len)
           /\ records' = Append(records, Sliced("meta", meta_len))
           /\ cursor' = Wrap(cursor + meta_len)
           /\ phase' = "id" /\ spans' = Nowhere /\ meta_len' = 0
           /\ UNCHANGED body
  <2> DEFINE rec == Sliced("meta", meta_len)
             n   == Len(records)
  <2>1. /\ ParserTypeOK /\ CursorKeepsPace /\ SpansTile
        /\ meta_len \in Width
        /\ records \in Seq([Field -> Nat \X Nat]) /\ n \in Nat
        /\ spans \in [Field -> Nat \X Nat]
    BY FieldWidths DEF ParserInv, ParserTypeOK
  <2>2. /\ cursor' = cursor + meta_len /\ cursor' <= body.size
        /\ meta_len \in Nat /\ cursor \in Nat /\ body.size \in Nat
        /\ rec = [spans EXCEPT !["meta"] = <<cursor, cursor + meta_len>>]
    BY <1>1, <2>1, NoOverflow DEF Fits, Sliced
  <2>3. /\ rec \in [Field -> Nat \X Nat]
        /\ rec["meta"][1] = cursor /\ rec["meta"][2] = cursor'
        /\ rec["id"] = spans["id"] /\ rec["vector"] = spans["vector"]
        /\ rec["length"] = spans["length"]
    BY <2>1, <2>2 DEF Field
  <2>4. /\ spans["id"][1] = Here /\ spans["id"][2] = spans["vector"][1]
        /\ spans["vector"][2] = spans["length"][1]
        /\ spans["length"][2] = cursor
        /\ 12 * n + 24 <= cursor
    BY <1>1, <2>1 DEF CursorKeepsPace
  <2> HIDE DEF rec
  <2>5. /\ records' = Append(records, rec) /\ Len(records') = n + 1
        /\ records' \in Seq([Field -> Nat \X Nat])
        /\ records'[n + 1] = rec
        /\ \A k \in 1..n : records'[k] = records[k]
    BY <1>1, <2>1, <2>3 DEF rec
  <2>6. /\ \A k \in 1..n + 1 : Before(k)' = Before(k)
        /\ Before(n + 1) = Here /\ Here' = cursor'
    <3>1. \A k \in 1..n + 1 : k = 1 \/ k - 1 \in 1..n
      BY <2>1
    <3>2. \A k \in 1..n + 1 : Before(k)' = Before(k)
      BY <2>1, <2>5, <3>1 DEF Before
    <3>3. Here' = records'[n + 1]["meta"][2]
      <4>1. /\ Len(records') = n + 1 /\ n + 1 + 1 # 1 /\ n + 1 + 1 - 1 = n + 1
        BY <2>1, <2>5
      <4> HIDE DEF n
      <4> QED BY <4>1 DEF Before, Here
    <3> QED BY <2>3, <2>5, <3>2, <3>3 DEF Here
  <2>7. ParserTypeOK'
    <3>1. 0 \in 0..(U32 - 1)
      BY ParserAssumption
    <3>2. spans' \in [Field -> Nat \X Nat]
      BY <1>1 DEF Nowhere
    <3>3. cursor' \in 0..body.size
      BY <2>2
    <3> QED BY <1>1, <2>1, <2>5, <3>1, <3>2, <3>3 DEF ParserTypeOK, Field
  <2>8. SpansTile'
    <3>1. \A f \in Field : rec[f][1] <= rec[f][2] /\ rec[f][2] <= body.size
      <4>1. \A f \in Field : spans[f][1] <= spans[f][2] /\ spans[f][2] <= body.size
        BY <2>1 DEF SpansTile
      <4> QED BY <2>2, <2>3, <4>1 DEF Field
    <3>2. Tiled(rec, Here, body.size)
      <4>2. Here = rec["id"][1]
        BY <2>3, <2>4
      <4>3. /\ rec["id"][2] = rec["vector"][1]
            /\ rec["vector"][2] = rec["length"][1]
            /\ rec["length"][2] = rec["meta"][1]
        BY <2>3, <2>4
      <4>4. \A i \in 1..3 : rec[Order[i]][2] = rec[Order[i + 1]][1]
        <5>1. /\ Order[1] = "id" /\ Order[2] = "vector"
              /\ Order[3] = "length" /\ Order[4] = "meta"
          BY DEF Order
        <5>2. \A i \in 1..3 : i = 1 \/ i = 2 \/ i = 3
          OBVIOUS
        <5> QED BY <4>3, <5>1, <5>2
      <4> QED BY <3>1, <4>2, <4>4 DEF Tiled
    <3>3. \A k \in 1..n : Tiled(records[k], Before(k), body.size)
      BY <2>1 DEF SpansTile
    <3>4. \A k \in 1..n + 1 : Tiled(records'[k], Before(k)', body.size)
      <4> SUFFICES ASSUME NEW k \in 1..n + 1
                   PROVE  Tiled(records'[k], Before(k)', body.size)
        OBVIOUS
      <4>1. CASE k = n + 1
        BY <2>5, <2>6, <3>2, <4>1
      <4>2. CASE k \in 1..n
        BY <2>5, <2>6, <3>3, <4>2
      <4> QED BY <2>1, <4>1, <4>2
    <3>5. \A f \in Field : Nowhere[f][1] <= Nowhere[f][2] /\ Nowhere[f][2] <= body.size
      BY <2>2 DEF Nowhere
    <3>6. DOMAIN records' = 1..n + 1
      BY <2>5
    <3> QED BY <1>1, <3>4, <3>5, <3>6 DEF SpansTile
  <2>9. RoundsFitTheBody' /\ CursorKeepsPace'
    <3>1. 12 * Len(records') + 12 <= cursor' /\ 12 * Len(records') <= body.size
      BY <2>1, <2>2, <2>4, <2>5
    <3> QED BY <1>1, <2>6, <3>1 DEF RoundsFitTheBody, CursorKeepsPace, Field
  <2> QED BY <2>7, <2>8, <2>9 DEF ParserInv
<1>2. CASE EndWith("BadMetadata")
  BY <1>2, EndKeepsInv DEF Ended
<1>3. CASE CutOff("meta", meta_len)
  BY <1>3, EndKeepsInv DEF CutOff, Ended
<1> QED BY <1>1, <1>2, <1>3 DEF ReadMeta

LEMMA NextKeepsParser == ParserInv /\ [ParserNext]_parserVars => ParserInv'
<1> SUFFICES ASSUME ParserInv, [ParserNext]_parserVars
             PROVE  ParserInv'
  OBVIOUS
<1>1. CASE Finish
  BY <1>1, EndKeepsInv DEF Finish, Ended
<1>2. CASE UNCHANGED parserVars
  BY <1>2 DEF parserVars, ParserInv, ParserTypeOK, SpansTile, Tiled, Before,
              RoundsFitTheBody, CursorKeepsPace, Here
<1> QED BY <1>1, <1>2, HeaderKeepsInv, IdKeepsInv, VectorKeepsInv, LengthKeepsInv,
           MetaKeepsInv DEF ParserNext

LEMMA InitParser == ParserInit => ParserInv
<1> SUFFICES ASSUME ParserInit
             PROVE  ParserInv
  OBVIOUS
<1>1. body.size \in Nat
  BY DEF ParserInit, Body
<1>2. ParserTypeOK
  BY <1>1, ParserAssumption DEF ParserInit, ParserTypeOK, Nowhere
<1>3. SpansTile /\ RoundsFitTheBody
  BY <1>1 DEF ParserInit, SpansTile, RoundsFitTheBody, Nowhere
<1>4. CursorKeepsPace
  BY DEF ParserInit, CursorKeepsPace, Field
<1> QED BY <1>2, <1>3, <1>4 DEF ParserInv

LEMMA ParserInvariant == ParserSpec => []ParserInv
  BY InitParser, NextKeepsParser, PTL DEF ParserSpec

(* No body makes the parser slice out of bounds, read a byte twice or skip *)
(* one, and however large a record_count a body claims, the loop ends with *)
(* it (src/bin/server.rs:705-756).                                         *)
THEOREM ParserIsContained == ParserSpec => []ParserStaysInBody
<1>1. ParserInv => ParserStaysInBody
  BY DEF ParserInv, ParserStaysInBody
<1> QED BY <1>1, ParserInvariant, PTL

-----------------------------------------------------------------------------
(* The table. *)

(* A blob that grows keeps the slices it had ...                           *)
LEMMA SliceStays ==
    ASSUME NEW S, NEW blob \in Seq(S), NEW more \in Seq(S), NEW s \in Seq(S),
           NEW from, NEW n, Holds(blob, from, n, s)
    PROVE  Holds(blob \o more, from, n, s)
<1>1. /\ from \in Nat /\ n \in Nat /\ n = Len(s) /\ from + n <= Len(blob)
      /\ SubSeq(blob, from + 1, from + n) = s
  BY DEF Holds, Slice
<1>2. /\ blob \o more \in Seq(S)
      /\ Len(blob \o more) = Len(blob) + Len(more)
      /\ \A i \in 1..Len(blob) : (blob \o more)[i] = blob[i]
      /\ Len(blob) \in Nat /\ Len(more) \in Nat
  BY ConcatProperties
<1>3. CASE n = 0
  <2>1. SubSeq(blob \o more, from + 1, from + n) = <<>> /\ s = <<>>
    BY <1>1, <1>3, SubSeqEmpty
  <2> QED BY <1>1, <1>2, <2>1 DEF Holds, Slice
<1>4. CASE n > 0
  <2>1. PICK k \in Nat, l \in Nat : k = Len(blob) /\ l = Len(s)
    BY LenProperties
  <2>2. from + 1 \in 1..k /\ from + n \in 1..k
    BY <1>1, <1>4, <2>1
  <2>3. from + 1 \in 1..Len(blob) /\ from + n \in 1..Len(blob)
    BY <2>1, <2>2
  <2>4. SubSeq(blob \o more, from + 1, from + n) = SubSeq(blob, from + 1, from + n)
    BY <2>3, SubSeqOfConcat1
  <2>5. SubSeq(blob \o more, from + 1, from + n) = s
    BY <1>1, <2>4
  <2>6. from + n <= Len(blob \o more)
    BY <1>1, <1>2
  <2> QED BY <1>1, <2>5, <2>6 DEF Holds, Slice
<1> QED BY <1>1, <1>3, <1>4

(* ... and gains the one that was appended.                                *)
LEMMA SliceAdded ==
    ASSUME NEW S, NEW blob \in Seq(S), NEW s \in Seq(S)
    PROVE  Holds(blob \o s, Len(blob), Len(s), s)
<1>1. Len(blob) \in Nat /\ Len(s) \in Nat /\ Len(blob \o s) = Len(blob) + Len(s)
  BY ConcatProperties
<1>2. SubSeq(blob \o s, Len(blob) + 1, Len(blob) + Len(s)) = s
  <2>1. CASE Len(s) = 0
    <3>1. SubSeq(blob \o s, Len(blob) + 1, Len(blob) + Len(s)) = <<>>
      BY <1>1, <2>1, SubSeqEmpty
    <3> QED BY <2>1, <3>1
  <2>2. CASE Len(s) > 0
    <3>1. /\ Len(blob) + 1 \in Len(blob) + 1 .. Len(blob) + Len(s)
          /\ Len(blob) + Len(s) \in Len(blob) + 1 .. Len(blob) + Len(s)
      BY <1>1, <2>2
    <3>2. SubSeq(blob \o s, Len(blob) + 1, Len(blob) + Len(s)) =
              SubSeq(s, (Len(blob) + 1) - Len(blob), (Len(blob) + Len(s)) - Len(blob))
      BY <3>1, SubSeqOfConcat2
    <3>3. /\ (Len(blob) + 1) - Len(blob) = 1
          /\ (Len(blob) + Len(s)) - Len(blob) = Len(s)
      BY <1>1
    <3>4. SubSeq(s, 1, Len(s)) = s
      BY SubSeqFull
    <3> QED BY <3>2, <3>3, <3>4
  <2> QED BY <1>1, <2>1, <2>2
<1> QED BY <1>1, <1>2 DEF Holds, Slice

(* bincode reads back what it wrote.                                       *)
LEMMA DeserializeInverts ==
    ASSUME NEW m \in Metadata
    PROVE  Deserialize(Bincode[m]) = m
<1>1. \A n \in Metadata : Bincode[n] = Bincode[m] => n = m
  BY TableAssumption
<1> QED BY <1>1 DEF Deserialize

(* An entry that points at its record's bytes reconstructs the record.     *)
LEMMA PointsReadBack ==
    ASSUME NEW e \in IndexEntry, NEW r \in Row, PointsAt(e, r)
    PROVE  Reconstruct(e) = r
<1>1. r.metadata \in Metadata /\ r.vector \in Seq(Float)
  BY DEF Row
<1>2. Bincode[r.metadata] \in Seq(Byte) /\ Bincode[r.metadata] # <<>>
  BY <1>1, TableAssumption
<1>3. /\ e.meta_len = Len(Bincode[r.metadata]) /\ e.meta_len # 0
      /\ Slice(meta_blob, e.meta_offset, e.meta_len) = Bincode[r.metadata]
  BY <1>2, EmptySeq DEF PointsAt, Holds
<1>4. Slice(vector_blob, e.vec_offset \div 4, e.vec_len \div 4) = r.vector
  BY DEF PointsAt, Holds
<1>5. Deserialize(Bincode[r.metadata]) = r.metadata
  BY <1>1, DeserializeInverts
<1>6. Reconstruct(e) = [id |-> r.id, seq |-> r.seq, deleted |-> r.deleted,
                        vector |-> r.vector, metadata |-> r.metadata]
  BY <1>3, <1>4, <1>5 DEF Reconstruct, PointsAt
<1> QED BY <1>6 DEF Row

LEMMA FloatsFromBytes ==
    ASSUME NEW a \in Nat
    PROVE  4 * a \in Nat /\ (4 * a) \div 4 = a
  OBVIOUS

(* A record whose lengths fit the entry's u32 fields is entered truly.     *)
LEMMA EntryIsTrue ==
    ASSUME TableTypeOK, NEW r \in Row, Storable(r)
    PROVE  LET e == EntryFor(r) IN
           /\ e \in IndexEntry
           /\ e.id = r.id /\ e.seq = r.seq /\ e.deleted = r.deleted
           /\ e.meta_offset = Len(meta_blob)
           /\ e.meta_len = Len(Bincode[r.metadata])
           /\ e.vec_offset \div 4 = Len(vector_blob)
           /\ e.vec_len \div 4 = Len(r.vector)
<1>1. r.metadata \in Metadata /\ r.vector \in Seq(Float)
  BY DEF Row
<1>2. Bincode[r.metadata] \in Seq(Byte)
  BY <1>1, TableAssumption
<1>3. /\ Len(Bincode[r.metadata]) \in Nat /\ Len(r.vector) \in Nat
      /\ Len(meta_blob) \in Nat /\ Len(vector_blob) \in Nat
  BY <1>1, <1>2 DEF TableTypeOK
<1>4. /\ Len(Bincode[r.metadata]) < Limit /\ 4 * Len(r.vector) < Limit /\ Limit \in Nat
  BY TableAssumption DEF Storable
<1>5. /\ Truncated(Len(Bincode[r.metadata])) = Len(Bincode[r.metadata])
      /\ Truncated(4 * Len(r.vector)) = 4 * Len(r.vector)
  BY <1>4 DEF Truncated
<1>6. /\ 4 * Len(vector_blob) \in Nat /\ 4 * Len(r.vector) \in Nat
      /\ (4 * Len(vector_blob)) \div 4 = Len(vector_blob)
      /\ (4 * Len(r.vector)) \div 4 = Len(r.vector)
  BY <1>3, FloatsFromBytes
<1>7. /\ Len(Bincode[r.metadata]) \in 0..(Limit - 1)
      /\ 4 * Len(r.vector) \in 0..(Limit - 1)
  BY <1>3, <1>4, <1>6
<1> QED BY <1>3, <1>5, <1>6, <1>7 DEF EntryFor, IndexEntry, Row

(* Writing a record keeps what all earlier entries point at.               *)
LEMMA WriteRowKeepsTable ==
    ASSUME TableInv, WriteRow
    PROVE  TableInv'
<1>1. /\ TableTypeOK /\ rows' = rows
      /\ Len(index) \in Nat /\ Len(index) < Len(rows) /\ Len(rows) \in Nat
      /\ index \in Seq(IndexEntry) /\ rows \in Seq(Row)
      /\ meta_blob \in Seq(Byte) /\ vector_blob \in Seq(Float)
      /\ \A i \in 1..Len(index) : PointsAt(index[i], rows[i])
  BY DEF TableInv, TableTypeOK, WriteRow
<1>2. PICK n \in Nat : n = Len(index)
  BY <1>1
<1>3. PICK r \in Row : r = rows[n + 1] /\ Storable(r)
  BY <1>1, <1>2 DEF TableTypeOK
<1>4. PICK e : e = EntryFor(r)
  OBVIOUS
<1>5. /\ e \in IndexEntry
      /\ e.id = r.id /\ e.seq = r.seq /\ e.deleted = r.deleted
      /\ e.meta_offset = Len(meta_blob)
      /\ e.meta_len = Len(Bincode[r.metadata])
      /\ e.vec_offset \div 4 = Len(vector_blob)
      /\ e.vec_len \div 4 = Len(r.vector)
  BY <1>1, <1>3, <1>4, EntryIsTrue
<1>6. /\ index' = Append(index, e)
      /\ meta_blob' = meta_blob \o Bincode[r.metadata]
      /\ vector_blob' = vector_blob \o r.vector
  BY <1>2, <1>3, <1>4 DEF WriteRow
<1>7. r.vector \in Seq(Float) /\ Bincode[r.metadata] \in Seq(Byte)
  BY <1>3, TableAssumption DEF Row
<1>8. TableTypeOK'
  <2>1. /\ meta_blob' \in Seq(Byte) /\ vector_blob' \in Seq(Float)
    BY <1>1, <1>6, <1>7, ConcatProperties
  <2>2. index' \in Seq(IndexEntry) /\ Len(index') <= Len(rows')
    BY <1>1, <1>5, <1>6
  <2> QED BY <1>1, <2>1, <2>2 DEF TableTypeOK
<1>9. PointsAt(e, r)'
  <2>1. /\ Holds(meta_blob', Len(meta_blob), Len(Bincode[r.metadata]), Bincode[r.metadata])
        /\ Holds(vector_blob', Len(vector_blob), Len(r.vector), r.vector)
    BY <1>1, <1>6, <1>7, SliceAdded
  <2>2. /\ Holds(meta_blob', e.meta_offset, e.meta_len, Bincode[r.metadata])
        /\ Holds(vector_blob', e.vec_offset \div 4, e.vec_len \div 4, r.vector)
    BY <1>5, <2>1
  <2> QED BY <1>5, <2>2 DEF PointsAt
<1>10. ASSUME NEW d, NEW q \in Row, PointsAt(d, q)
       PROVE  PointsAt(d, q)'
  <2>1. q.vector \in Seq(Float) /\ Bincode[q.metadata] \in Seq(Byte)
    BY TableAssumption DEF Row
  <2>2. /\ Holds(meta_blob, d.meta_offset, d.meta_len, Bincode[q.metadata])
        /\ Holds(vector_blob, d.vec_offset \div 4, d.vec_len \div 4, q.vector)
    BY <1>10 DEF PointsAt
  <2>3. Holds(meta_blob', d.meta_offset, d.meta_len, Bincode[q.metadata])
    BY <1>1, <1>6, <1>7, <2>1, <2>2, SliceStays
  <2>4. Holds(vector_blob', d.vec_offset \div 4, d.vec_len \div 4, q.vector)
    BY <1>1, <1>6, <1>7, <2>1, <2>2, SliceStays
  <2> QED BY <1>10, <2>3, <2>4 DEF PointsAt
<1>11. /\ \A i \in 1..n : index'[i] = index[i]
       /\ index'[n + 1] = e
       /\ DOMAIN index' = 1..n + 1
  <2>1. Append(index, e) \in Seq(IndexEntry) /\ Len(Append(index, e)) = n + 1
    BY <1>1, <1>2, <1>5, AppendProperties
  <2>2. DOMAIN Append(index, e) = 1..n + 1
    BY <2>1, LenProperties
  <2>3. /\ \A i \in 1..n : Append(index, e)[i] = index[i]
        /\ Append(index, e)[n + 1] = e
    BY <1>1, <1>2, <1>5, AppendProperties
  <2> QED BY <1>6, <2>2, <2>3
<1>12. ASSUME NEW i \in 1..n + 1
       PROVE  PointsAt(index[i], rows[i])'
  <2>1. CASE i = n + 1
    <3>1. index'[i] = e /\ rows'[i] = r
      BY <1>1, <1>3, <1>11, <2>1
    <3> QED BY <1>9, <3>1 DEF PointsAt
  <2>2. CASE i \in 1..n
    <3>1. index'[i] = index[i] /\ rows'[i] = rows[i]
      BY <1>1, <1>11, <2>2
    <3>2. rows[i] \in Row
      <4>1. i \in 1..Len(rows)
        BY <1>1, <1>2, <2>2
      <4> QED BY <1>1, <4>1
    <3>3. PointsAt(index[i], rows[i])
      BY <1>1, <1>2, <2>2
    <3>4. PICK d : d = index[i]
      OBVIOUS
    <3>5. PICK q \in Row : q = rows[i]
      BY <3>2
    <3>6. PointsAt(d, q)'
      BY <1>10, <3>3, <3>4, <3>5
    <3> QED BY <3>1, <3>4, <3>5, <3>6 DEF PointsAt
  <2> QED BY <1>2, <2>1, <2>2
<1>13. (\A i \in DOMAIN index : PointsAt(index[i], rows[i]))'
  BY <1>11, <1>12
<1> QED BY <1>8, <1>13 DEF TableInv

LEMMA TableInvariant == TableSpec => []TableInv
<1>1. TableInit => TableInv
  BY DEF TableInit, TableInv, TableTypeOK
<1>2. TableInv /\ [WriteRow]_tableVars => TableInv'
  <2>1. TableInv /\ UNCHANGED tableVars => TableInv'
    BY DEF tableVars, TableInv, TableTypeOK, PointsAt
  <2> QED BY <2>1, WriteRowKeepsTable
<1> QED BY <1>1, <1>2, PTL DEF TableSpec

(* While a table is written and ever after, each of its entries gives back *)
(* the record it was written for, vector and metadata included             *)
(* (src/sstable.rs:54-79, 176-198).                                        *)
THEOREM TableReadsBack == TableSpec => []RowsReadBack
<1>1. ASSUME TableInv
      PROVE  RowsReadBack
  <2> SUFFICES ASSUME NEW i \in DOMAIN index
               PROVE  Reconstruct(index[i]) = rows[i]
    BY DEF RowsReadBack
  <2>1. index[i] \in IndexEntry /\ rows[i] \in Row /\ PointsAt(index[i], rows[i])
    BY <1>1 DEF TableInv, TableTypeOK
  <2> QED BY <2>1, PointsReadBack
<1> QED BY <1>1, TableInvariant, PTL

-----------------------------------------------------------------------------
(* The layout of a batch. *)

LEMMA Smallest ==
    ASSUME NEW T \in SUBSET Nat, T # {}
    PROVE  \E x \in T : \A y \in T : x <= y
<1>1. PICK x \in T : \A y \in T : ~ (<<y, x>> \in OpToRel(<, Nat))
  BY NatLessThanWellFounded, WFMin
<1>2. \A y \in T : y < x => <<y, x>> \in OpToRel(<, Nat)
  BY DEF OpToRel
<1>3. \A y \in T : ~(y < x)
  BY <1>1, <1>2, Zenon
<1>4. x \in Nat /\ \A y \in T : y \in Nat
  OBVIOUS
<1> QED BY <1>3, <1>4

(* Step by step from one number to another, for a predicate given as the   *)
(* set of the numbers it holds of.                                         *)
LEMMA Stepwise ==
    ASSUME NEW S, NEW m \in Nat, NEW n \in Nat, m \in S,
           \A i \in m..n : i \in S => i + 1 \in S
    PROVE  \A i \in m..n + 1 : i \in S
<1> DEFINE T == (m..n + 1) \ S
<1>1. SUFFICES ASSUME T # {} PROVE FALSE
  OBVIOUS
<1>2. T \in SUBSET Nat
  OBVIOUS
<1>3. PICK x \in T : \A y \in T : x <= y
  BY <1>1, <1>2, Smallest
<1>4. x # m /\ x \in m..n + 1
  OBVIOUS
<1>5. x - 1 \in m..n /\ x - 1 \in m..n + 1 /\ ~(x <= x - 1) /\ (x - 1) + 1 = x
  BY <1>4
<1> QED BY <1>3, <1>5

(* The batch's fields, one after another: where the i-th record starts.    *)
LEMMA BatchIs ==
    ASSUME NEW b \in Batches
    PROVE  /\ Len(b) \in Nat \ {0} /\ Len(b) <= MaxBatch /\ DOMAIN b = 1..Len(b)
           /\ Dim(b) \in Nat /\ Dim(b) < U32
           /\ \A i \in 1..Len(b) :
                 /\ b[i] = [id |-> b[i].id, vector |-> b[i].vector, text |-> b[i].text]
                 /\ b[i].id \in RecordId /\ b[i].text \in Text
                 /\ b[i].vector \in [1..Dim(b) -> Float] /\ Len(b[i].vector) = Dim(b)
                 /\ b[i].text.len \in Nat /\ b[i].text.len < U32
           /\ b # NoBatch
<1>1. PICK dim \in 0..MaxDim, n \in 1..MaxBatch : b \in [1..n -> Sent(dim)]
  BY DEF Batches
<1>2. n \in Nat \ {0} /\ Len(b) = n /\ DOMAIN b = 1..n /\ n <= MaxBatch /\ dim \in Nat
  BY <1>1, IngestAssumption
<1>3. \A i \in 1..n : /\ b[i] = [id |-> b[i].id, vector |-> b[i].vector, text |-> b[i].text]
                      /\ b[i].id \in RecordId /\ b[i].text \in Text
                      /\ b[i].vector \in [1..dim -> Float] /\ Len(b[i].vector) = dim
  BY <1>1, <1>2 DEF Sent
<1>4. 1 \in 1..n
  BY <1>2
<1>5. Dim(b) = dim
  BY <1>3, <1>4 DEF Dim
<1>6. b # NoBatch
  BY <1>2 DEF NoBatch
<1>7. Dim(b) \in Nat /\ Dim(b) < U32
  BY <1>1, <1>2, <1>5, IngestAssumption, ParserAssumption
<1>8. \A i \in 1..n : b[i].text.len \in Nat /\ b[i].text.len < U32
  <2>1. \A t \in Text : t.len \in Nat /\ t.len < U32
    BY IngestAssumption, ParserAssumption
  <2> QED BY <1>3, <2>1
<1> QED BY <1>2, <1>3, <1>5, <1>6, <1>7, <1>8

LEMMA Starts ==
    ASSUME NEW b \in Batches
    PROVE  /\ StartOf(b, 1) = 12
           /\ \A i \in 1..Len(b) + 1 : StartOf(b, i) \in Nat
           /\ \A i \in 1..Len(b) :
                 StartOf(b, i + 1) = StartOf(b, i) + 8 + 4 * Dim(b) + 4 + b[i].text.len
<1> DEFINE N == Len(b)
           w == [i \in 1..N |-> WidthOf(b[i])]
           From(m) == {f \in [1..m -> Nat] : f[1] = 12 /\ \A i \in 2..m : f[i] = f[i - 1] + w[i - 1]}
           S == {m \in 1..N + 1 : \E f : f \in From(m)}
<1>1. N \in Nat \ {0}
  BY BatchIs
<1>2. w \in [1..N -> Nat]
  <2>1. ASSUME NEW i \in 1..N PROVE WidthOf(b[i]) \in Nat
    <3>1. Len(b[i].vector) \in Nat /\ b[i].text.len \in Nat
      BY BatchIs
    <3> QED BY <3>1 DEF WidthOf
  <2> HIDE DEF N
  <2> QED BY <2>1
<1>3. \A i \in 1..N : WidthOf(b[i]) = w[i] /\ w[i] = 8 + 4 * Dim(b) + 4 + b[i].text.len
  BY BatchIs DEF WidthOf
<1> HIDE DEF w, N
<1>4. 1 \in S
  <2>1. [i \in 1..1 |-> 12] \in From(1)
    OBVIOUS
  <2> QED BY <1>1, <2>1
<1>5. ASSUME NEW m \in 1..N, m \in S PROVE m + 1 \in S
  <2>1. PICK f : f \in From(m)
    BY <1>5
  <2> DEFINE g == [i \in 1..m + 1 |-> IF i = m + 1 THEN f[m] + w[m] ELSE f[i]]
  <2>2. f[m] \in Nat /\ w[m] \in Nat /\ f \in [1..m -> Nat] /\ m \in Nat \ {0}
    BY <1>1, <1>2, <2>1
  <2>3. g \in [1..m + 1 -> Nat]
    BY <2>2
  <2>4. g[1] = 12
    BY <2>1, <2>2
  <2>5. ASSUME NEW i \in 2..m + 1 PROVE g[i] = g[i - 1] + w[i - 1]
    <3>1. CASE i = m + 1
      <4>1. g[i] = f[m] + w[m] /\ g[m] = f[m] /\ i - 1 = m
        BY <2>2, <3>1
      <4> QED BY <4>1
    <3>2. CASE i \in 2..m
      <4>1. g[i] = f[i] /\ g[i - 1] = f[i - 1] /\ f[i] = f[i - 1] + w[i - 1]
        BY <2>1, <2>2, <3>2
      <4> QED BY <4>1
    <3> QED BY <2>2, <3>1, <3>2
  <2> HIDE DEF g
  <2>6. g \in From(m + 1)
    BY <2>3, <2>4, <2>5
  <2> HIDE DEF From
  <2>7. m + 1 \in 1..N + 1
    BY <1>1, <2>2
  <2> QED BY <2>6, <2>7
<1>6. N + 1 \in S
  <2> HIDE DEF S
  <2>1. \A i \in 1..N + 1 : i \in S
    BY <1>1, <1>4, <1>5, Stepwise
  <2> QED BY <1>1, <2>1
<1>7. PICK f : f \in From(N + 1)
  BY <1>6
<1> DEFINE Body_(h) == [k \in 1..N + 1 |-> IF k = 1 THEN 12 ELSE h[k - 1] + WidthOf(b[k - 1])]
<1>8. f = Body_(f)
  <2>1. ASSUME NEW k \in 1..N + 1
        PROVE  f[k] = IF k = 1 THEN 12 ELSE f[k - 1] + WidthOf(b[k - 1])
    <3>1. CASE k # 1
      <4>1. k \in 2..N + 1 /\ k - 1 \in 1..N
        BY <1>1, <3>1
      <4> QED BY <1>3, <1>7, <3>1, <4>1
    <3> QED BY <1>7, <3>1
  <2>2. f = [k \in 1..N + 1 |-> f[k]]
    BY <1>7
  <2> QED BY <2>1, <2>2
<1> DEFINE h == CHOOSE x : x = Body_(x)
<1>9. h = Body_(h)
  <2> HIDE DEF Body_
  <2> QED BY <1>8
<1>10. \A i : StartOf(b, i) = h[i]
  BY DEF StartOf, N
<1> HIDE DEF h
<1>11. h[1] = 12 /\ \A i \in 1..N : h[i + 1] = h[i] + w[i]
  <2>1. h[1] = 12
    BY <1>1, <1>9
  <2>2. ASSUME NEW i \in 1..N PROVE h[i + 1] = h[i] + w[i]
    <3>1. i + 1 \in 1..N + 1 /\ i + 1 # 1 /\ (i + 1) - 1 = i
      BY <1>1
    <3>2. h[i + 1] = h[(i + 1) - 1] + WidthOf(b[(i + 1) - 1])
      BY <1>9, <3>1
    <3> QED BY <1>3, <3>1, <3>2
  <2> QED BY <2>1, <2>2
<1>12. \A i \in 1..N + 1 : h[i] \in Nat
  <2> DEFINE R == {i \in Nat : h[i] \in Nat}
  <2>1. 1 \in R /\ \A i \in 1..N : i \in R => i + 1 \in R
    BY <1>1, <1>2, <1>11
  <2> HIDE DEF R
  <2>2. \A i \in 1..N + 1 : i \in R
    BY <1>1, <2>1, Stepwise
  <2> QED BY <2>2 DEF R
<1>13. \A i \in 1..N : h[i + 1] = h[i] + 8 + 4 * Dim(b) + 4 + b[i].text.len
  <2> SUFFICES ASSUME NEW i \in 1..N
               PROVE  h[i + 1] = h[i] + 8 + 4 * Dim(b) + 4 + b[i].text.len
    OBVIOUS
  <2>1. h[i] \in Nat /\ Dim(b) \in Nat /\ b[i].text.len \in Nat
    <3>1. i \in 1..N + 1
      BY <1>1
    <3> QED BY <1>12, <3>1, BatchIs DEF N
  <2> QED BY <1>3, <1>11, <2>1
<1> QED BY <1>10, <1>11, <1>12, <1>13 DEF N

(* So a record further on starts further on, by the fixed fields at least. *)
LEMMA StartsGrow ==
    ASSUME NEW b \in Batches, NEW i \in 1..Len(b), NEW j \in i + 1..Len(b) + 1
    PROVE  StartOf(b, i + 1) <= StartOf(b, j) /\ StartOf(b, i) + 12 <= StartOf(b, j)
<1> DEFINE S == {n \in Nat : n \in 1..Len(b) + 1 => StartOf(b, i + 1) <= StartOf(b, n)}
<1>1. Len(b) \in Nat \ {0} /\ i \in Nat \ {0} /\ j \in Nat /\ i <= Len(b)
  BY BatchIs
<1>2. i + 1 \in S
  <2>1. i + 1 \in 1..Len(b) + 1
    BY <1>1
  <2>2. StartOf(b, i + 1) \in Nat
    BY <2>1, Starts
  <2> QED BY <1>1, <2>2
<1>3. ASSUME NEW n \in i + 1..Len(b), n \in S PROVE n + 1 \in S
  <2>1. n \in 1..Len(b) /\ n \in 1..Len(b) + 1 /\ n + 1 \in Nat /\ i + 1 \in 1..Len(b) + 1
    BY <1>1
  <2>2. /\ StartOf(b, n) \in Nat /\ StartOf(b, i + 1) \in Nat
        /\ StartOf(b, n + 1) = StartOf(b, n) + 8 + 4 * Dim(b) + 4 + b[n].text.len
    BY <2>1, Starts
  <2>3. Dim(b) \in Nat /\ b[n].text.len \in Nat
    BY <2>1, BatchIs
  <2>4. StartOf(b, i + 1) <= StartOf(b, n)
    BY <1>3, <2>1
  <2>5. StartOf(b, i + 1) <= StartOf(b, n + 1)
    <3>1. \A x, y, z, d, l \in Nat : x <= y /\ z = y + 8 + 4 * d + 4 + l => x <= z
      OBVIOUS
    <3>2. StartOf(b, n + 1) \in Nat
      BY <2>1, Starts
    <3> QED BY <2>2, <2>3, <2>4, <3>1, <3>2
  <2> QED BY <2>1, <2>5
<1>4. j \in S
  <2> HIDE DEF S
  <2>1. i + 1 \in Nat /\ Len(b) \in Nat
    BY <1>1
  <2>2. \A n \in i + 1..Len(b) + 1 : n \in S
    BY <1>2, <1>3, <2>1, Stepwise
  <2> QED BY <2>2
<1>5. j \in 1..Len(b) + 1 /\ i \in 1..Len(b) + 1 /\ i + 1 \in 1..Len(b) + 1
  BY <1>1
<1>6. StartOf(b, i + 1) <= StartOf(b, j)
  BY <1>4, <1>5
<1>7. /\ StartOf(b, i) \in Nat /\ StartOf(b, j) \in Nat /\ StartOf(b, i + 1) \in Nat
      /\ StartOf(b, i + 1) = StartOf(b, i) + 8 + 4 * Dim(b) + 4 + b[i].text.len
      /\ Dim(b) \in Nat /\ b[i].text.len \in Nat
  BY <1>5, Starts, BatchIs
<1>8. \A x, y, z, d, l \in Nat : y <= z /\ y = x + 8 + 4 * d + 4 + l => x + 12 <= z
  OBVIOUS
<1> QED BY <1>6, <1>7, <1>8

-----------------------------------------------------------------------------
(* The parser and the client. *)

At == Len(records) + 1

(* What the client says of its batch, once for all records.                *)
Announced ==
    /\ sent \in Batches /\ body.magic = TRUE
    /\ body.count = Len(sent) /\ body.dim = Dim(sent)

(* The records that were parsed are the first of the batch.                *)
Arrived ==
    \A k \in 1..Len(records) :
        /\ k \in 1..Len(sent) /\ ~Malformed(sent[k].text.json)
        /\ \A f \in Field : records[k][f] = Layout(sent, k)[f]

(* The next one is found where the client laid it out.                     *)
Placed ==
    /\ phase = "id" => Len(records) <= Len(sent) /\ cursor = StartOf(sent, At)
    /\ phase \in {"vector", "length", "meta"} =>
          At <= Len(sent) /\ spans["id"] = Layout(sent, At)["id"]
    /\ phase = "vector" => cursor = StartOf(sent, At) + 8
    /\ phase \in {"length", "meta"} => spans["vector"] = Layout(sent, At)["vector"]
    /\ phase = "length" => cursor = StartOf(sent, At) + 8 + 4 * Dim(sent)
    /\ phase = "meta" =>
          /\ spans["length"] = Layout(sent, At)["length"]
          /\ cursor = StartOf(sent, At) + 8 + 4 * Dim(sent) + 4
          /\ meta_len = sent[At].text.len

(* How a parse can end, and why.                                           *)
Judged ==
    /\ phase = "ok" => Len(records) = Len(sent) /\ cursor = StartOf(sent, At)
    /\ phase = "TooShort" => body.size < 12
    /\ phase # "BadMagic"
    /\ phase = "Truncated" =>
          /\ At <= Len(sent)
          /\ StartOf(sent, At) <= body.size /\ StartOf(sent, At + 1) > body.size
    /\ phase = "BadMetadata" => At <= Len(sent) /\ Malformed(sent[At].text.json)

Following == Honest => Announced /\ Arrived /\ Placed /\ Judged

LEMMA NextRecord ==
    ASSUME ParserInv, Announced, At <= Len(sent)
    PROVE  /\ At \in 1..Len(sent) /\ At \in DOMAIN sent
           /\ StartOf(sent, At) \in Nat /\ Dim(sent) \in Nat /\ sent[At].text.len \in Nat
           /\ sent[At].text.len < U32
           /\ VecBytes = 4 * Dim(sent) /\ VecBytes \in Width
           /\ StartOf(sent, At + 1) \in Nat
           /\ StartOf(sent, At + 1) = StartOf(sent, At) + 8 + 4 * Dim(sent) + 4 + sent[At].text.len
           /\ Layout(sent, At)["id"] = <<StartOf(sent, At), StartOf(sent, At) + 8>>
           /\ Layout(sent, At)["vector"]
                = <<StartOf(sent, At) + 8, StartOf(sent, At) + 8 + 4 * Dim(sent)>>
           /\ Layout(sent, At)["length"]
                = <<StartOf(sent, At) + 8 + 4 * Dim(sent), StartOf(sent, At) + 8 + 4 * Dim(sent) + 4>>
           /\ Layout(sent, At)["meta"]
                = <<StartOf(sent, At) + 8 + 4 * Dim(sent) + 4,
                    StartOf(sent, At) + 8 + 4 * Dim(sent) + 4 + sent[At].text.len>>
<1>1. Len(records) \in Nat
  BY DEF ParserInv, ParserTypeOK
<1>2. sent \in Batches /\ body.dim = Dim(sent)
  BY DEF Announced
<1>3. /\ Len(sent) \in Nat /\ DOMAIN sent = 1..Len(sent) /\ Dim(sent) \in Nat /\ Dim(sent) < U32
      /\ \A i \in 1..Len(sent) : sent[i].text.len \in Nat /\ sent[i].text.len < U32
  BY <1>2, BatchIs
<1>4. At \in 1..Len(sent) /\ At \in 1..Len(sent) + 1 /\ At + 1 \in 1..Len(sent) + 1
  BY <1>1, <1>3 DEF At
<1>5. 4 * Dim(sent) \in Width
  BY <1>3, ParserAssumption DEF Width
<1>6. VecBytes = 4 * Dim(sent)
  BY <1>2, <1>5, NoOverflow DEF VecBytes, ParserInv
<1>7. /\ StartOf(sent, At) \in Nat /\ StartOf(sent, At + 1) \in Nat
      /\ StartOf(sent, At + 1) = StartOf(sent, At) + 8 + 4 * Dim(sent) + 4 + sent[At].text.len
  BY <1>2, <1>4, Starts
<1>8. /\ Layout(sent, At)["id"] = <<StartOf(sent, At), StartOf(sent, At) + 8>>
      /\ Layout(sent, At)["vector"]
           = <<StartOf(sent, At) + 8, StartOf(sent, At) + 8 + 4 * Dim(sent)>>
      /\ Layout(sent, At)["length"]
           = <<StartOf(sent, At) + 8 + 4 * Dim(sent), StartOf(sent, At) + 8 + 4 * Dim(sent) + 4>>
      /\ Layout(sent, At)["meta"]
           = <<StartOf(sent, At) + 8 + 4 * Dim(sent) + 4,
               StartOf(sent, At) + 8 + 4 * Dim(sent) + 4 + sent[At].text.len>>
  BY DEF Layout
<1> QED BY <1>3, <1>4, <1>5, <1>6, <1>7, <1>8

(* A field that fits, or does not.                                         *)
LEMMA FieldFits ==
    ASSUME ParserInv, NEW n \in Width
    PROVE  /\ cursor \in Nat /\ body.size \in Nat /\ cursor <= body.size /\ n \in Nat
           /\ Fits(n) <=> cursor + n <= body.size
           /\ \A f \in Field : Sliced(f, n) = [spans EXCEPT ![f] = <<cursor, cursor + n>>]
           /\ spans \in [Field -> Nat \X Nat] /\ Len(records) \in Nat
           /\ Wrap(cursor + n) = cursor + n
<1>1. ParserTypeOK /\ spans \in [Field -> Nat \X Nat] /\ Len(records) \in Nat
  BY DEF ParserInv, ParserTypeOK
<1>2. /\ cursor \in Nat /\ body.size \in Nat /\ cursor <= body.size /\ n \in Nat
      /\ Wrap(cursor + n) = cursor + n
  BY <1>1, NoOverflow
<1>3. Fits(n) <=> cursor + n <= body.size
  BY <1>2 DEF Fits
<1>4. \A f \in Field : Sliced(f, n) = [spans EXCEPT ![f] = <<cursor, cursor + n>>]
  BY <1>2 DEF Sliced
<1> QED BY <1>1, <1>2, <1>3, <1>4

(* One that does not ends the parse within the record it is part of.       *)
LEMMA CutFollows ==
    ASSUME ParserInv, Announced, Arrived, NEW f \in Field, NEW n \in Width, CutOff(f, n),
           UNCHANGED sent, At <= Len(sent), StartOf(sent, At) <= cursor,
           cursor + n <= StartOf(sent, At + 1)
    PROVE  Announced' /\ Arrived' /\ Placed' /\ Judged'
<1>1. phase' = "Truncated" /\ ~Fits(n) /\ UNCHANGED <<body, cursor, spans, meta_len, records>>
  BY DEF CutOff, EndWith
<1>2. StartOf(sent, At) <= body.size /\ StartOf(sent, At + 1) > body.size
  <2>1. cursor \in Nat /\ body.size \in Nat /\ cursor <= body.size /\ n \in Nat
        /\ cursor + n > body.size
    BY <1>1, FieldFits
  <2>2. StartOf(sent, At) \in Nat /\ StartOf(sent, At + 1) \in Nat
    BY NextRecord
  <2>3. \A x, y, c, s, w \in Nat : x <= c /\ c + w <= y /\ c <= s /\ c + w > s => x <= s /\ y > s
    OBVIOUS
  <2> QED BY <2>1, <2>2, <2>3
<1>3. Announced' /\ Arrived'
  BY <1>1 DEF Announced, Arrived
<1>4. At' = At
  BY <1>1 DEF At
<1>5. Placed'
  BY <1>1 DEF Placed
<1>6. Judged'
  BY <1>1, <1>2, <1>4 DEF Judged
<1> QED BY <1>3, <1>5, <1>6

LEMMA HeaderFollows ==
    ASSUME ParserInv, Announced, Arrived, ReadHeader, UNCHANGED sent
    PROVE  Announced' /\ Arrived' /\ Placed' /\ Judged'
<1>1. /\ UNCHANGED <<body, records>> /\ records = <<>> /\ Len(records) = 0
      /\ body.magic = TRUE /\ sent \in Batches
  BY DEF ReadHeader, EndWith, ParserInv, CursorKeepsPace, Announced
<1>2. Announced' /\ Arrived'
  BY <1>1 DEF Announced, Arrived
<1>3. CASE phase' = "TooShort" /\ body.size < 12
  BY <1>1, <1>2, <1>3 DEF Placed, Judged
<1>4. CASE cursor' = 12 /\ phase' = "id"
  <2>1. At' = 1 /\ StartOf(sent, 1) = 12 /\ 0 <= Len(sent)
    BY <1>1, Starts, BatchIs DEF At
  <2> QED BY <1>1, <1>2, <1>4, <2>1 DEF Placed, Judged
<1> QED BY <1>1, <1>3, <1>4 DEF ReadHeader, EndWith

LEMMA IdFollows ==
    ASSUME ParserInv, Announced, Arrived, Placed, ReadId, UNCHANGED sent
    PROVE  Announced' /\ Arrived' /\ Placed' /\ Judged'
<1>1. phase = "id" /\ Len(records) < Len(sent)
  BY DEF ReadId, More, Take, CutOff, Announced
<1>2. cursor = StartOf(sent, At) /\ At <= Len(sent) /\ 8 \in Width
  <2>1. Len(records) \in Nat /\ Len(sent) \in Nat
    BY BatchIs DEF ParserInv, ParserTypeOK, Announced
  <2> QED BY <1>1, <2>1, FieldWidths DEF Placed, At, ParserInv
<1>3. CASE Take("id", 8, "vector")
  <2>1. /\ spans' = [spans EXCEPT !["id"] = <<cursor, cursor + 8>>]
        /\ cursor' = cursor + 8 /\ phase' = "vector" /\ UNCHANGED <<body, records>>
        /\ spans \in [Field -> Nat \X Nat]
    BY <1>2, <1>3, FieldFits DEF Take, Field
  <2>2. At' = At /\ spans'["id"] = Layout(sent, At)["id"]
    BY <1>2, <2>1, NextRecord DEF At, Field
  <2>3. Announced' /\ Arrived'
    BY <2>1 DEF Announced, Arrived
  <2>4. Placed' /\ Judged'
    BY <1>2, <2>1, <2>2 DEF Placed, Judged
  <2> QED BY <2>3, <2>4
<1>4. CASE CutOff("id", 8)
  <2>1. StartOf(sent, At) <= cursor /\ cursor + 8 <= StartOf(sent, At + 1) /\ "id" \in Field
    BY <1>2, NextRecord DEF Field
  <2> QED BY <1>2, <1>4, <2>1, CutFollows
<1> QED BY <1>3, <1>4 DEF ReadId

LEMMA VectorFollows ==
    ASSUME ParserInv, Announced, Arrived, Placed, ReadVector, UNCHANGED sent
    PROVE  Announced' /\ Arrived' /\ Placed' /\ Judged'
<1>1. phase = "vector"
  BY DEF ReadVector, Take, CutOff
<1>2. /\ cursor = StartOf(sent, At) + 8 /\ At <= Len(sent) /\ VecBytes \in Width
      /\ VecBytes = 4 * Dim(sent) /\ spans["id"] = Layout(sent, At)["id"]
  BY <1>1, NextRecord DEF Placed
<1>3. CASE Take("vector", VecBytes, "length")
  <2>1. /\ spans' = [spans EXCEPT !["vector"] = <<cursor, cursor + VecBytes>>]
        /\ cursor' = cursor + VecBytes /\ phase' = "length" /\ UNCHANGED <<body, records>>
        /\ spans \in [Field -> Nat \X Nat]
    BY <1>2, <1>3, FieldFits DEF Take, Field
  <2>2. /\ At' = At /\ spans'["id"] = Layout(sent, At)["id"]
        /\ spans'["vector"] = Layout(sent, At)["vector"]
        /\ cursor' = StartOf(sent, At) + 8 + 4 * Dim(sent)
    BY <1>2, <2>1, NextRecord DEF At, Field
  <2>3. Announced' /\ Arrived'
    BY <2>1 DEF Announced, Arrived
  <2>4. Placed' /\ Judged'
    BY <1>2, <2>1, <2>2 DEF Placed, Judged
  <2> QED BY <2>3, <2>4
<1>4. CASE CutOff("vector", VecBytes)
  <2>1. StartOf(sent, At) <= cursor /\ cursor + VecBytes <= StartOf(sent, At + 1) /\ "vector" \in Field
    <3>1. /\ StartOf(sent, At) \in Nat /\ Dim(sent) \in Nat /\ sent[At].text.len \in Nat
          /\ StartOf(sent, At + 1) = StartOf(sent, At) + 8 + 4 * Dim(sent) + 4 + sent[At].text.len
      BY <1>2, NextRecord
    <3>2. \A x, d, l \in Nat : x <= x + 8 /\ x + 8 + 4 * d <= x + 8 + 4 * d + 4 + l
      OBVIOUS
    <3> QED BY <1>2, <3>1, <3>2 DEF Field
  <2> QED BY <1>2, <1>4, <2>1, CutFollows
<1> QED BY <1>3, <1>4 DEF ReadVector

LEMMA LengthFollows ==
    ASSUME ParserInv, Announced, Arrived, Placed, ReadLength, AsEncoded, UNCHANGED sent
    PROVE  Announced' /\ Arrived' /\ Placed' /\ Judged'
<1>1. phase = "length"
  BY DEF ReadLength, Take, CutOff
<1>2. /\ cursor = StartOf(sent, At) + 8 + 4 * Dim(sent) /\ At <= Len(sent) /\ 4 \in Width
      /\ spans["id"] = Layout(sent, At)["id"] /\ spans["vector"] = Layout(sent, At)["vector"]
  BY <1>1, FieldWidths DEF Placed, ParserInv
<1>3. CASE Take("length", 4, "meta")
  <2>1. /\ spans' = [spans EXCEPT !["length"] = <<cursor, cursor + 4>>]
        /\ cursor' = cursor + 4 /\ phase' = "meta" /\ UNCHANGED <<body, records>>
        /\ spans \in [Field -> Nat \X Nat]
    BY <1>2, <1>3, FieldFits DEF Take, Field
  <2>2. /\ At' = At /\ spans'["id"] = Layout(sent, At)["id"]
        /\ spans'["vector"] = Layout(sent, At)["vector"]
        /\ spans'["length"] = Layout(sent, At)["length"]
        /\ cursor' = StartOf(sent, At) + 8 + 4 * Dim(sent) + 4
    BY <1>2, <2>1, NextRecord DEF At, Field
  <2>3. meta_len' = sent[At].text.len
    <3>1. At \in Owners("length", <<cursor, cursor + 4>>)
      BY <1>2, NextRecord DEF Owners
    <3> QED BY <1>1, <2>1, <3>1 DEF AsEncoded
  <2>4. Announced' /\ Arrived'
    BY <2>1 DEF Announced, Arrived
  <2>5. Placed' /\ Judged'
    BY <1>2, <2>1, <2>2, <2>3 DEF Placed, Judged
  <2> QED BY <2>4, <2>5
<1>4. CASE CutOff("length", 4)
  <2>1. StartOf(sent, At) <= cursor /\ cursor + 4 <= StartOf(sent, At + 1) /\ "length" \in Field
    <3>1. /\ StartOf(sent, At) \in Nat /\ Dim(sent) \in Nat /\ sent[At].text.len \in Nat
          /\ StartOf(sent, At + 1) = StartOf(sent, At) + 8 + 4 * Dim(sent) + 4 + sent[At].text.len
      BY <1>2, NextRecord
    <3>2. \A x, d, l \in Nat : /\ x <= x + 8 + 4 * d
                             /\ x + 8 + 4 * d + 4 <= x + 8 + 4 * d + 4 + l
      OBVIOUS
    <3> QED BY <1>2, <3>1, <3>2 DEF Field
  <2> QED BY <1>2, <1>4, <2>1, CutFollows
<1> QED BY <1>3, <1>4 DEF ReadLength

LEMMA MetaFollows ==
    ASSUME ParserInv, Announced, Arrived, Placed, ReadMeta, AsEncoded, UNCHANGED sent
    PROVE  Announced' /\ Arrived' /\ Placed' /\ Judged'
<1>1. phase = "meta"
  BY DEF ReadMeta, CutOff
<1>2. /\ cursor = StartOf(sent, At) + 8 + 4 * Dim(sent) + 4 /\ At <= Len(sent)
      /\ meta_len = sent[At].text.len /\ meta_len \in Width
      /\ spans["id"] = Layout(sent, At)["id"] /\ spans["vector"] = Layout(sent, At)["vector"]
      /\ spans["length"] = Layout(sent, At)["length"]
  BY <1>1, FieldWidths DEF Placed, ParserInv
<1>3. /\ <<cursor, cursor + meta_len>> = Layout(sent, At)["meta"]
      /\ At \in DOMAIN sent /\ At \in 1..Len(sent)
  BY <1>2, NextRecord
<1>4. (phase' = "BadMetadata") <=> Malformed(sent[At].text.json) /\ Fits(meta_len)
  <2>1. At \in Owners("meta", <<cursor, cursor + meta_len>>)
    BY <1>3 DEF Owners
  <2> QED BY <1>1, <2>1 DEF AsEncoded
<1>5. CASE /\ Fits(meta_len)
           /\ records' = Append(records, Sliced("meta", meta_len))
           /\ cursor' = Wrap(cursor + meta_len)
           /\ phase' = "id" /\ UNCHANGED body
  <2> DEFINE n == Len(records)
  <2>1. /\ cursor' = cursor + meta_len /\ n \in Nat /\ spans \in [Field -> Nat \X Nat]
        /\ Sliced("meta", meta_len) = [spans EXCEPT !["meta"] = <<cursor, cursor + meta_len>>]
    BY <1>2, <1>5, FieldFits DEF Field
  <2>2. \A f \in Field : Sliced("meta", meta_len)[f] = Layout(sent, At)[f]
    BY <1>2, <1>3, <2>1 DEF Field
  <2>3. records \in Seq([Field -> Nat \X Nat])
    BY DEF ParserInv, ParserTypeOK
  <2>4. /\ Len(records') = n + 1 /\ At = n + 1 /\ At' = At + 1
        /\ records'[At] = Sliced("meta", meta_len)
        /\ \A k \in 1..n : records'[k] = records[k]
    BY <1>5, <2>3 DEF At
  <2>5. ~Malformed(sent[At].text.json)
    BY <1>4, <1>5
  <2>6. Announced'
    BY <1>5 DEF Announced
  <2>7. Arrived'
    <3> SUFFICES ASSUME NEW k \in 1..n + 1
                 PROVE  /\ k \in 1..Len(sent) /\ ~Malformed(sent[k].text.json)
                        /\ \A f \in Field : records'[k][f] = Layout(sent, k)[f]
      BY <2>4 DEF Arrived
    <3>1. CASE k = At
      BY <1>3, <2>2, <2>4, <2>5, <3>1
    <3>2. CASE k \in 1..n
      BY <2>4, <3>2 DEF Arrived
    <3> QED BY <2>1, <2>4, <3>1, <3>2
  <2>8. cursor' = StartOf(sent, At + 1)
    BY <1>2, <2>1, NextRecord
  <2>9. Len(records') <= Len(sent)
    BY <1>2, <2>4
  <2>10. Placed' /\ Judged'
    BY <1>5, <2>4, <2>8, <2>9 DEF Placed, Judged
  <2> QED BY <2>6, <2>7, <2>10
<1>6. CASE Fits(meta_len) /\ EndWith("BadMetadata")
  <2>1. phase' = "BadMetadata" /\ UNCHANGED <<body, cursor, spans, meta_len, records>>
    BY <1>6 DEF EndWith
  <2>2. Announced' /\ Arrived' /\ At' = At
    BY <2>1 DEF Announced, Arrived, At
  <2>3. Malformed(sent[At].text.json)
    BY <1>4, <2>1
  <2> QED BY <1>2, <2>1, <2>2, <2>3 DEF Placed, Judged
<1>7. CASE CutOff("meta", meta_len)
  <2>1. StartOf(sent, At) <= cursor /\ cursor + meta_len <= StartOf(sent, At + 1) /\ "meta" \in Field
    <3>1. /\ StartOf(sent, At) \in Nat /\ Dim(sent) \in Nat /\ sent[At].text.len \in Nat
          /\ StartOf(sent, At + 1) = StartOf(sent, At) + 8 + 4 * Dim(sent) + 4 + sent[At].text.len
      BY <1>2, NextRecord
    <3>2. \A x, d, l \in Nat : /\ x <= x + 8 + 4 * d + 4
                             /\ x + 8 + 4 * d + 4 + l <= x + 8 + 4 * d + 4 + l
      OBVIOUS
    <3> QED BY <1>2, <3>1, <3>2 DEF Field
  <2> QED BY <1>2, <1>7, <2>1, CutFollows
<1> QED BY <1>5, <1>6, <1>7 DEF ReadMeta

LEMMA FinishFollows ==
    ASSUME ParserInv, Announced, Arrived, Placed, Finish, UNCHANGED sent
    PROVE  Announced' /\ Arrived' /\ Placed' /\ Judged'
<1>1. /\ phase = "id" /\ phase' = "ok" /\ UNCHANGED <<body, cursor, spans, meta_len, records>>
      /\ ~(Len(records) < Len(sent))
  BY DEF Finish, EndWith, More, Announced
<1>2. Len(records) \in Nat /\ Len(sent) \in Nat /\ Len(records) <= Len(sent)
  BY <1>1, BatchIs DEF ParserInv, ParserTypeOK, Announced, Placed
<1>3. Len(records) = Len(sent) /\ cursor = StartOf(sent, At)
  BY <1>1, <1>2 DEF Placed
<1>4. Announced' /\ Arrived' /\ At' = At
  BY <1>1 DEF Announced, Arrived, At
<1> QED BY <1>1, <1>3, <1>4 DEF Placed, Judged

LEMMA InitFollows == IngestInit => ParserInv /\ Following
<1> SUFFICES ASSUME IngestInit
             PROVE  ParserInv /\ Following
  OBVIOUS
<1>1. CASE sent = NoBatch
  <2>1. body \in Body
    BY <1>1, BatchIs DEF IngestInit
  <2>2. ParserInit
    BY <2>1 DEF IngestInit, ParserInit
  <2> QED BY <1>1, <2>2, InitParser DEF Following, Honest
<1>2. CASE sent # NoBatch
  <2>1. /\ sent \in Batches
        /\ body \in [size : {n \in 0..BodyLimit : n <= EncodedSize(sent) + 1},
                     magic : {TRUE}, count : {Len(sent)}, dim : {Dim(sent)}]
    BY <1>2 DEF IngestInit
  <2>2. /\ Len(sent) \in 0..(U32 - 1) /\ Dim(sent) \in 0..(U32 - 1)
    BY <2>1, BatchIs, IngestAssumption, ParserAssumption
  <2>3. body \in Body
    BY <2>1, <2>2 DEF Body
  <2>4. ParserInit
    BY <2>3 DEF IngestInit, ParserInit
  <2>5. Announced
    BY <2>1 DEF Announced
  <2>6. Arrived /\ Placed /\ Judged
    BY DEF IngestInit, Arrived, Placed, Judged
  <2> QED BY <2>4, <2>5, <2>6, InitParser DEF Following
<1> QED BY <1>1, <1>2

LEMMA NextFollows ==
    ASSUME ParserInv, Following, [IngestNext]_ingestVars
    PROVE  ParserInv' /\ Following'
<1>1. CASE Parse
  <2>1. ParserNext /\ AsEncoded /\ UNCHANGED sent
    BY <1>1 DEF Parse
  <2>2. ParserInv'
    BY <2>1, NextKeepsParser
  <2>3. CASE Honest
    <3>1. Announced /\ Arrived /\ Placed /\ Judged
      BY <2>3 DEF Following
    <3>2. Announced' /\ Arrived' /\ Placed' /\ Judged'
      BY <2>1, <3>1, HeaderFollows, IdFollows, VectorFollows, LengthFollows, MetaFollows,
         FinishFollows DEF ParserNext
    <3> QED BY <2>2, <3>2 DEF Following
  <2>4. CASE ~Honest
    BY <2>1, <2>2, <2>4 DEF Following, Honest
  <2> QED BY <2>3, <2>4
<1>2. CASE UNCHANGED <<parserVars, sent>>
  <2>1. ParserInv'
    BY <1>2, NextKeepsParser
  <2>2. /\ Honest' = Honest /\ Announced' = Announced /\ Arrived' = Arrived
        /\ Placed' = Placed /\ Judged' = Judged
    BY <1>2 DEF parserVars, Honest, Announced, Arrived, Placed, Judged, At
  <2> QED BY <2>1, <2>2 DEF Following
<1>3. UNCHANGED <<parserVars, sent>> \/ Parse
  BY DEF IngestNext, PutBatchBinary, Answer, Delete, BeginFlush, FlushRow, FinishFile,
         OpenTable, Rest, ingestVars
<1> QED BY <1>1, <1>2, <1>3

LEMMA FollowingInvariant == IngestSpec => [](ParserInv /\ Following)
<1>1. IngestInit => ParserInv /\ Following
  BY InitFollows
<1>2. (ParserInv /\ Following) /\ [IngestNext]_ingestVars => (ParserInv /\ Following)'
  BY NextFollows
<1> QED BY <1>1, <1>2, PTL DEF IngestSpec

(* No two records of a batch have a field in the same place.               *)
LEMMA OneOwner ==
    ASSUME sent \in Batches, NEW k \in 1..Len(sent), NEW f \in Field
    PROVE  Owners(f, Layout(sent, k)[f]) = {k}
<1>1. DOMAIN sent = 1..Len(sent) /\ Len(sent) \in Nat /\ Dim(sent) \in Nat
  BY BatchIs
<1> DEFINE c == IF f = "id" THEN 0 ELSE IF f = "vector" THEN 8
                ELSE IF f = "length" THEN 8 + 4 * Dim(sent) ELSE 8 + 4 * Dim(sent) + 4
<1>2. c \in Nat
  BY <1>1
<1>3. \A i \in 1..Len(sent) : StartOf(sent, i) \in Nat
  <2>1. \A i \in 1..Len(sent) : i \in 1..Len(sent) + 1
    BY <1>1
  <2> QED BY <2>1, Starts
<1>4. \A i \in 1..Len(sent) : Layout(sent, i)[f][1] = StartOf(sent, i) + c
  <2> SUFFICES ASSUME NEW i \in 1..Len(sent)
               PROVE  Layout(sent, i)[f][1] = StartOf(sent, i) + c
    OBVIOUS
  <2>1. StartOf(sent, i) \in Nat
    BY <1>3
  <2>2. /\ Layout(sent, i)["id"][1] = StartOf(sent, i)
        /\ Layout(sent, i)["vector"][1] = StartOf(sent, i) + 8
        /\ Layout(sent, i)["length"][1] = StartOf(sent, i) + 8 + 4 * Dim(sent)
        /\ Layout(sent, i)["meta"][1] = StartOf(sent, i) + 8 + 4 * Dim(sent) + 4
    BY DEF Layout
  <2>3. \A x, d \in Nat : /\ x + 0 = x /\ x + 8 + 4 * d = x + (8 + 4 * d)
                          /\ x + 8 + 4 * d + 4 = x + (8 + 4 * d + 4)
    OBVIOUS
  <2>4. /\ StartOf(sent, i) + 0 = StartOf(sent, i)
        /\ StartOf(sent, i) + 8 + 4 * Dim(sent) = StartOf(sent, i) + (8 + 4 * Dim(sent))
        /\ StartOf(sent, i) + 8 + 4 * Dim(sent) + 4 = StartOf(sent, i) + (8 + 4 * Dim(sent) + 4)
    BY <1>1, <2>1, <2>3
  <2>5. CASE f = "id"
    BY <2>2, <2>4, <2>5
  <2>6. CASE f = "vector"
    BY <2>2, <2>6
  <2>7. CASE f = "length"
    BY <2>2, <2>4, <2>7
  <2>8. CASE f = "meta"
    BY <2>2, <2>4, <2>8
  <2> QED BY <2>5, <2>6, <2>7, <2>8 DEF Field
<1> HIDE DEF c
<1>5. ASSUME NEW i \in 1..Len(sent), Layout(sent, i)[f] = Layout(sent, k)[f]
      PROVE  i = k
  <2>1. StartOf(sent, i) = StartOf(sent, k)
    BY <1>2, <1>3, <1>4, <1>5
  <2>2. CASE i < k
    <3>1. k \in i + 1..Len(sent) + 1
      BY <1>1, <2>2
    <3>2. StartOf(sent, i) + 12 <= StartOf(sent, k)
      BY <3>1, StartsGrow
    <3> QED BY <1>3, <2>1, <3>2
  <2>3. CASE k < i
    <3>1. i \in k + 1..Len(sent) + 1
      BY <1>1, <2>3
    <3>2. StartOf(sent, k) + 12 <= StartOf(sent, i)
      BY <3>1, StartsGrow
    <3> QED BY <1>3, <2>1, <3>2
  <2> QED BY <1>1, <2>2, <2>3
<1> QED BY <1>1, <1>5 DEF Owners

LEMMA WhatArrivedIsSent ==
    ASSUME ParserInv, Following, Honest, phase = "ok"
    PROVE  (\A k \in DOMAIN records : Aligned(records[k])) /\ Decoded = sent
<1>1. /\ sent \in Batches /\ Arrived /\ Len(records) = Len(sent)
  BY DEF Following, Announced, Judged
<1>2. /\ DOMAIN records = 1..Len(sent) /\ DOMAIN sent = 1..Len(sent)
  BY <1>1, BatchIs DEF ParserInv, ParserTypeOK
<1>3. \A k \in 1..Len(sent), f \in Field : Owners(f, records[k][f]) = {k}
  BY <1>1, OneOwner DEF Arrived
<1>4. \A k \in DOMAIN records : Aligned(records[k])
  BY <1>2, <1>3 DEF Aligned
<1>5. \A k \in 1..Len(sent), f \in Field : (CHOOSE i \in Owners(f, records[k][f]) : TRUE) = k
  BY <1>3
<1>6. \A k \in 1..Len(sent) :
        sent[k] = [id |-> sent[k].id, vector |-> sent[k].vector, text |-> sent[k].text]
  BY <1>1, BatchIs
<1>7. Decoded = [k \in 1..Len(sent) |-> sent[k]]
  <2>1. \A k \in 1..Len(sent) : Decoded[k] = sent[k]
    <3> SUFFICES ASSUME NEW k \in 1..Len(sent) PROVE Decoded[k] = sent[k]
      OBVIOUS
    <3>1. /\ (CHOOSE i \in Owners("id", records[k]["id"]) : TRUE) = k
          /\ (CHOOSE i \in Owners("vector", records[k]["vector"]) : TRUE) = k
          /\ (CHOOSE i \in Owners("meta", records[k]["meta"]) : TRUE) = k
      BY <1>5 DEF Field
    <3>2. Decoded[k] = [id |-> sent[k].id, vector |-> sent[k].vector, text |-> sent[k].text]
      BY <1>2, <3>1 DEF Decoded
    <3> QED BY <1>6, <3>2
  <2>2. Decoded = [k \in 1..Len(sent) |-> Decoded[k]]
    BY <1>2 DEF Decoded
  <2> QED BY <2>1, <2>2
<1>8. sent = [k \in 1..Len(sent) |-> sent[k]]
  BY <1>1, <1>2 DEF Batches
<1> QED BY <1>4, <1>7, <1>8

(* The server is asked to keep within the body by clients as by strangers. *)
THEOREM IngestIsContained == IngestSpec => []ParserStaysInBody
<1>1. ParserInv /\ Following => ParserStaysInBody
  BY DEF ParserInv, ParserStaysInBody
<1> QED BY <1>1, FollowingInvariant, PTL

(* The layout _encode_binary_batch writes (client.py:319-342) and the one  *)
(* parse_binary_batch reads (src/bin/server.rs:705-756) are the same, for  *)
(* every batch: any number of records, any dimension, any metadata.        *)
THEOREM BatchesArriveAsSent == IngestSpec => []ParsedIsSent
<1>1. ParserInv /\ Following => ParsedIsSent
  BY WhatArrivedIsSent DEF ParsedIsSent
<1> QED BY <1>1, FollowingInvariant, PTL

-----------------------------------------------------------------------------
(* The answer. *)

Answered ==
    /\ status \in {"none", "Created", "BadRequest"}
    /\ status # "Created" => stored = <<>>
    /\ status # "none" => Honest /\ phase \in Ended
    /\ status = "BadRequest" => ~(phase = "ok" /\ AcceptableBinary(sent))
    /\ status = "Created" =>
          phase = "ok" /\ AcceptableBinary(sent) /\ stored = Entries(sent)

LEMMA NextAnswers ==
    ASSUME ParserInv, Following, Answered, [IngestNext]_ingestVars
    PROVE  Answered'
<1>1. CASE Parse
  <2>1. UNCHANGED <<sent, status, stored>> /\ phase \notin Ended
    BY <1>1 DEF Parse, ParserNext, ReadHeader, ReadId, ReadVector, ReadLength, ReadMeta, Finish,
                Take, CutOff, Ended
  <2>2. status = "none"
    BY <2>1 DEF Answered
  <2> QED BY <2>1, <2>2 DEF Answered
<1>2. CASE PutBatchBinary
  <2>1. Honest /\ status = "none" /\ phase \in Ended /\ UNCHANGED <<phase, sent>> /\ stored = <<>>
    BY <1>2 DEF PutBatchBinary, Answer, Answered, parserVars
  <2>2. phase = "ok" => Decoded = sent
    BY <2>1, WhatArrivedIsSent
  <2>3. Honest'
    BY <2>1 DEF Honest
  <2>4. CASE phase = "ok" /\ AcceptableBinary(Decoded)
    <3>1. stored' = Entries(Decoded) /\ status' = "Created"
      BY <1>2, <2>4 DEF PutBatchBinary, Answer
    <3>2. AcceptableBinary(sent)' /\ stored' = Entries(sent)'
      BY <2>1, <2>2, <2>4, <3>1 DEF AcceptableBinary, Entries
    <3> QED BY <2>1, <2>3, <2>4, <3>1, <3>2 DEF Answered
  <2>5. CASE ~(phase = "ok" /\ AcceptableBinary(Decoded))
    <3>1. stored' = <<>> /\ status' = "BadRequest"
      BY <1>2, <2>1, <2>5 DEF PutBatchBinary, Answer
    <3>2. ~(phase = "ok" /\ AcceptableBinary(sent))
      BY <2>2, <2>5
    <3>3. AcceptableBinary(sent)' = AcceptableBinary(sent)
      BY <2>1 DEF AcceptableBinary
    <3> QED BY <2>1, <2>3, <3>1, <3>2, <3>3 DEF Answered
  <2> QED BY <2>4, <2>5
<1>3. CASE UNCHANGED <<phase, sent, status, stored>>
  BY <1>3 DEF Answered, Honest, AcceptableBinary, Entries
<1>4. Parse \/ PutBatchBinary \/ UNCHANGED <<phase, sent, status, stored>>
  BY DEF IngestNext, Delete, BeginFlush, FlushRow, FinishFile, OpenTable, Rest, ingestVars,
         parserVars
<1> QED BY <1>1, <1>2, <1>3, <1>4

LEMMA AnsweredInvariant == IngestSpec => [](ParserInv /\ Following /\ Answered)
<1>1. IngestInit => Answered
  BY DEF IngestInit, Answered
<1>2. (ParserInv /\ Following /\ Answered) /\ [IngestNext]_ingestVars => Answered'
  BY NextAnswers
<1> QED BY <1>1, <1>2, FollowingInvariant, PTL DEF IngestSpec

LEMMA WholeIsNotCut ==
    ASSUME ParserInv, Following, Honest
    PROVE  /\ phase = "ok" => EncodedSize(sent) <= body.size
           /\ body.size >= EncodedSize(sent) => phase \notin {"TooShort", "Truncated"}
<1>1. sent \in Batches /\ Judged
  BY DEF Following, Announced
<1>2. Len(sent) \in Nat \ {0} /\ Len(records) \in Nat
  BY <1>1, BatchIs DEF ParserInv, ParserTypeOK
<1>3. cursor \in Nat /\ body.size \in Nat /\ cursor <= body.size
  BY DEF ParserInv, ParserTypeOK, Body
<1>4. EncodedSize(sent) \in Nat
  <2>1. Len(sent) + 1 \in 1..Len(sent) + 1
    BY <1>2
  <2> QED BY <1>1, <2>1, Starts DEF EncodedSize
<1>5. phase = "ok" => EncodedSize(sent) <= body.size
  BY <1>1, <1>3 DEF Judged, EncodedSize, At
<1>6. ASSUME body.size >= EncodedSize(sent), phase = "TooShort" PROVE FALSE
  <2>1. 1 \in 1..Len(sent) /\ Len(sent) + 1 \in 1 + 1..Len(sent) + 1
    BY <1>2
  <2>2. StartOf(sent, 1) + 12 <= EncodedSize(sent) /\ StartOf(sent, 1) = 12
    BY <1>1, <2>1, StartsGrow, Starts DEF EncodedSize
  <2> QED BY <1>1, <1>3, <1>4, <1>6, <2>2 DEF Judged
<1>7. ASSUME body.size >= EncodedSize(sent), phase = "Truncated" PROVE FALSE
  <2>1. At \in 1..Len(sent) /\ Len(sent) + 1 \in At + 1..Len(sent) + 1 /\ At + 1 \in 1..Len(sent) + 1
    BY <1>1, <1>2, <1>7 DEF Judged, At
  <2>2. StartOf(sent, At + 1) <= EncodedSize(sent) /\ StartOf(sent, At + 1) \in Nat
    BY <1>1, <2>1, StartsGrow, Starts DEF EncodedSize
  <2>3. StartOf(sent, At + 1) > body.size
    BY <1>1, <1>7 DEF Judged
  <2> QED BY <1>3, <1>4, <1>7, <2>2, <2>3
<1> QED BY <1>3, <1>4, <1>5, <1>6, <1>7

(* A body that lost its end on the way stores nothing, and its error names *)
(* the first record that did not arrive (src/bin/server.rs:714-746).       *)
THEOREM CutBodiesAreRefused == IngestSpec => []CutIsRefused
<1>1. ASSUME ParserInv, Following, Answered PROVE CutIsRefused
  <2> SUFFICES ASSUME Honest, body.size < EncodedSize(sent)
               PROVE  /\ phase # "ok" /\ stored = <<>>
                      /\ phase = "Truncated" =>
                            /\ StartOf(sent, Len(records) + 1) <= body.size
                            /\ StartOf(sent, Len(records) + 2) > body.size
    BY DEF CutIsRefused
  <2>1. Len(records) \in Nat /\ body.size \in Nat
    BY <1>1 DEF ParserInv, ParserTypeOK, Body
  <2>2. EncodedSize(sent) \in Nat
    <3>1. sent \in Batches
      BY <1>1 DEF Following, Announced
    <3>2. Len(sent) + 1 \in 1..Len(sent) + 1
      BY <3>1, BatchIs
    <3> QED BY <3>1, <3>2, Starts DEF EncodedSize
  <2>3. phase # "ok"
    BY <1>1, <2>1, <2>2, WholeIsNotCut
  <2>4. stored = <<>>
    BY <1>1, <2>3 DEF Answered
  <2>5. At = Len(records) + 1 /\ At + 1 = Len(records) + 2
    BY <2>1 DEF At
  <2>6. phase = "Truncated" => StartOf(sent, At) <= body.size /\ StartOf(sent, At + 1) > body.size
    BY <1>1 DEF Following, Judged
  <2> QED BY <2>3, <2>4, <2>5, <2>6
<1> QED BY <1>1, AnsweredInvariant, PTL

LEMMA OneByOne ==
    ASSUME NEW b, NEW i \in DOMAIN b
    PROVE  Entries(<<b[i]>>) = <<Entries(b)[i]>>
<1> DEFINE e == [id |-> b[i].id, vector |-> b[i].vector, metadata |-> ToMetadata(b[i].text.json)]
<1>1. Entries(b)[i] = e
  BY DEF Entries
<1>2. DOMAIN <<b[i]>> = 1..1 /\ <<b[i]>>[1] = b[i]
  OBVIOUS
<1>3. Entries(<<b[i]>>) = [k \in 1..1 |-> e]
  BY <1>2 DEF Entries
<1> HIDE DEF e
<1>4. [k \in 1..1 |-> e] = <<e>>
  OBVIOUS
<1> QED BY <1>1, <1>3, <1>4

(* put_record_impl, put_batch_impl and put_batch_binary_impl each check    *)
(* what they are given (src/bin/server.rs:614-624, 642-659, 762-788): they *)
(* refuse and store the same.                                              *)
THEOREM EndpointsAgree == IngestSpec => []BinaryMatchesJson
<1>1. ASSUME ParserInv, Following, Answered PROVE BinaryMatchesJson
  <2> SUFFICES ASSUME Honest, body.size >= EncodedSize(sent), Expressible(sent), status # "none"
               PROVE  /\ stored = ViaJson(sent).stored
                      /\ (status = "BadRequest") <=> (ViaJson(sent).status = "BadRequest")
                      /\ (status = "Created") <=>
                            \A i \in DOMAIN sent : PutRecord(sent[i]).status = "Created"
                      /\ status = "Created" =>
                            /\ Len(stored) = Len(sent)
                            /\ \A i \in DOMAIN sent : PutRecord(sent[i]).stored = <<stored[i]>>
    BY DEF BinaryMatchesJson
  <2>1. sent \in Batches /\ Arrived /\ Judged
    BY <1>1 DEF Following, Announced
  <2>2. /\ Len(sent) \in Nat \ {0} /\ DOMAIN sent = 1..Len(sent) /\ sent # <<>>
        /\ Len(records) \in Nat
    BY <1>1, <2>1, BatchIs DEF NoBatch, ParserInv, ParserTypeOK
  <2>3. phase \in Ended /\ phase \notin {"TooShort", "Truncated", "BadMagic"}
    BY <1>1, <2>1, WholeIsNotCut DEF Answered, Judged
  <2>4. \A i \in DOMAIN sent : PutRecord(sent[i]).status = "Created" <=>
            ~Malformed(sent[i].text.json) /\ sent[i].vector # <<>> /\ Supported(sent[i].text.json)
    BY DEF PutRecord
  <2>5. CASE phase = "BadMetadata"
    <3>1. At \in DOMAIN sent /\ Malformed(sent[At].text.json)
      BY <2>1, <2>2, <2>5 DEF Judged, At
    <3>2. status = "BadRequest" /\ stored = <<>>
      BY <1>1, <2>5 DEF Answered
    <3> QED BY <2>4, <3>1, <3>2 DEF ViaJson
  <2>6. CASE phase = "ok"
    <3>1. \A i \in DOMAIN sent : ~Malformed(sent[i].text.json)
      <4>1. Len(records) = Len(sent)
        BY <2>1, <2>6 DEF Judged
      <4> QED BY <2>1, <2>2, <4>1 DEF Arrived
    <3>2. Acceptable(sent) = AcceptableBinary(sent)
      BY DEF Acceptable, AcceptableBinary
    <3>3. CASE AcceptableBinary(sent)
      <4>1. status = "Created" /\ stored = Entries(sent)
        BY <1>1, <2>6, <3>3 DEF Answered
      <4>2. ViaJson(sent).stored = Entries(sent) /\ ViaJson(sent).status = "Created"
        BY <3>1, <3>2, <3>3 DEF ViaJson
      <4>3. \A i \in DOMAIN sent : PutRecord(sent[i]).status = "Created"
        BY <2>4, <3>1, <3>3 DEF AcceptableBinary
      <4>4. Len(stored) = Len(sent)
        BY <2>2, <4>1 DEF Entries
      <4>5. \A i \in DOMAIN sent : PutRecord(sent[i]).stored = <<stored[i]>>
        BY <3>1, <3>3, <4>1, OneByOne DEF PutRecord, AcceptableBinary
      <4> QED BY <4>1, <4>2, <4>3, <4>4, <4>5
    <3>4. CASE ~AcceptableBinary(sent)
      <4>1. status = "BadRequest" /\ stored = <<>>
        BY <1>1, <2>6, <3>4 DEF Answered
      <4>2. ViaJson(sent).stored = <<>> /\ ViaJson(sent).status = "BadRequest"
        BY <3>2, <3>4 DEF ViaJson
      <4>3. ~\A i \in DOMAIN sent : PutRecord(sent[i]).status = "Created"
        BY <2>2, <2>4, <3>4 DEF AcceptableBinary
      <4> QED BY <4>1, <4>2, <4>3
    <3> QED BY <3>3, <3>4
  <2> QED BY <2>3, <2>5, <2>6 DEF Ended
<1> QED BY <1>1, AnsweredInvariant, PTL

-----------------------------------------------------------------------------
(* Looking up what was inserted. *)

LEMMA Largest ==
    ASSUME NEW n \in Nat, NEW T \in SUBSET (0..n), T # {}
    PROVE  Newest(T) \in T /\ \A x \in T : x <= Newest(T)
<1> DEFINE U == {y \in Nat : \A x \in T : x <= y}
<1>1. n \in U
  OBVIOUS
<1>2. U \in SUBSET Nat /\ U # {}
  BY <1>1
<1>3. PICK m \in U : \A y \in U : m <= y
  BY <1>2, Smallest
<1>4. m \in T
  <2> SUFFICES ASSUME m \notin T PROVE FALSE
    OBVIOUS
  <2>1. \A x \in T : x \in Nat /\ x <= m /\ x # m
    BY <1>3
  <2>2. m \in Nat /\ m # 0
    <3>1. PICK x \in T : TRUE
      OBVIOUS
    <3>2. x \in Nat /\ x <= m /\ x # m /\ m \in Nat
      BY <1>3, <2>1
    <3> QED BY <3>2
  <2>3. m - 1 \in U
    BY <2>1, <2>2
  <2> QED BY <1>3, <2>2, <2>3
<1>5. \E x \in T : \A y \in T : y <= x
  BY <1>3, <1>4
<1> QED BY <1>5 DEF Newest

(* binary_search_by_key halves the part the id can be in.                  *)
LEMMA SearchFinds ==
    ASSUME TableTypeOK, NEW id \in TableId,
           \A i, j \in 1..Len(index) : i < j => index[i].id < index[j].id
    PROVE  \/ SearchFor(id) = 0 /\ \A i \in 1..Len(index) : index[i].id # id
           \/ SearchFor(id) \in 1..Len(index) /\ index[SearchFor(id)].id = id
<1> DEFINE N == Len(index)
           D == (1..N + 1) \X (1..N + 1)
           Mid(p) == (p[1] + p[2]) \div 2
           Round(g, p) ==
               IF p[1] >= p[2] THEN 0
               ELSE IF index[Mid(p)].id = id THEN Mid(p)
               ELSE IF index[Mid(p)].id < id THEN g[<<Mid(p) + 1, p[2]>>]
               ELSE g[<<p[1], Mid(p)>>]
           Rounds(g) == [p \in D |-> Round(g, p)]
           Settled(m) == {g \in [D -> 0..N] :
                            \A p \in D : p[2] - p[1] <= m => g[p] = Round(g, p)}
           S == {m \in 0..N : \E g : g \in Settled(m)}
<1>1. N \in Nat /\ \A i \in 1..N : index[i].id \in Nat
  <2>1. index \in Seq(IndexEntry)
    BY DEF TableTypeOK
  <2>2. \A e \in IndexEntry : e.id \in Nat
    BY TableAssumption DEF IndexEntry
  <2> QED BY <2>1, <2>2
<1> HIDE DEF N
<1>2. \A p \in D : /\ p[1] \in 1..N + 1 /\ p[2] \in 1..N + 1
                   /\ p[2] - p[1] \in Int /\ p[2] - p[1] <= N
  BY <1>1
<1>3. \A p \in D : p[1] < p[2] =>
        /\ Mid(p) \in p[1]..(p[2] - 1) /\ Mid(p) \in 1..N /\ Mid(p) \in 0..N
        /\ <<Mid(p) + 1, p[2]>> \in D /\ p[2] - (Mid(p) + 1) < p[2] - p[1]
        /\ <<p[1], Mid(p)>> \in D /\ Mid(p) - p[1] < p[2] - p[1]
  <2> SUFFICES ASSUME NEW p \in D, p[1] < p[2]
               PROVE  /\ Mid(p) \in p[1]..(p[2] - 1) /\ Mid(p) \in 1..N /\ Mid(p) \in 0..N
                      /\ <<Mid(p) + 1, p[2]>> \in D /\ p[2] - (Mid(p) + 1) < p[2] - p[1]
                      /\ <<p[1], Mid(p)>> \in D /\ Mid(p) - p[1] < p[2] - p[1]
    OBVIOUS
  <2>1. \A a, b \in Nat : a < b => (a + b) \div 2 \in a..(b - 1)
    OBVIOUS
  <2>2. p[1] \in Nat \ {0} /\ p[2] \in Nat /\ p[2] <= N + 1 /\ p[1] <= N + 1
    BY <1>1, <1>2
  <2>3. Mid(p) \in p[1]..(p[2] - 1)
    BY <2>1, <2>2
  <2> HIDE DEF Mid
  <2> QED BY <1>1, <2>2, <2>3
<1> HIDE DEF Mid
<1>4. \A g \in [D -> 0..N], p \in D : Round(g, p) \in 0..N
  <2> SUFFICES ASSUME NEW g \in [D -> 0..N], NEW p \in D
               PROVE  Round(g, p) \in 0..N
    OBVIOUS
  <2>1. CASE p[1] >= p[2]
    BY <1>1, <2>1
  <2>2. CASE p[1] < p[2]
    <3>1. /\ Mid(p) \in 0..N /\ g[<<Mid(p) + 1, p[2]>>] \in 0..N /\ g[<<p[1], Mid(p)>>] \in 0..N
      BY <1>3, <2>2
    <3> QED BY <3>1, <1>1
  <2> QED BY <1>2, <2>1, <2>2
<1>5. \A f, g : \A p \in D :
        (\A q \in D : q[2] - q[1] < p[2] - p[1] => f[q] = g[q]) => Round(f, p) = Round(g, p)
  <2> SUFFICES ASSUME NEW f, NEW g, NEW p \in D,
                      \A q \in D : q[2] - q[1] < p[2] - p[1] => f[q] = g[q]
               PROVE  Round(f, p) = Round(g, p)
    OBVIOUS
  <2>1. CASE p[1] >= p[2]
    BY <2>1
  <2>2. CASE p[1] < p[2]
    <3> DEFINE q == <<Mid(p) + 1, p[2]>>
               r == <<p[1], Mid(p)>>
    <3>1. q \in D /\ q[2] - q[1] < p[2] - p[1] /\ r \in D /\ r[2] - r[1] < p[2] - p[1]
      BY <1>3, <2>2
    <3>2. f[q] = g[q] /\ f[r] = g[r]
      BY <3>1
    <3> QED BY <3>2
  <2> QED BY <1>2, <2>1, <2>2
<1> HIDE DEF Round
<1>6. 0 \in S
  <2> DEFINE z == [p \in D |-> 0]
             g == [p \in D |-> Round(z, p)]
  <2>1. z \in [D -> 0..N]
    BY <1>1
  <2> HIDE DEF z
  <2>2. g \in [D -> 0..N]
    BY <1>4, <2>1
  <2>3. ASSUME NEW p \in D, p[2] - p[1] <= 0 PROVE g[p] = Round(g, p)
    <3>1. p[1] >= p[2]
      BY <1>2, <2>3
    <3>2. Round(z, p) = 0 /\ Round(g, p) = 0
      BY <3>1 DEF Round
    <3> QED BY <3>2
  <2> HIDE DEF g
  <2>4. g \in Settled(0)
    BY <2>2, <2>3
  <2> QED BY <1>1, <2>4
<1>7. ASSUME NEW m \in 0..N - 1, m \in S PROVE m + 1 \in S
  <2>1. PICK f : f \in Settled(m)
    BY <1>7
  <2> DEFINE g == [p \in D |-> Round(f, p)]
  <2>2. g \in [D -> 0..N]
    BY <1>4, <2>1
  <2>3. \A p \in D : p[2] - p[1] <= m => g[p] = f[p]
    BY <2>1
  <2>4. ASSUME NEW p \in D, p[2] - p[1] <= m + 1 PROVE g[p] = Round(g, p)
    <3>1. \A q \in D : q[2] - q[1] < p[2] - p[1] => q[2] - q[1] <= m
      BY <1>1, <1>2, <2>4
    <3>2. \A q \in D : q[2] - q[1] < p[2] - p[1] => f[q] = g[q]
      BY <2>3, <3>1
    <3> HIDE DEF g
    <3>3. Round(f, p) = Round(g, p)
      BY <1>5, <3>2
    <3> QED BY <3>3 DEF g
  <2> HIDE DEF g
  <2>5. g \in Settled(m + 1)
    BY <2>2, <2>4
  <2> QED BY <1>1, <2>5
<1>8. N \in S
  <2> HIDE DEF S
  <2>1. CASE N = 0
    BY <1>6, <2>1
  <2>2. CASE N # 0
    <3>1. N - 1 \in Nat /\ N \in 0..(N - 1) + 1
      BY <1>1, <2>2
    <3>2. \A i \in 0..(N - 1) + 1 : i \in S
      BY <1>6, <1>7, <3>1, Stepwise
    <3> QED BY <3>1, <3>2
  <2> QED BY <2>1, <2>2
<1>9. PICK f : f \in Settled(N)
  BY <1>8
<1>10. f = Rounds(f)
  <2>1. \A p \in D : f[p] = Round(f, p)
    BY <1>2, <1>9
  <2>2. f = [p \in D |-> f[p]]
    BY <1>9
  <2> QED BY <2>1, <2>2
<1> DEFINE h == CHOOSE x : x = Rounds(x)
<1>11. h = Rounds(h)
  <2> HIDE DEF Rounds
  <2> QED BY <1>10
<1>12. SearchFor(id) = h[<<1, N + 1>>]
  BY DEF SearchFor, N, Round, Mid
<1> HIDE DEF h
<1>13. \A p \in D : h[p] = Round(h, p)
  BY <1>11
<1> DEFINE Found(p, v) ==
               \/ v = 0 /\ \A i \in p[1]..(p[2] - 1) : index[i].id # id
               \/ v \in p[1]..(p[2] - 1) /\ index[v].id = id
           T == {m \in Nat : \A p \in D : p[2] - p[1] <= m => Found(p, h[p])}
<1>14. 0 \in T
  <2>1. ASSUME NEW p \in D, p[2] - p[1] <= 0 PROVE Found(p, h[p])
    <3>1. p[1] >= p[2]
      BY <1>2, <2>1
    <3>2. h[p] = 0
      BY <1>13, <3>1 DEF Round
    <3>3. p[1] \in Nat /\ p[2] \in Nat
      BY <1>1, <1>2
    <3>4. p[1]..(p[2] - 1) = {}
      BY <3>1, <3>3
    <3> QED BY <3>2, <3>4
  <2> HIDE DEF Found
  <2> QED BY <2>1
<1>15. ASSUME NEW m \in 0..N, m \in T PROVE m + 1 \in T
  <2>1. ASSUME NEW p \in D, p[2] - p[1] <= m + 1 PROVE Found(p, h[p])
    <3>1. CASE p[1] >= p[2]
      <4>1. h[p] = 0
        BY <1>13, <3>1 DEF Round
      <4>2. p[1] \in Nat /\ p[2] \in Nat
        BY <1>1, <1>2
      <4>3. p[1]..(p[2] - 1) = {}
        BY <3>1, <4>2
      <4> QED BY <4>1, <4>3
    <3>2. CASE p[1] < p[2]
      <4> DEFINE c == Mid(p)
      <4>1. /\ c \in p[1]..(p[2] - 1) /\ c \in 1..N
            /\ <<c + 1, p[2]>> \in D /\ p[2] - (c + 1) <= m
            /\ <<p[1], c>> \in D /\ c - p[1] <= m
            /\ p[1] \in Nat /\ p[1] > 0 /\ p[2] \in Nat /\ p[2] <= N + 1
        <5>1. /\ c \in p[1]..(p[2] - 1) /\ c \in 1..N /\ c \in Int
              /\ <<c + 1, p[2]>> \in D /\ p[2] - (c + 1) < p[2] - p[1]
              /\ <<p[1], c>> \in D /\ c - p[1] < p[2] - p[1]
          BY <1>3, <3>2
        <5>2. p[1] \in Nat /\ p[1] > 0 /\ p[2] \in Nat /\ p[2] <= N + 1
          BY <1>1, <1>2
        <5> HIDE DEF c, D
        <5> QED BY <1>1, <2>1, <5>1, <5>2
      <4>2. h[p] = IF index[c].id = id THEN c
                   ELSE IF index[c].id < id THEN h[<<c + 1, p[2]>>] ELSE h[<<p[1], c>>]
        BY <1>2, <1>13, <3>2 DEF Round
      <4> HIDE DEF c
      <4>3. CASE index[c].id = id
        BY <4>1, <4>2, <4>3
      <4>4. CASE index[c].id < id
        <5>1. Found(<<c + 1, p[2]>>, h[p])
          <6>1. <<c + 1, p[2]>>[2] - <<c + 1, p[2]>>[1] <= m
            BY <4>1
          <6>2. h[p] = h[<<c + 1, p[2]>>]
            BY <1>1, <4>1, <4>2, <4>4
          <6> HIDE DEF Found, D
          <6> QED BY <1>15, <4>1, <6>1, <6>2
        <5>2. ASSUME NEW i \in p[1]..c PROVE index[i].id # id
          <6>1. i \in 1..N /\ (i = c \/ i < c)
            BY <1>1, <4>1
          <6>2. index[i].id \in Nat /\ index[c].id \in Nat /\ id \in Nat
            BY <1>1, <4>1, <6>1, TableAssumption
          <6>3. i < c => index[i].id < index[c].id
            BY <4>1, <6>1 DEF N
          <6> QED BY <4>4, <6>1, <6>2, <6>3
        <5>3. /\ \A i \in p[1]..(p[2] - 1) : i \in p[1]..c \/ i \in (c + 1)..(p[2] - 1)
              /\ \A i \in (c + 1)..(p[2] - 1) : i \in p[1]..(p[2] - 1)
          BY <4>1
        <5> QED BY <5>1, <5>2, <5>3
      <4>5. CASE index[c].id > id
        <5>1. Found(<<p[1], c>>, h[p])
          <6>1. <<p[1], c>>[2] - <<p[1], c>>[1] <= m
            BY <4>1
          <6>2. index[c].id \in Nat /\ id \in Nat
            BY <1>1, <4>1, TableAssumption
          <6>3. h[p] = h[<<p[1], c>>]
            BY <4>2, <4>5, <6>2
          <6> HIDE DEF Found, D
          <6> QED BY <1>15, <4>1, <6>1, <6>3
        <5>2. ASSUME NEW i \in c..(p[2] - 1) PROVE index[i].id # id
          <6>1. i \in 1..N /\ (i = c \/ c < i)
            BY <1>1, <4>1
          <6>2. index[i].id \in Nat /\ index[c].id \in Nat /\ id \in Nat
            BY <1>1, <4>1, <6>1, TableAssumption
          <6>3. c < i => index[c].id < index[i].id
            BY <4>1, <6>1 DEF N
          <6> QED BY <4>5, <6>1, <6>2, <6>3
        <5>3. /\ \A i \in p[1]..(p[2] - 1) : i \in p[1]..(c - 1) \/ i \in c..(p[2] - 1)
              /\ \A i \in p[1]..(c - 1) : i \in p[1]..(p[2] - 1)
          BY <4>1
        <5> QED BY <5>1, <5>2, <5>3
      <4>6. index[c].id \in Nat /\ id \in Nat
        BY <1>1, <4>1, TableAssumption
      <4> HIDE DEF Found
      <4> QED BY <4>3, <4>4, <4>5, <4>6
    <3> HIDE DEF Found
    <3> QED BY <1>2, <3>1, <3>2
  <2> HIDE DEF Found
  <2> QED BY <1>1, <2>1
<1>16. N \in T
  <2> HIDE DEF T
  <2>1. \A i \in 0..N + 1 : i \in T
    BY <1>1, <1>14, <1>15, Stepwise
  <2> QED BY <1>1, <2>1
<1>17. <<1, N + 1>> \in D /\ <<1, N + 1>>[1] = 1 /\ <<1, N + 1>>[2] = N + 1
  BY <1>1
<1>18. Found(<<1, N + 1>>, h[<<1, N + 1>>])
  <2> HIDE DEF Found
  <2> QED BY <1>1, <1>16, <1>17
<1>19. 1..((N + 1) - 1) = 1..N
  BY <1>1
<1> QED BY <1>12, <1>17, <1>18, <1>19 DEF N

(* What is held of an id once the batch is in: its last record, or the     *)
(* tombstone a later delete left.                                          *)
Kept(id) ==
    IF id \in gone THEN [seq |-> Len(sent) + 1, deleted |-> TRUE]
    ELSE IF Writes(sent, id) = {} THEN Absent
    ELSE [seq |-> Latest(id), deleted |-> FALSE]

Holding == {id \in RecordId : Kept(id).seq > 0}

KeptRow(id) ==
    [id |-> id, seq |-> Kept(id).seq, deleted |-> Kept(id).deleted,
     vector |-> IF Kept(id).deleted THEN <<>> ELSE stored[Kept(id).seq].vector,
     metadata |-> IF Kept(id).deleted THEN NoMetadata ELSE stored[Kept(id).seq].metadata]

Increasing(ids) == \A i, j \in DOMAIN ids : i < j => ids[i] < ids[j]

(* The rows of the table are those of the ids held, in the order of these. *)
Listed ==
    /\ \A i \in DOMAIN rows : rows[i].id \in Holding /\ rows[i] = KeptRow(rows[i].id)
    /\ \A i, j \in DOMAIN rows : i < j => rows[i].id < rows[j].id
    /\ \A id \in Holding : \E i \in DOMAIN rows : rows[i].id = id

Filed ==
    /\ rows # <<>> => Listed
    /\ file.size # 0 =>
          /\ rows # <<>> /\ Len(index) = Len(rows)
          /\ file.size \in {FileSize, FileSize - 1, 4}

ServedInv ==
    /\ TableInv /\ Filed
    /\ gone \subseteq RecordId
    /\ file.open \in BOOLEAN /\ file.size \in Int
    /\ file.open => file.size # 0
    /\ status # "Created" => gone = {} /\ rows = <<>> /\ file.size = 0
    /\ status = "Created" /\ ~file.open => memtable = [id \in RecordId |-> Kept(id)]

LEMMA LatestIs ==
    ASSUME sent \in Batches, NEW id \in RecordId, Writes(sent, id) # {}
    PROVE  /\ Latest(id) \in Writes(sent, id) /\ Latest(id) \in 1..Len(sent)
           /\ \A i \in Writes(sent, id) : i <= Latest(id)
<1>1. Len(sent) \in Nat /\ DOMAIN sent = 1..Len(sent)
  BY BatchIs
<1>2. Writes(sent, id) \subseteq 1..Len(sent)
  BY <1>1 DEF Writes
<1>3. Writes(sent, id) \in SUBSET (0..Len(sent))
  BY <1>1, <1>2
<1> QED BY <1>1, <1>2, <1>3, Largest DEF Latest

(* put_batch draws the numbers of its entries in their order, so the last  *)
(* of an id's records is the one that stays (src/memtable.rs:25-36).       *)
LEMMA LastOneStays ==
    ASSUME sent \in Batches, gone = {}, NEW e, e = Entries(sent)
    PROVE  InsertAll(EmptyLayer, [i \in DOMAIN e |-> LiveRecord(e[i].id, i)])
             = [id \in RecordId |-> Kept(id)]
<1> DEFINE rs == [i \in DOMAIN e |-> LiveRecord(e[i].id, i)]
<1>1. /\ DOMAIN rs = DOMAIN sent
      /\ \A i \in DOMAIN sent : rs[i] = [id |-> sent[i].id, seq |-> i, deleted |-> FALSE]
  BY DEF Entries, LiveRecord
<1> HIDE DEF rs
<1>2. \A id : Writes(rs, id) = Writes(sent, id)
  BY <1>1 DEF Writes
<1>3. ASSUME NEW id \in RecordId
      PROVE  InsertAll(EmptyLayer, rs)[id] = Kept(id)
  <2> DEFINE W == Writes(sent, id)
  <2>1. InsertAll(EmptyLayer, rs)[id]
          = IF \E i \in W : rs[i].seq >= 0 THEN SlotOf(rs[Winner(rs, id)]) ELSE Absent
    BY <1>2 DEF InsertAll, EmptyLayer, Absent
  <2>2. CASE W = {}
    BY <2>1, <2>2 DEF Kept
  <2>3. CASE W # {}
    <3>1. /\ Latest(id) \in W /\ Latest(id) \in DOMAIN sent
          /\ \A i \in W : i <= Latest(id) /\ i \in Nat /\ rs[i].seq = i
      <4>1. Len(sent) \in Nat /\ DOMAIN sent = 1..Len(sent)
        BY BatchIs
      <4>2. \A i \in W : i \in DOMAIN sent
        BY DEF Writes
      <4> QED BY <1>1, <2>3, <4>1, <4>2, LatestIs
    <3>2. {i \in Writes(rs, id) : \A j \in Writes(rs, id) : rs[j].seq <= rs[i].seq}
            = {Latest(id)}
      BY <1>2, <3>1
    <3> HIDE DEF W
    <3>3. Newest({Latest(id)}) = Latest(id)
      <4>1. \E i \in {Latest(id)} : \A j \in {Latest(id)} : j <= i
        BY <3>1
      <4> QED BY <4>1 DEF Newest
    <3>4. Winner(rs, id) = Latest(id)
      BY <3>2, <3>3, Zenon DEF Winner
    <3>5. SlotOf(rs[Latest(id)]) = [seq |-> Latest(id), deleted |-> FALSE]
      <4>1. rs[Latest(id)] = [id |-> sent[Latest(id)].id, seq |-> Latest(id), deleted |-> FALSE]
        BY <1>1, <3>1
      <4> QED BY <4>1 DEF SlotOf
    <3>6. \E i \in W : rs[i].seq >= 0
      BY <3>1
    <3> QED BY <2>1, <2>3, <3>4, <3>5, <3>6 DEF Kept, W
  <2> QED BY <2>2, <2>3
<1>4. InsertAll(EmptyLayer, rs) = [id \in RecordId |-> InsertAll(EmptyLayer, rs)[id]]
  BY DEF InsertAll
<1> QED BY <1>3, <1>4 DEF rs

(* An increasing list of as many numbers as there are lists them all.      *)
LEMMA AllListed ==
    ASSUME NEW H, IsFiniteSet(H), H \subseteq Nat,
           NEW ids \in [1..Cardinality(H) -> H], Increasing(ids)
    PROVE  \A x \in H : \E i \in 1..Cardinality(H) : ids[i] = x
<1>1. Cardinality(H) \in Nat /\ Cardinality(1..Cardinality(H)) = Cardinality(H)
  <2>1. Cardinality(H) \in Nat
    BY FS_CardinalityType
  <2>2. 1 \in Int /\ Cardinality(H) \in Int
    BY <2>1
  <2>3. Cardinality(1..Cardinality(H))
          = IF 1 > Cardinality(H) THEN 0 ELSE Cardinality(H) - 1 + 1
    BY <2>2, FS_Interval
  <2> QED BY <2>1, <2>3
<1>2. \A i, j \in 1..Cardinality(H) : ids[i] = ids[j] => i = j
  <2> SUFFICES ASSUME NEW i \in 1..Cardinality(H), NEW j \in 1..Cardinality(H), ids[i] = ids[j],
                      i # j
               PROVE  FALSE
    OBVIOUS
  <2>1. i < j \/ j < i
    BY <1>1
  <2>2. ids[i] \in Nat /\ ids[j] \in Nat
    OBVIOUS
  <2> QED BY <2>1, <2>2 DEF Increasing
<1>3. ids \in Injection(1..Cardinality(H), H)
  BY <1>2 DEF Injection, IsInjective
<1>4. ids \in Surjection(1..Cardinality(H), H)
  BY <1>1, <1>3, FS_Injection
<1> QED BY <1>4 DEF Surjection

LEMMA KeptIs ==
    ASSUME sent \in Batches, Answered, status = "Created", NEW id \in RecordId
    PROVE  /\ Kept(id).seq \in Nat /\ Kept(id).seq <= Len(sent) + 1
           /\ Kept(id).deleted \in BOOLEAN
           /\ Kept(id) = [seq |-> Kept(id).seq, deleted |-> Kept(id).deleted]
           /\ id \notin gone => Kept(id).seq <= Len(sent)
           /\ id \in gone => Kept(id).seq > 0 /\ Kept(id).deleted
           /\ id \notin gone /\ Writes(sent, id) = {} => ~(Kept(id).seq > 0)
           /\ id \notin gone /\ Writes(sent, id) # {} =>
                 /\ Kept(id).seq > 0 /\ ~Kept(id).deleted
                 /\ Kept(id).seq = Latest(id) /\ Latest(id) \in 1..Len(sent)
                 /\ stored[Latest(id)].vector = sent[Latest(id)].vector
                 /\ stored[Latest(id)].metadata = ToMetadata(sent[Latest(id)].text.json)
                 /\ Supported(sent[Latest(id)].text.json)
<1>1. Len(sent) \in Nat \ {0} /\ DOMAIN sent = 1..Len(sent)
  BY BatchIs
<1>2. CASE id \in gone
  BY <1>1, <1>2 DEF Kept
<1>3. CASE id \notin gone /\ Writes(sent, id) = {}
  BY <1>1, <1>3 DEF Kept, Absent
<1>4. CASE id \notin gone /\ Writes(sent, id) # {}
  <2>1. Latest(id) \in 1..Len(sent) /\ Kept(id) = [seq |-> Latest(id), deleted |-> FALSE]
    BY <1>4, LatestIs DEF Kept
  <2>2. stored = Entries(sent) /\ AcceptableBinary(sent)
    BY DEF Answered
  <2>3. /\ stored[Latest(id)].vector = sent[Latest(id)].vector
        /\ stored[Latest(id)].metadata = ToMetadata(sent[Latest(id)].text.json)
        /\ Supported(sent[Latest(id)].text.json)
    BY <1>1, <2>1, <2>2 DEF Entries, AcceptableBinary
  <2>4. Latest(id) \in Nat /\ Latest(id) > 0 /\ Latest(id) <= Len(sent) /\ Latest(id) <= Len(sent) + 1
    BY <1>1, <2>1
  <2> QED BY <1>4, <2>1, <2>3, <2>4
<1> QED BY <1>2, <1>3, <1>4

(* Whatever was held, the table can store: a vector that came in a body is *)
(* no longer than the body.                                                *)
LEMMA KeptRowIsStorable ==
    ASSUME ParserInv, Following, Answered, status = "Created", NEW id \in Holding
    PROVE  KeptRow(id) \in Row /\ Storable(KeptRow(id)) /\ KeptRow(id).id = id
<1>1. /\ sent \in Batches /\ phase = "ok" /\ Honest
  BY DEF Following, Announced, Answered
<1>2. id \in RecordId /\ id \in TableId
  BY IngestAssumption DEF Holding
<1>3. NoMetadata \in Metadata /\ \A m \in Metadata : Len(Bincode[m]) < Limit
  BY TableAssumption, SizeAssumption
<1>4. Kept(id).seq \in Nat /\ Kept(id).deleted \in BOOLEAN
  BY <1>1, <1>2, KeptIs
<1>5. CASE Kept(id).deleted
  <2>1. KeptRow(id) = [id |-> id, seq |-> Kept(id).seq, deleted |-> Kept(id).deleted,
                       vector |-> <<>>, metadata |-> NoMetadata]
    BY <1>5 DEF KeptRow
  <2>2. <<>> \in Seq(Float) /\ 4 * Len(<<>>) < Limit
    BY TableAssumption
  <2> QED BY <1>2, <1>3, <1>4, <2>1, <2>2 DEF Row, Storable
<1>6. CASE ~Kept(id).deleted
  <2> DEFINE i == Latest(id)
  <2>1. /\ Kept(id).seq = i /\ i \in 1..Len(sent)
        /\ stored[i].vector = sent[i].vector
        /\ stored[i].metadata = ToMetadata(sent[i].text.json)
        /\ Supported(sent[i].text.json)
    BY <1>1, <1>2, <1>6, KeptIs DEF Holding
  <2> HIDE DEF i
  <2>2. /\ sent[i].text \in Text /\ Dim(sent) \in Nat /\ Len(sent[i].vector) = Dim(sent)
        /\ sent[i].vector \in [1..Dim(sent) -> Float]
    BY <1>1, <2>1, BatchIs
  <2>3. sent[i].vector \in Seq(Float) /\ ToMetadata(sent[i].text.json) \in Metadata
    BY <2>1, <2>2, SizeAssumption
  <2>4. 4 * Dim(sent) < Limit
    <3>1. EncodedSize(sent) <= body.size /\ body.size \in Nat /\ body.size < Limit
      <4>1. body.size \in Nat /\ body.size <= BodyLimit
        BY ParserAssumption DEF ParserInv, ParserTypeOK, Body
      <4> QED BY <1>1, <4>1, WholeIsNotCut, SizeAssumption, ParserAssumption, TableAssumption
    <3>2. Len(sent) \in Nat \ {0} /\ 1 \in 1..Len(sent) /\ Len(sent) + 1 \in 1 + 1..Len(sent) + 1
          /\ Len(sent) + 1 \in 1..Len(sent) + 1
      BY <1>1, BatchIs
    <3>3. /\ StartOf(sent, 1 + 1) <= EncodedSize(sent) /\ EncodedSize(sent) \in Nat
          /\ StartOf(sent, 1 + 1) = 12 + 8 + 4 * Dim(sent) + 4 + sent[1].text.len
      BY <1>1, <3>2, StartsGrow, Starts DEF EncodedSize
    <3>4. sent[1].text.len \in Nat
      BY <1>1, <3>2, BatchIs
    <3>5. \A d, l, x, y, z \in Nat : 12 + 8 + 4 * d + 4 + l <= x /\ x <= y /\ y < z => 4 * d < z
      OBVIOUS
    <3> QED BY <2>2, <3>1, <3>3, <3>4, <3>5, TableAssumption
  <2>5. KeptRow(id) = [id |-> id, seq |-> Kept(id).seq, deleted |-> Kept(id).deleted,
                       vector |-> sent[i].vector, metadata |-> ToMetadata(sent[i].text.json)]
    BY <1>6, <2>1 DEF KeptRow
  <2>6. KeptRow(id) \in Row
    BY <1>2, <1>4, <2>3, <2>5 DEF Row
  <2>7. /\ KeptRow(id).metadata \in Metadata /\ Len(KeptRow(id).vector) = Dim(sent)
        /\ KeptRow(id).id = id
    BY <2>2, <2>3, <2>5
  <2> QED BY <1>3, <2>4, <2>6, <2>7 DEF Storable
<1> QED BY <1>4, <1>5, <1>6

(* Where the sections of a table's file end.                               *)
LEMMA SizeIsNumber ==
    ASSUME TableTypeOK
    PROVE  /\ FileSize \in Nat /\ EndOf(2) = 12 /\ EndOf(7) = FileSize
           /\ DOMAIN Sections = 1..7
<1> DEFINE E(x) == [n \in 0..7 |-> IF n = 0 THEN 0 ELSE x[n - 1] + Sections[n]]
           a == 8 + 41 * Len(index)
           m == Len(meta_blob)
           v == 4 * Len(vector_blob)
           g == [n \in 0..7 |->
                   CASE n = 0 -> 0 [] n = 1 -> 4 [] n = 2 -> 12 [] n = 3 -> 12 + a
                     [] n = 4 -> 20 + a [] n = 5 -> 20 + a + m [] n = 6 -> 28 + a + m
                     [] n = 7 -> 28 + a + m + v]
           h == CHOOSE x : x = E(x)
<1>1. a \in Nat /\ m \in Nat /\ v \in Nat
  BY DEF TableTypeOK
<1>2. /\ Sections[1] = 4 /\ Sections[2] = 8 /\ Sections[3] = a /\ Sections[4] = 8
      /\ Sections[5] = m /\ Sections[6] = 8 /\ Sections[7] = v
      /\ Len(Sections) = 7 /\ DOMAIN Sections = 1..7
  BY DEF Sections
<1> HIDE DEF a, m, v
<1>3. g = E(g)
  <2>1. ASSUME NEW n \in 0..7 PROVE g[n] = IF n = 0 THEN 0 ELSE g[n - 1] + Sections[n]
    <3>1. /\ g[0] = 0 /\ g[1] = 4 /\ g[2] = 12 /\ g[3] = 12 + a /\ g[4] = 20 + a
          /\ g[5] = 20 + a + m /\ g[6] = 28 + a + m /\ g[7] = 28 + a + m + v
      OBVIOUS
    <3> HIDE DEF g
    <3>2. n = 0 \/ n = 1 \/ n = 2 \/ n = 3 \/ n = 4 \/ n = 5 \/ n = 6 \/ n = 7
      OBVIOUS
    <3> QED BY <1>1, <1>2, <3>1, <3>2
  <2>2. g = [n \in 0..7 |-> g[n]]
    OBVIOUS
  <2> HIDE DEF g
  <2> QED BY <2>1, <2>2
<1>4. h = E(h)
  <2> HIDE DEF g, E
  <2> QED BY <1>3
<1>5. \A k : EndOf(k) = h[k]
  BY <1>2 DEF EndOf
<1> HIDE DEF h, g
<1>6. /\ h[0] = 0 /\ h[1] = 4 /\ h[2] = 12 /\ h[3] = 12 + a /\ h[4] = 20 + a
      /\ h[5] = 20 + a + m /\ h[6] = 28 + a + m /\ h[7] = 28 + a + m + v
  <2>1. h[0] = 0 /\ \A n \in 1..7 : h[n] = h[n - 1] + Sections[n]
    BY <1>4
  <2> HIDE DEF E
  <2>2. /\ h[1] = h[0] + 4 /\ h[2] = h[1] + 8 /\ h[3] = h[2] + a /\ h[4] = h[3] + 8
        /\ h[5] = h[4] + m /\ h[6] = h[5] + 8 /\ h[7] = h[6] + v
    BY <1>2, <2>1
  <2> QED BY <1>1, <2>1, <2>2
<1>7. FileSize = 28 + a + m + v /\ EndOf(2) = 12 /\ EndOf(7) = FileSize
  BY <1>2, <1>5, <1>6 DEF FileSize
<1> QED BY <1>1, <1>2, <1>7

(* A file all of whose sections are there is the file that was written.    *)
LEMMA WholeFile ==
    ASSUME TableTypeOK, file.size \in Int, file.size \in {FileSize, FileSize - 1, 4}, Whole
    PROVE  file.size = FileSize /\ FileSize \in Nat
<1>1. FileSize \in Nat /\ 12 <= file.size /\ FileSize <= file.size
  BY SizeIsNumber DEF Whole
<1> QED BY <1>1

LEMMA DeleteServes ==
    ASSUME ParserInv, Following, Answered, ServedInv, NEW id \in RecordId, Delete(id)
    PROVE  ServedInv'
<1>1. /\ status = "Created" /\ gone = {} /\ rows = <<>>
      /\ memtable' = Insert(memtable, Tombstone(id, Len(stored) + 1))
      /\ gone' = {id} /\ UNCHANGED <<tableVars, sent, status, stored, file>>
  BY DEF Delete
<1>2. sent \in Batches /\ stored = Entries(sent)
  BY <1>1 DEF Following, Announced, Answered
<1>3. Len(stored) = Len(sent) /\ Len(sent) \in Nat
  BY <1>2, BatchIs DEF Entries
<1>4. file.size = 0 /\ ~file.open
  BY <1>1 DEF ServedInv, Filed
<1>5. memtable = [x \in RecordId |-> Kept(x)]
  BY <1>1, <1>4 DEF ServedInv
<1>6. memtable' = [x \in RecordId |-> Kept(x)']
  <2>1. Kept(id).seq \in Nat /\ Kept(id).seq <= Len(sent)
    BY <1>1, <1>2, KeptIs
  <2>2. memtable[id] = Kept(id)
    BY <1>5
  <2>3. memtable' = [memtable EXCEPT ![id] = [seq |-> Len(sent) + 1, deleted |-> TRUE]]
    BY <1>1, <1>3, <2>1, <2>2 DEF Insert, Tombstone, SlotOf
  <2>4. Kept(id)' = [seq |-> Len(sent) + 1, deleted |-> TRUE]
    BY <1>1 DEF Kept
  <2>5. \A x \in RecordId \ {id} : Kept(x)' = Kept(x)
    BY <1>1 DEF Kept, Latest
  <2> QED BY <1>5, <2>3, <2>4, <2>5
<1>7. TableInv'
  BY <1>1 DEF ServedInv, tableVars, TableInv, TableTypeOK, PointsAt
<1>8. Filed'
  BY <1>1, <1>4 DEF Filed, tableVars
<1> QED BY <1>1, <1>4, <1>6, <1>7, <1>8 DEF ServedInv

LEMMA BeginFlushServes ==
    ASSUME ParserInv, Following, Answered, ServedInv, BeginFlush
    PROVE  ServedInv'
<1>1. /\ status = "Created" /\ rows = <<>>
      /\ UNCHANGED <<index, meta_blob, vector_blob, sent, status, stored, gone, memtable, file>>
  BY DEF BeginFlush
<1>2. sent \in Batches
  BY <1>1 DEF Following, Announced, Answered
<1>3. file.size = 0 /\ ~file.open
  BY <1>1 DEF ServedInv, Filed
<1>4. memtable = [x \in RecordId |-> Kept(x)]
  BY <1>1, <1>3 DEF ServedInv
<1>5. Held = Holding
  BY <1>4 DEF Held, Holding, Present
<1>6. PICK ids \in IdOrder : rows' = [i \in DOMAIN ids |-> RowOf(ids[i])]
  BY DEF BeginFlush
<1> DEFINE c == Cardinality(Holding)
<1>7. ids \in [1..c -> Holding] /\ Increasing(ids)
  BY <1>5, <1>6 DEF IdOrder, Increasing
<1>8. Holding \subseteq RecordId /\ Holding \subseteq Nat /\ IsFiniteSet(Holding) /\ c \in Nat
  <2>1. Holding \subseteq RecordId
    BY DEF Holding
  <2>2. IsFiniteSet(Holding)
    BY <2>1, LayersAssumption, FS_Subset
  <2> QED BY <2>1, <2>2, FS_CardinalityType, IngestAssumption, TableAssumption
<1>9. \A x \in Holding : \E i \in 1..c : ids[i] = x
  BY <1>7, <1>8, AllListed
<1> HIDE DEF c
<1>10. \A i \in 1..c : rows'[i] = KeptRow(ids[i]) /\ rows'[i].id = ids[i] /\ ids[i] \in Holding
  <2> SUFFICES ASSUME NEW i \in 1..c
               PROVE  rows'[i] = KeptRow(ids[i]) /\ rows'[i].id = ids[i] /\ ids[i] \in Holding
    OBVIOUS
  <2>1. ids[i] \in Holding /\ memtable[ids[i]] = Kept(ids[i])
    BY <1>4, <1>7, <1>8
  <2>2. rows'[i] = RowOf(ids[i])
    BY <1>6, <1>7
  <2>3. RowOf(ids[i]) = KeptRow(ids[i])
    BY <2>1 DEF RowOf, KeptRow
  <2> QED BY <2>1, <2>2, <2>3 DEF KeptRow
<1>11. \A x : Kept(x)' = Kept(x) /\ KeptRow(x)' = KeptRow(x)
  BY <1>1 DEF Kept, Latest, KeptRow
<1>12. Holding' = Holding
  BY <1>11 DEF Holding
<1>13. DOMAIN rows' = 1..c /\ rows' \in Seq(Row) /\ \A i \in 1..c : Storable(rows'[i])
  <2>1. rows' = [i \in 1..c |-> rows'[i]]
    BY <1>6, <1>7
  <2>2. \A i \in 1..c : rows'[i] \in Row /\ Storable(rows'[i])
    BY <1>1, <1>10, KeptRowIsStorable
  <2>3. rows' \in [1..c -> Row]
    BY <2>1, <2>2
  <2> QED BY <1>8, <2>2, <2>3
<1>14. Listed'
  <2>1. \A i \in 1..c : rows'[i].id = ids[i] /\ rows'[i] = KeptRow(ids[i])' /\ ids[i] \in Holding'
    BY <1>10, <1>11, <1>12
  <2>2. (\A i \in DOMAIN rows : rows[i].id \in Holding /\ rows[i] = KeptRow(rows[i].id))'
    BY <1>13, <2>1
  <2>3. (\A i, j \in DOMAIN rows : i < j => rows[i].id < rows[j].id)'
    BY <1>7, <1>13, <2>1 DEF Increasing
  <2>4. (\A id \in Holding : \E i \in DOMAIN rows : rows[i].id = id)'
    BY <1>9, <1>12, <1>13, <2>1
  <2> QED BY <2>2, <2>3, <2>4 DEF Listed
<1>15. Len(index) = 0 /\ index \in Seq(IndexEntry) /\ TableTypeOK
  <2>1. TableTypeOK /\ Len(rows) = 0
    BY <1>1 DEF ServedInv, TableInv
  <2>2. index \in Seq(IndexEntry) /\ Len(index) \in Nat /\ Len(index) <= 0
    BY <2>1 DEF TableTypeOK
  <2> QED BY <2>1, <2>2
<1>16. TableInv'
  <2>1. DOMAIN index' = {}
    BY <1>1, <1>15
  <2>2. Len(index') <= Len(rows')
    BY <1>1, <1>13, <1>15
  <2>3. TableTypeOK'
    BY <1>1, <1>13, <1>15, <2>2 DEF TableTypeOK
  <2> QED BY <2>1, <2>3 DEF TableInv
<1>17. Filed'
  BY <1>1, <1>3, <1>14 DEF Filed
<1>18. memtable' = [x \in RecordId |-> Kept(x)']
  BY <1>1, <1>4, <1>11
<1> QED BY <1>1, <1>3, <1>16, <1>17, <1>18 DEF ServedInv

(* The two steps that neither delete nor begin a table keep what is held.  *)
LEMMA FileStaysTrue ==
    ASSUME ServedInv, UNCHANGED <<tableVars, sent, status, stored, gone>>
    PROVE  /\ TableInv' /\ FileSize' = FileSize
           /\ \A x : Kept(x)' = Kept(x)
           /\ Listed => Listed'
<1>1. UNCHANGED <<rows, index, meta_blob, vector_blob, sent, status, stored, gone>>
  BY DEF tableVars
<1>2. \A x : Kept(x)' = Kept(x) /\ KeptRow(x)' = KeptRow(x)
  BY <1>1 DEF Kept, Latest, KeptRow
<1>3. Holding' = Holding
  BY <1>2 DEF Holding
<1>4. TableInv'
  BY <1>1 DEF ServedInv, TableInv, TableTypeOK, PointsAt
<1>5. FileSize' = FileSize
  BY <1>1 DEF FileSize, EndOf, Sections
<1>6. Listed => Listed'
  BY <1>1, <1>2, <1>3 DEF Listed
<1> QED BY <1>2, <1>4, <1>5, <1>6

LEMMA FlushRowServes ==
    ASSUME ServedInv, FlushRow
    PROVE  ServedInv'
<1>1. /\ WriteRow /\ rows' = rows /\ Len(index) < Len(rows)
      /\ UNCHANGED <<sent, status, stored, gone, memtable, file>>
  BY DEF FlushRow, WriteRow
<1>2. file.size = 0 /\ ~file.open
  <2>1. Len(index) \in Nat /\ Len(rows) \in Nat
    BY DEF ServedInv, TableInv, TableTypeOK
  <2> QED BY <1>1, <2>1 DEF ServedInv, Filed
<1>3. TableInv'
  BY <1>1, WriteRowKeepsTable DEF ServedInv
<1>4. \A x : Kept(x)' = Kept(x) /\ KeptRow(x)' = KeptRow(x)
  BY <1>1 DEF Kept, Latest, KeptRow
<1>5. Holding' = Holding
  BY <1>4 DEF Holding
<1>6. Filed'
  BY <1>1, <1>2, <1>4, <1>5 DEF Filed, Listed, ServedInv
<1> QED BY <1>1, <1>2, <1>3, <1>4, <1>6 DEF ServedInv

LEMMA FinishFileServes ==
    ASSUME ServedInv, FinishFile
    PROVE  ServedInv'
<1>1. /\ rows # <<>> /\ Len(index) = Len(rows) /\ file.size = 0
      /\ UNCHANGED <<tableVars, sent, status, stored, gone, memtable>>
  BY DEF FinishFile
<1>2. PICK n \in {FileSize, FileSize - 1, 4} : file' = [size |-> n, open |-> FALSE]
  BY DEF FinishFile
<1>3. /\ TableInv' /\ FileSize' = FileSize /\ \A x : Kept(x)' = Kept(x)
      /\ Listed => Listed'
  BY <1>1, FileStaysTrue
<1>4. status = "Created" /\ ~file.open /\ Listed
  BY <1>1 DEF ServedInv, Filed
<1>5. Filed'
  BY <1>1, <1>2, <1>3, <1>4 DEF Filed, tableVars
<1>6. n \in Int
  <2>1. FileSize \in Int
    BY SizeIsNumber DEF ServedInv, TableInv
  <2> QED BY <2>1
<1>7. memtable' = [x \in RecordId |-> Kept(x)']
  BY <1>1, <1>3, <1>4 DEF ServedInv
<1> QED BY <1>1, <1>2, <1>3, <1>4, <1>5, <1>6, <1>7 DEF ServedInv, tableVars

LEMMA OpenTableServes ==
    ASSUME ServedInv, OpenTable
    PROVE  ServedInv'
<1>1. /\ file.size > 0 /\ ~file.open /\ Whole
      /\ file' = [file EXCEPT !.open = TRUE]
      /\ vector_blob' = SubSeq(vector_blob, 1,
                               (4 * Len(vector_blob) - (FileSize - file.size)) \div 4)
      /\ UNCHANGED <<rows, index, meta_blob, sent, status, stored, gone>>
  BY DEF OpenTable
<1>2. /\ file.size \in Int /\ TableTypeOK /\ file.size \in {FileSize, FileSize - 1, 4}
      /\ rows # <<>> /\ Len(index) = Len(rows) /\ status = "Created" /\ Listed
  BY <1>1 DEF ServedInv, TableInv, Filed
<1>3. file.size = FileSize /\ FileSize \in Nat
  BY <1>1, <1>2, WholeFile
<1>4. vector_blob' = vector_blob
  <2>1. vector_blob \in Seq(Float) /\ Len(vector_blob) \in Nat
    BY <1>2 DEF TableTypeOK
  <2>2. FileSize - file.size = 0
    BY <1>3
  <2>3. (4 * Len(vector_blob) - 0) \div 4 = Len(vector_blob)
    <3>1. 4 * Len(vector_blob) - 0 = 4 * Len(vector_blob)
      BY <2>1
    <3> QED BY <2>1, <3>1, FloatsFromBytes
  <2>4. SubSeq(vector_blob, 1, Len(vector_blob)) = vector_blob
    BY <2>1, SubSeqFull
  <2> QED BY <1>1, <2>2, <2>3, <2>4
<1>5. /\ TableInv' /\ FileSize' = FileSize /\ Listed'
  BY <1>1, <1>2, <1>4, FileStaysTrue DEF tableVars
<1>6. file'.size = file.size /\ file'.open = TRUE
  BY <1>1
<1>7. Filed'
  BY <1>1, <1>2, <1>5, <1>6 DEF Filed
<1> QED BY <1>1, <1>2, <1>5, <1>6, <1>7 DEF ServedInv

LEMMA AnswerServes ==
    ASSUME ParserInv, Following, Answered, ServedInv, PutBatchBinary
    PROVE  ServedInv'
<1>1. /\ Honest /\ status = "none" /\ UNCHANGED <<tableVars, sent, gone, file>>
  BY DEF PutBatchBinary, Answer
<1>2. gone = {} /\ rows = <<>> /\ file.size = 0 /\ ~file.open /\ sent \in Batches
  BY <1>1 DEF ServedInv, Following, Announced
<1>3. TableInv'
  BY <1>1 DEF ServedInv, tableVars, TableInv, TableTypeOK, PointsAt
<1>4. Filed'
  BY <1>1, <1>2 DEF Filed, tableVars
<1>5. status' = "Created" => memtable' = [x \in RecordId |-> Kept(x)']
  <2> SUFFICES ASSUME status' = "Created"
               PROVE  memtable' = [x \in RecordId |-> Kept(x)']
    OBVIOUS
  <2>1. /\ phase = "ok" /\ stored' = Entries(Decoded)
        /\ memtable' = InsertAll(EmptyLayer, [i \in DOMAIN stored' |-> LiveRecord(stored'[i].id, i)])
    BY DEF PutBatchBinary, Answer
  <2>2. stored' = Entries(sent)
    BY <1>1, <2>1, WhatArrivedIsSent
  <2>3. memtable' = [x \in RecordId |-> Kept(x)]
    BY <1>2, <2>1, <2>2, LastOneStays
  <2>4. \A x : Kept(x)' = Kept(x)
    BY <1>1 DEF Kept, Latest
  <2> QED BY <2>3, <2>4
<1> QED BY <1>1, <1>2, <1>3, <1>4, <1>5 DEF ServedInv, tableVars

LEMMA NextServes ==
    ASSUME ParserInv, Following, Answered, ServedInv, [IngestNext]_ingestVars
    PROVE  ServedInv'
<1>1. CASE UNCHANGED <<tableVars, sent, status, stored, gone, memtable, file>>
  <2>1. /\ TableInv' /\ FileSize' = FileSize /\ \A x : Kept(x)' = Kept(x)
        /\ Listed => Listed'
    BY <1>1, FileStaysTrue
  <2>2. Filed'
    BY <1>1, <2>1 DEF ServedInv, Filed, tableVars
  <2> QED BY <1>1, <2>1, <2>2 DEF ServedInv, tableVars
<1>2. \/ PutBatchBinary \/ \E id \in RecordId : Delete(id)
      \/ BeginFlush \/ FlushRow \/ FinishFile \/ OpenTable
      \/ UNCHANGED <<tableVars, sent, status, stored, gone, memtable, file>>
  BY DEF IngestNext, Parse, Rest, ingestVars
<1> QED BY <1>1, <1>2, AnswerServes, DeleteServes, BeginFlushServes, FlushRowServes,
           FinishFileServes, OpenTableServes

LEMMA InitServes == IngestInit => ServedInv
<1> SUFFICES ASSUME IngestInit PROVE ServedInv
  OBVIOUS
<1>1. TableInv
  BY DEF IngestInit, TableInv, TableTypeOK
<1>2. Filed
  BY DEF IngestInit, Filed
<1> QED BY <1>1, <1>2 DEF IngestInit, ServedInv

LEMMA ServedInvariant == IngestSpec => [](ParserInv /\ Following /\ Answered /\ ServedInv)
<1>1. (ParserInv /\ Following /\ Answered /\ ServedInv) /\ [IngestNext]_ingestVars => ServedInv'
  BY NextServes
<1> QED BY <1>1, InitServes, AnsweredInvariant, PTL DEF IngestSpec

(* What the memtable or the table has of an id, as an answer.              *)
LEMMA AnswerIsExpected ==
    ASSUME sent \in Batches, Answered, status = "Created", NEW id \in RecordId
    PROVE  /\ id \in Holding => Response(KeptRow(id)) = Expected(id)
           /\ id \notin Holding => Expected(id) = NotFound
<1>1. CASE id \in gone
  <2>1. KeptRow(id).deleted /\ id \in Holding
    BY <1>1, KeptIs DEF KeptRow, Holding
  <2> QED BY <1>1, <2>1 DEF Response, Expected
<1>2. CASE id \notin gone /\ Writes(sent, id) = {}
  <2>1. id \notin Holding
    BY <1>2, KeptIs DEF Holding
  <2> QED BY <1>2, <2>1 DEF Expected
<1>3. CASE id \notin gone /\ Writes(sent, id) # {}
  <2> DEFINE i == Latest(id)
  <2>1. /\ id \in Holding /\ ~Kept(id).deleted /\ Kept(id).seq = i
        /\ stored[i].vector = sent[i].vector
        /\ stored[i].metadata = ToMetadata(sent[i].text.json)
    BY <1>3, KeptIs DEF Holding
  <2>2. /\ ~KeptRow(id).deleted /\ KeptRow(id).id = id /\ KeptRow(id).vector = sent[i].vector
        /\ KeptRow(id).metadata = ToMetadata(sent[i].text.json)
    BY <2>1 DEF KeptRow
  <2>3. Response(KeptRow(id)) = [id |-> id, vector |-> Shown(sent[i].vector),
                                 metadata |-> FromMetadata(ToMetadata(sent[i].text.json))]
    BY <2>2 DEF Response
  <2>4. Expected(id) = [id |-> id, vector |-> Shown(sent[i].vector),
                        metadata |-> FromMetadata(ToMetadata(sent[i].text.json))]
    BY <1>3 DEF Expected
  <2> QED BY <2>1, <2>3, <2>4
<1> QED BY <1>1, <1>2, <1>3

(* From the client's encoder through the parser, the memtable, the table   *)
(* and its binary search to the answer, for every batch: a record is       *)
(* answered as it was sent last, and one deleted since is not found        *)
(* (src/bin/server.rs:762-807, src/memtable.rs, src/sstable.rs).           *)
THEOREM RecordsComeBack == IngestSpec => []ServedAsSent
<1>1. ASSUME ParserInv, Following, Answered, ServedInv PROVE ServedAsSent
  <2> SUFFICES ASSUME status = "Created", NEW id \in RecordId
               PROVE  GetRecord(id) = Expected(id)
    BY DEF ServedAsSent
  <2>1. sent \in Batches
    BY <1>1 DEF Following, Announced, Answered
  <2>2. /\ id \in Holding => Response(KeptRow(id)) = Expected(id)
        /\ id \notin Holding => Expected(id) = NotFound
    BY <1>1, <2>1, AnswerIsExpected
  <2>3. CASE ~file.open
    <3>1. memtable[id] = Kept(id)
      BY <1>1, <2>3 DEF ServedInv
    <3>2. Present(memtable, id) <=> id \in Holding
      BY <3>1 DEF Present, Holding
    <3>3. RowOf(id) = KeptRow(id)
      BY <3>1 DEF RowOf, KeptRow
    <3> QED BY <2>2, <2>3, <3>2, <3>3 DEF GetRecord
  <2>4. CASE file.open
    <3>1. /\ TableInv /\ TableTypeOK /\ Listed /\ Len(index) = Len(rows)
      BY <1>1, <2>4 DEF ServedInv, Filed, TableInv
    <3>2. /\ index \in Seq(IndexEntry) /\ rows \in Seq(Row) /\ Len(index) \in Nat
          /\ DOMAIN index = 1..Len(index) /\ DOMAIN rows = 1..Len(index)
      BY <3>1 DEF TableTypeOK
    <3>3. \A i \in 1..Len(index) : index[i].id = rows[i].id /\ Reconstruct(index[i]) = rows[i]
      <4> SUFFICES ASSUME NEW i \in 1..Len(index)
                   PROVE  index[i].id = rows[i].id /\ Reconstruct(index[i]) = rows[i]
        OBVIOUS
      <4>1. index[i] \in IndexEntry /\ rows[i] \in Row /\ PointsAt(index[i], rows[i])
        BY <3>1, <3>2 DEF TableInv
      <4> QED BY <4>1, PointsReadBack DEF PointsAt
    <3>4. \A i, j \in 1..Len(index) : i < j => index[i].id < index[j].id
      BY <3>1, <3>2, <3>3 DEF Listed
    <3>5. id \in TableId
      BY IngestAssumption
    <3>6. CASE SearchFor(id) = 0 /\ \A i \in 1..Len(index) : index[i].id # id
      <4>1. id \notin Holding
        BY <3>1, <3>2, <3>3, <3>6 DEF Listed
      <4> QED BY <2>2, <2>4, <3>6, <4>1 DEF GetRecord, TableLookup
    <3>7. CASE SearchFor(id) \in 1..Len(index) /\ index[SearchFor(id)].id = id
      <4>1. SearchFor(id) # 0
        BY <3>2, <3>7
      <4>2. /\ rows[SearchFor(id)].id = id /\ id \in Holding
            /\ Reconstruct(index[SearchFor(id)]) = KeptRow(id)
        BY <3>1, <3>2, <3>3, <3>7 DEF Listed
      <4> QED BY <2>2, <2>4, <4>1, <4>2 DEF GetRecord, TableLookup
    <3> QED BY <3>1, <3>4, <3>5, <3>6, <3>7, SearchFinds
  <2> QED BY <2>3, <2>4
<1> QED BY <1>1, ServedInvariant, PTL
=============================================================================
