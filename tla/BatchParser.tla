----------------------------- MODULE BatchParser -----------------------------
(***************************************************************************)
(* parse_binary_batch of src/bin/server.rs: the bulk-insert format         *)
(*     [magic: 4][record_count: u32][dim: u32]                             *)
(*     then per record [id: u64][dim * f32][metadata_len: u32][metadata]   *)
(* read by one cursor that is checked against the body before every slice. *)
(*                                                                         *)
(* A field the parser reads is represented by the span of the body it was  *)
(* read from.  What the bytes say is up to the sender: the header is       *)
(* chosen with the body, and each metadata length when the cursor reaches  *)
(* it, which is once.                                                      *)
(***************************************************************************)
EXTENDS Integers, Sequences

CONSTANTS
    U32,        \* u32 values are below this (the code: 2^32)
    Usize,      \* usize values are below this (64-bit targets: 2^64)
    BodyLimit   \* the router's DefaultBodyLimit

ASSUME ParserAssumption ==
    /\ U32 \in Nat \ {0} /\ Usize \in Nat /\ BodyLimit \in Nat
    /\ BodyLimit + 4 * U32 + 8 < Usize

VARIABLES
    body,       \* length of the body, and what its first 12 bytes say
    cursor,
    phase,      \* the field that is read next, or how the parse ended
    spans,      \* where the fields of the current record were found
    meta_len,   \* the current record's
    records     \* the spans of the records parsed so far

parserVars == <<body, cursor, phase, spans, meta_len, records>>

Field == {"id", "vector", "length", "meta"}

Ended == {"ok", "TooShort", "BadMagic", "Truncated", "BadMetadata"}

Body == [size : 0..BodyLimit, magic : BOOLEAN, count : 0..(U32 - 1), dim : 0..(U32 - 1)]

Nowhere == [f \in Field |-> <<0, 0>>]

ParserInit ==
    /\ body \in Body
    /\ cursor = 0
    /\ phase = "header"
    /\ spans = Nowhere
    /\ meta_len = 0
    /\ records = <<>>

-----------------------------------------------------------------------------
(* usize arithmetic of a release build.                                    *)
Wrap(n) == IF n < Usize THEN n ELSE n % Usize

(* Mutant: a field is checked to begin in the body, not to end there.      *)
FitsFirstByte(n) == cursor < body.size

(* Mutant: a field is compared with the body and not with what is left.    *)
FitsAlone(n) == Wrap(n) <= body.size

Fits(n) == Wrap(cursor + n) <= body.size

EndWith(outcome) ==
    /\ phase' = outcome
    /\ UNCHANGED <<body, cursor, spans, meta_len, records>>

ReadHeader ==
    /\ phase = "header"
    /\ \/ body.size < 12 /\ EndWith("TooShort")
       \/ body.size >= 12 /\ ~body.magic /\ EndWith("BadMagic")
       \/ /\ body.size >= 12 /\ body.magic
          /\ cursor' = 12
          /\ phase' = "id"
          /\ UNCHANGED <<body, spans, meta_len, records>>

(* A field of n bytes: checked, sliced, passed over.                       *)
Sliced(field, n) == [spans EXCEPT ![field] = <<cursor, Wrap(cursor + n)>>]

Take(field, n, next) ==
    /\ phase = field
    /\ Fits(n)
    /\ spans' = Sliced(field, n)
    /\ cursor' = Wrap(cursor + n)
    /\ phase' = next
    /\ UNCHANGED <<body, records>>

CutOff(field, n) ==
    /\ phase = field
    /\ ~Fits(n)
    /\ EndWith("Truncated")

More == Len(records) < body.count

ReadId ==
    /\ More
    /\ Take("id", 8, "vector") \/ CutOff("id", 8)
    /\ UNCHANGED meta_len

VecBytesAsCount == body.dim \* Mutant: dim taken for the width in bytes

VecBytes == Wrap(4 * body.dim)

ReadVector ==
    /\ Take("vector", VecBytes, "length") \/ CutOff("vector", VecBytes)
    /\ UNCHANGED meta_len

ReadLength ==
    \/ /\ Take("length", 4, "meta")
       /\ meta_len' \in 0..(U32 - 1)
    \/ CutOff("length", 4)

(* serde_json has the last word on metadata that is not empty; one that    *)
(* fails ends the parse with the cursor before it.                         *)
ReadMeta ==
    \/ /\ phase = "meta"
       /\ Fits(meta_len)
       /\ records' = Append(records, Sliced("meta", meta_len))
       /\ cursor' = Wrap(cursor + meta_len)
       /\ phase' = "id"
       /\ spans' = Nowhere
       /\ meta_len' = 0
       /\ UNCHANGED body
    \/ /\ phase = "meta"
       /\ Fits(meta_len)
       /\ meta_len > 0
       /\ EndWith("BadMetadata")
    \/ CutOff("meta", meta_len)

Finish ==
    /\ phase = "id"
    /\ ~More
    /\ EndWith("ok")

ParserNext ==
    ReadHeader \/ ReadId \/ ReadVector \/ ReadLength \/ ReadMeta \/ Finish

ParserSpec == ParserInit /\ [][ParserNext]_parserVars

-----------------------------------------------------------------------------
(* Safety. *)

Order == <<"id", "vector", "length", "meta">>

(* Where the part of the body that was read so far ends.                   *)
Before(k) == IF k = 1 THEN 12 ELSE records[k - 1]["meta"][2]

Tiled(rec, from, size) ==
    /\ rec["id"][1] = from
    /\ \A i \in 1..3 : rec[Order[i]][2] = rec[Order[i + 1]][1]
    /\ \A f \in Field : rec[f][1] <= rec[f][2] /\ rec[f][2] <= size

(* Whatever the body says of its own lengths: no slice is out of bounds    *)
(* (it would panic), and the fields follow one another from byte 12 on     *)
(* without gap or overlap, so no byte is read as two things.               *)
SpansTile ==
    /\ \A k \in DOMAIN records : Tiled(records[k], Before(k), body.size)
    /\ \A f \in Field : spans[f][1] <= spans[f][2] /\ spans[f][2] <= body.size

(* record_count is a claim of the sender: the loop still never runs more   *)
(* often than the body has room for the 12 bytes of the shortest record.   *)
RoundsFitTheBody == 12 * Len(records) <= body.size

(* Both, which is what keeps the parser inside the body.                   *)
ParserStaysInBody == SpansTile /\ RoundsFitTheBody

ParserTypeOK ==
    /\ body \in Body
    /\ cursor \in 0..body.size
    /\ phase \in {"header"} \cup Field \cup Ended
    /\ spans \in [Field -> Nat \X Nat]
    /\ meta_len \in 0..(U32 - 1)
    /\ records \in Seq([Field -> Nat \X Nat])

(* How far the cursor is in the record it is at.                           *)
Here == Before(Len(records) + 1)

CursorKeepsPace ==
    /\ phase = "header" => cursor = 0 /\ records = <<>>
    /\ phase \in Field => 12 * Len(records) + 12 <= cursor
    /\ phase = "id" => cursor = Here
    /\ phase = "vector" =>
          /\ spans["id"][1] = Here /\ spans["id"][2] = cursor
          /\ 12 * Len(records) + 20 <= cursor
    /\ phase = "length" =>
          /\ spans["id"][1] = Here /\ spans["id"][2] = spans["vector"][1]
          /\ spans["vector"][2] = cursor
          /\ 12 * Len(records) + 20 <= cursor
    /\ phase = "meta" =>
          /\ spans["id"][1] = Here /\ spans["id"][2] = spans["vector"][1]
          /\ spans["vector"][2] = spans["length"][1]
          /\ spans["length"][2] = cursor
          /\ 12 * Len(records) + 24 <= cursor

(* The strengthening of the two that the proof needs.                      *)
ParserInv == ParserTypeOK /\ SpansTile /\ RoundsFitTheBody /\ CursorKeepsPace
=============================================================================
