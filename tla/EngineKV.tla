------------------------------ MODULE EngineKV ------------------------------
(***************************************************************************)
(* The engine implements the abstract store: the refinement mapping from   *)
(* Engine to KVStore.                                                      *)
(***************************************************************************)
EXTENDS Engine

Visible == IF pc = "down" THEN EmptyLayer ELSE [id \in RecordId |-> Seen(View[id])]

WriteFrom(r) == [id |-> r.id, value |-> Seen(SlotOf(r))]

KV == INSTANCE KVStore WITH
        Id      <- RecordId,
        Value   <- Slot,
        Nothing <- Absent,
        up      <- pc # "down",
        kv      <- Visible,
        safe    <- [id \in RecordId |-> Seen(acked[id])],
        pending <- [i \in DOMAIN op.recs |-> WriteFrom(op.recs[i])],
        limbo   <- {WriteFrom(r) : r \in
                      {x \in UNION limbo : x.seq > acked[x.id].seq}},
        lossy   <- Buried # {}

(* Every behaviour of the engine, with its crashes, torn frames and I/O    *)
(* errors, is one of the abstract store, flush and compaction being        *)
(* invisible.                                                              *)
EngineImplementsKV == KV!Spec
=============================================================================
