------------------------------ MODULE MCIngest ------------------------------
(* A bulk insert of up to two records; lengths and counts are below 4.     *)
EXTENDS Ingest

Json(kind, val) == [kind |-> kind, val |-> val]

MCText ==
    {[len |-> 0, json |-> Json("empty", 0)], [len |-> 1, json |-> Json("integer", 1)],
     [len |-> 2, json |-> Json("string", 0)], [len |-> 2, json |-> Json("null", 0)],
     [len |-> 3, json |-> Json("malformed", 0)]}

MCNoMetadata == Json("map", 0)

MCMetadata == {MCNoMetadata, Json("number", 1), Json("string", 0)}

(* A map is written as its length and its entries.                         *)
MCBincode ==
    [m \in MCMetadata |->
        CASE m = MCNoMetadata -> <<0>>
          [] m.kind = "number" -> <<1, 2, 1>>
          [] m.kind = "string" -> <<1, 3>>]
=============================================================================
