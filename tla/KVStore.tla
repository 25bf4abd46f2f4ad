------------------------------ MODULE KVStore ------------------------------
(***************************************************************************)
(* What the storage engine promises its callers, with no log, table or     *)
(* step in sight: a map that is updated by one write or batch at a time,   *)
(* that crashes and comes back.                                            *)
(*                                                                         *)
(* An acknowledged write is safe: until a later write of the same id it is *)
(* what readers see and what a restart brings back.  A write that failed   *)
(* or was cut off is in limbo: it may or may not be there after the next   *)
(* restart (record by record, even for a batch), but never in place of a   *)
(* later acknowledged one.                                                 *)
(***************************************************************************)
EXTENDS Naturals, Sequences

CONSTANTS
    Id,
    Value,      \* what an id can be bound to
    Nothing     \* the binding of an id nothing was written to

VARIABLES
    up,         \* is the store open?
    kv,         \* what readers see while it is
    safe,       \* the last acknowledged binding of each id
    pending,    \* the writes of the running operation, in order
    limbo,      \* writes that failed or were cut off, not yet superseded
    lossy       \* the medium has damaged what a restart would need

vars == <<up, kv, safe, pending, limbo, lossy>>

WriteOf == [id : Id, value : Value]

WritesIn(ws) == {ws[i] : i \in DOMAIN ws}

(* m after the writes ws, one after the other. *)
Update(m, ws) ==
    [id \in Id |->
        LET S == {i \in DOMAIN ws : ws[i].id = id}
        IN  IF S = {} THEN m[id]
            ELSE ws[CHOOSE i \in S : \A j \in S : j <= i].value]

Init ==
    /\ up = FALSE
    /\ kv = [id \in Id |-> Nothing]
    /\ safe = kv
    /\ pending = <<>>
    /\ limbo = {}
    /\ lossy = FALSE

Start ==
    /\ up /\ pending = <<>>
    /\ pending' \in Seq(WriteOf)
    /\ UNCHANGED <<up, kv, safe, limbo>>

TakeEffect ==
    /\ up
    /\ kv' = Update(kv, pending)
    /\ UNCHANGED <<up, safe, pending, limbo>>

ReturnOk ==
    /\ up
    /\ kv' = Update(kv, pending)
    /\ safe' = Update(safe, pending)
    /\ limbo' = {w \in limbo : \A v \in WritesIn(pending) : v.id # w.id}
    /\ pending' = <<>>
    /\ UNCHANGED up

ReturnErr ==
    /\ up
    /\ limbo' = limbo \cup WritesIn(pending)
    /\ pending' = <<>>
    /\ UNCHANGED <<up, kv, safe>>

Crash ==
    /\ up /\ ~up'
    /\ kv' = [id \in Id |-> Nothing]
    /\ limbo' = limbo \cup WritesIn(pending)
    /\ pending' = <<>>
    /\ UNCHANGED safe

Recover ==
    /\ ~up /\ up'
    /\ kv' \in [Id -> Value]
    /\ lossy \/ \A id \in Id :
          kv'[id] \in {safe[id]} \cup {w.value : w \in {x \in limbo : x.id = id}}
    /\ safe' = kv'
    /\ limbo' = {}
    /\ UNCHANGED pending

(* The medium is damaged or repaired behind the store's back. *)
Next ==
    /\ lossy' \in BOOLEAN
    /\ \/ Start \/ TakeEffect \/ ReturnOk \/ ReturnErr \/ Crash \/ Recover
       \/ UNCHANGED <<up, kv, safe, pending, limbo>>

Spec == Init /\ [][Next]_vars
=============================================================================
