------------------------------ MODULE PowerLoss ------------------------------
(***************************************************************************)
(* The storage engine on a disk that keeps of an operation only what was   *)
(* synced.  The code syncs files, never the directory: write_sstable syncs *)
(* the temporary file and then renames it, compact() unlinks the old       *)
(* tables, and Wal::clear truncates the log and returns.  Until something  *)
(* forces them out, a power loss may undo each of these on its own.  What  *)
(* does force one out is the next append: sync_data of the log makes its   *)
(* length durable and so the truncation before it.                         *)
(*                                                                         *)
(* Engine's own Crash takes renames, unlinks and truncations for durable   *)
(* at once; here PowerLoss replaces it.                                    *)
(***************************************************************************)
EXTENDS Engine

VARIABLES
    names,  \* disk: the tables each file name may be found to hold,
            \* EmptyLayer for a name that may be missing
    stale   \* disk: earlier contents the log may be found with

powerVars == <<vars, names, stale>>

PowerInit ==
    /\ Init
    /\ names = [n \in SstId |-> {EmptyLayer}]
    /\ stale = {}

(* A rename or an unlink adds to what its name may be found to hold; a     *)
(* truncation leaves the old log as a possibility until the next sync.     *)
Unsettled ==
    /\ names' = [n \in SstId |-> names[n] \cup {files'[n]}]
    /\ stale' = IF pc = "append" /\ pc' = "apply" THEN {}
                ELSE IF pc = "walclear" /\ log' # log THEN stale \cup {walVars}
                ELSE stale

Running ==
    \/ Read \/ Write \/ WriteStep \/ Flush \/ FlushStep
    \/ Compact \/ CompactStep \/ Open \/ OpenFails

(* What may be left of a log l whose first s frames were synced.           *)
Remains(l, s) ==
    {SubSeq(l, 1, n) : n \in s..Len(l)} \cup
    UNION {{Append(SubSeq(l, 1, n - 1), [l[n] EXCEPT !.words = w]) :
                w \in 1..l[n].words} : n \in (s + 1)..Len(l)}

PowerOff ==
    /\ pc # "down"
    /\ crashes < MaxCrashes
    /\ \E w \in stale \cup {walVars} : log' \in Remains(w[1], w[2])
    /\ synced' = Len(log')
    /\ \E f \in [SstId -> UNION {names[n] : n \in SstId}] :
          (\A n \in SstId : f[n] \in names[n]) /\ files' = f
    /\ onDisk' = {n \in SstId : files'[n] # EmptyLayer}
    /\ names' = [n \in SstId |-> {files'[n]}]
    /\ stale' = {}
    /\ pc' = "down"
    /\ op' = NoOp
    /\ limbo' = LimboAfter(op)
    /\ memtable' = EmptyLayer
    /\ sstables' = <<>>
    /\ nextSst' = 1
    /\ seq' = 0
    /\ crashes' = crashes + 1
    /\ UNCHANGED <<acked, tainted, faults>>

PowerNext == (Running /\ Unsettled) \/ PowerOff

PowerSpec == PowerInit /\ [][PowerNext]_powerVars

-----------------------------------------------------------------------------
(* engine.rs:401-407: the table is synced, by write_sstable's write to a   *)
(* temporary name and rename, before the log is cleared, so that dying in  *)
(* between loses no data.  After a power loss, open() brings back every    *)
(* acknowledged write, from the log or from a table.                       *)
AckedOutlivesPower ==
    pc = "down" =>
        \A id \in RecordId : acked[id] # Absent =>
            ~ReplayFails /\ Seen(Recovered[id]) \in Survivors(id)
=============================================================================
