------------------------------- MODULE Engine -------------------------------
(***************************************************************************)
(* The storage engine of src/engine.rs: a write-ahead log, a memtable and  *)
(* a stack of immutable SSTables in one directory, with put, put_batch,    *)
(* delete, flush, compact and open.                                        *)
(*                                                                         *)
(* Every operation takes `&mut self', so at most one runs at a time; what  *)
(* makes the engine hard is that it may die, or the disk may fail, between *)
(* any two of an operation's steps.  An operation is therefore cut into    *)
(* one action per effect on the disk, and `pc' says which comes next.  The *)
(* vector index, which open() drops and no step here reads, is added to    *)
(* this module by IndexedEngine.                                           *)
(***************************************************************************)
EXTENDS Wal

CONSTANTS
    FlushThreshold, \* flush_threshold: memtable entries that force a flush
    NameBase,       \* the base table numbers are written in (the code: 10)
    NameLimit,      \* first number longer than the padding (the code: 10^6)
    MaxBatch,       \* bound: entries in one put_batch
    MaxSst,         \* bound: table numbers used
    MaxCrashes,     \* bound: crashes
    MaxFaults       \* bound: I/O errors

ASSUME EngineAssumption ==
    /\ FlushThreshold \in Nat \ {0}
    /\ NameBase \in Nat \ {0, 1}
    /\ NameLimit \in Nat \ {0}
    /\ MaxBatch \in Nat
    /\ MaxSst \in Nat /\ MaxSst < NameBase * NameLimit
    /\ MaxCrashes \in Nat
    /\ MaxFaults \in Nat

SstId == 1..MaxSst

VARIABLES
    files,      \* disk: the .sst files, EmptyLayer where there is none
    onDisk,     \* disk: the numbers of the .sst files that exist
    pc,         \* the step the running operation takes next
    op,         \* the running operation
    memtable,   \* Engine::memtable
    sstables,   \* Engine::sstables, oldest first
    nextSst,    \* Engine::next_sstable_id
    seq,        \* Engine::seq
    \* Observability only: no action's guard reads the variables below, the
    \* two budgets excepted.
    acked,      \* the last write of each id that returned Ok
    limbo,      \* the writes that returned Err or were cut off by a crash
    tainted,    \* the engine was reopened while frames lay behind a torn one
    crashes,    \* crashes so far
    faults      \* I/O errors so far

diskVars == <<walVars, files, onDisk>>
memVars  == <<memtable, sstables, nextSst, seq>>
obsVars  == <<acked, limbo, tainted, crashes, faults>>
vars     == <<diskVars, memVars, pc, op, obsVars>>

Step == {"down", "idle", "append", "apply", "flush", "install", "walclear",
         "merge", "swap", "remove"}

Reader == [name : SstId, recs : Layer]

NoOp == [kind |-> "none", recs |-> <<>>, next |-> 1, doomed |-> <<>>]

Op == [kind : {"none", "write", "flush", "compact"},
       recs : Seq(Record),      \* the records a write stores
       next : Nat \ {0},        \* the first of them not yet in the log
       doomed : Seq(SstId)]     \* the files compact() has still to remove

TypeOK ==
    /\ WalTypeOK
    /\ files \in [SstId -> Layer]
    /\ onDisk \subseteq SstId
    /\ pc \in Step
    /\ op \in Op
    /\ memtable \in Layer
    /\ sstables \in Seq(Reader)
    /\ nextSst \in Nat \ {0}
    /\ seq \in SeqNo
    /\ acked \in Layer
    /\ limbo \subseteq SUBSET Record
    /\ tainted \in BOOLEAN
    /\ crashes \in 0..MaxCrashes
    /\ faults \in 0..MaxFaults

Init ==
    /\ WalInit
    /\ files = [n \in SstId |-> EmptyLayer]
    /\ onDisk = {}
    /\ pc = "down"
    /\ op = NoOp
    /\ memtable = EmptyLayer
    /\ sstables = <<>>
    /\ nextSst = 1
    /\ seq = 0
    /\ acked = EmptyLayer
    /\ limbo = {}
    /\ tainted = FALSE
    /\ crashes = 0
    /\ faults = 0

-----------------------------------------------------------------------------
(* Reading. *)

(* The levels of the running engine, oldest first: tables, then memtable.  *)
Levels == [i \in 1..(Len(sstables) + 1) |->
              IF i <= Len(sstables) THEN sstables[i].recs ELSE memtable]

(* scan_live(), tombstones still included: later levels overwrite.         *)
View == Merge(Levels)

(* get(id): the memtable if it holds the id, else the newest table that    *)
(* does.                                                                   *)
(* Mutant: MemTable::get instead of get_raw, which cannot tell a tombstone *)
(* from an id the memtable does not hold.                                  *)
GetLive(id) ==
    IF Present(memtable, id) /\ ~memtable[id].deleted
    THEN memtable[id]
    ELSE LET H == {i \in DOMAIN sstables : Present(sstables[i].recs, id)}
         IN  IF H = {} THEN Absent ELSE sstables[Newest(H)].recs[id]

(* Mutant: the tables are searched oldest first. *)
GetOldest(id) ==
    IF Present(memtable, id)
    THEN memtable[id]
    ELSE LET H == {i \in DOMAIN sstables : Present(sstables[i].recs, id)}
         IN  IF H = {} THEN Absent
             ELSE sstables[CHOOSE i \in H : \A j \in H : i <= j].recs[id]

Get(id) ==
    IF Present(memtable, id)
    THEN memtable[id]
    ELSE LET H == {i \in DOMAIN sstables : Present(sstables[i].recs, id)}
         IN  IF H = {} THEN Absent ELSE sstables[Newest(H)].recs[id]

(* Table file names are `{:06}.sst', and open() sorts them as strings:     *)
(* the leading digits decide, and a name that is a prefix comes first.     *)
(* Mutant: the numbers are not padded with zeros. *)
UnpaddedLess(m, n) ==
    LET Lead(k) == IF k < NameBase THEN k ELSE k \div NameBase
    IN  Lead(m) < Lead(n) \/ (Lead(m) = Lead(n) /\ m < n)

LeadingDigits(n) == IF n < NameLimit THEN n ELSE n \div NameBase

NameLess(m, n) ==
    \/ LeadingDigits(m) < LeadingDigits(n)
    \/ LeadingDigits(m) = LeadingDigits(n) /\ m < n

(* What open() would find for an id on the disk as it is: the log's record *)
(* if replay yields one, else the one of the last file in name order.      *)
FileSlot(id) ==
    LET H == {n \in onDisk : Present(files[n], id)}
    IN  IF H = {} THEN Absent
        ELSE files[CHOOSE n \in H : \A m \in H : m = n \/ NameLess(m, n)][id]

Recovered ==
    [id \in RecordId |->
        IF Present(Replayed, id) THEN Replayed[id] ELSE FileSlot(id)]

-----------------------------------------------------------------------------
(* How an operation ends. *)

AckedAfter(o) ==
    IF o.kind = "write" THEN InsertAll(acked, o.recs) ELSE acked

LimboAfter(o) ==
    IF o.kind = "write"
    THEN limbo \cup {{o.recs[i] : i \in DOMAIN o.recs}}
    ELSE limbo

ReturnOk ==
    /\ pc' = "idle"
    /\ op' = NoOp
    /\ acked' = AckedAfter(op)
    /\ UNCHANGED <<limbo, tainted, crashes, faults>>

(* Every `?' on the way: the operation returns Err and what it did so far  *)
(* stays done.                                                             *)
ReturnErr ==
    /\ faults < MaxFaults
    /\ faults' = faults + 1
    /\ pc' = "idle"
    /\ op' = NoOp
    /\ limbo' = LimboAfter(op)
    /\ UNCHANGED <<acked, tainted, crashes>>

Goto(step) ==
    /\ pc' = step
    /\ UNCHANGED obsVars

-----------------------------------------------------------------------------
(* No operation starts without table numbers left for a flush and a merge. *)
Room == nextSst + 1 <= MaxSst

(* put, put_batch, delete: draw the sequence numbers, then append.         *)
BeginWrite(recs) ==
    /\ pc = "idle"
    /\ Room
    /\ seq + Len(recs) <= MaxSeq
    /\ seq' = seq + Len(recs)
    /\ op' = [NoOp EXCEPT !.kind = "write", !.recs = recs]
    /\ Goto("append")
    /\ UNCHANGED <<diskVars, memtable, sstables, nextSst>>

Put(id) == BeginWrite(<<LiveRecord(id, seq + 1)>>)

Delete(id) == BeginWrite(<<Tombstone(id, seq + 1)>>)

PutBatch(ids) ==
    BeginWrite([i \in DOMAIN ids |-> LiveRecord(ids[i], seq + i)])

(* Wal::append and append_batch: a frame per record, one sync at the end.  *)
AppendFrame ==
    /\ pc = "append"
    /\ op.next <= Len(op.recs)
    /\ WriteFrame(op.recs[op.next])
    /\ op' = [op EXCEPT !.next = @ + 1]
    /\ Goto("append")
    /\ UNCHANGED <<files, onDisk, memVars>>

AppendFails ==
    /\ pc = "append"
    /\ op.next <= Len(op.recs)
    /\ TearFrame(op.recs[op.next])
    /\ ReturnErr
    /\ UNCHANGED <<files, onDisk, memVars>>

Sync ==
    /\ pc = "append"
    /\ op.next > Len(op.recs)
    /\ SyncData
    /\ Goto("apply")
    /\ UNCHANGED <<op, files, onDisk, memVars>>

SyncFails ==
    /\ pc = "append"
    /\ op.next > Len(op.recs)
    /\ ReturnErr
    /\ UNCHANGED <<diskVars, memVars>>

(* The write becomes visible: memtable.insert, then maybe_flush.           *)
Apply ==
    /\ pc = "apply"
    /\ memtable' = InsertAll(memtable, op.recs)
    /\ IF Size(memtable') >= FlushThreshold
       THEN Goto("flush") /\ UNCHANGED op
       ELSE ReturnOk
    /\ UNCHANGED <<diskVars, sstables, nextSst, seq>>

-----------------------------------------------------------------------------
(* flush(), on its own, inside maybe_flush, or as the first half of        *)
(* compact().                                                              *)
Begin(kind) ==
    /\ pc = "idle"
    /\ Room
    /\ op' = [NoOp EXCEPT !.kind = kind]
    /\ Goto("flush")
    /\ UNCHANGED <<diskVars, memVars>>

Flush == Begin("flush")

Compact == Begin("compact")

AfterFlush ==
    IF op.kind = "compact" THEN Goto("merge") /\ UNCHANGED op ELSE ReturnOk

FlushNothing ==
    /\ pc = "flush"
    /\ Size(memtable) = 0
    /\ AfterFlush
    /\ UNCHANGED <<diskVars, memVars>>

(* write_sstable: write to a temporary name, sync, rename.  The rename is  *)
(* the one step that shows; open() ignores the temporary file.             *)
WriteSst(n, recs) ==
    /\ n <= MaxSst
    /\ files' = [files EXCEPT ![n] = recs]
    /\ onDisk' = onDisk \cup {n}
    /\ UNCHANGED walVars

FlushWrite ==
    /\ pc = "flush"
    /\ Size(memtable) > 0
    /\ WriteSst(nextSst, memtable)
    /\ Goto("install")
    /\ UNCHANGED <<op, memVars>>

FlushWriteFails ==
    /\ pc = "flush"
    /\ Size(memtable) > 0
    /\ ReturnErr
    /\ UNCHANGED <<diskVars, memVars>>

(* SSTableReader::open, push, next_sstable_id += 1, memtable.clear().      *)
InstallKeepingMemtable ==   \* Mutant: memtable.clear() is forgotten
    /\ pc = "install"
    /\ sstables' = Append(sstables, [name |-> nextSst, recs |-> files[nextSst]])
    /\ nextSst' = nextSst + 1
    /\ Goto("walclear")
    /\ UNCHANGED <<op, diskVars, memtable, seq>>

Install ==
    /\ pc = "install"
    /\ sstables' = Append(sstables, [name |-> nextSst, recs |-> files[nextSst]])
    /\ nextSst' = nextSst + 1
    /\ memtable' = EmptyLayer
    /\ Goto("walclear")
    /\ UNCHANGED <<op, diskVars, seq>>

InstallFails ==
    /\ pc = "install"
    /\ ReturnErr
    /\ UNCHANGED <<diskVars, memVars>>

WalClear ==
    /\ pc = "walclear"
    /\ Clear
    /\ AfterFlush
    /\ UNCHANGED <<files, onDisk, memVars>>

WalClearFails ==
    /\ pc = "walclear"
    /\ ReturnErr
    /\ UNCHANGED <<diskVars, memVars>>

-----------------------------------------------------------------------------
(* The rest of compact(): merge every table into one, tombstones kept.     *)
NothingToMerge ==
    /\ pc = "merge"
    /\ Len(sstables) <= 1
    /\ ReturnOk
    /\ UNCHANGED <<diskVars, memVars>>

(* Mutant: a full merge leaves nothing for a tombstone to shadow, so they  *)
(* are dropped.                                                            *)
CompactedLive ==
    [id \in RecordId |->
        Seen(Merge([i \in DOMAIN sstables |-> sstables[i].recs])[id])]

(* Mutant: the tables are merged newest first. *)
CompactedBackwards ==
    Merge([i \in DOMAIN sstables |-> sstables[Len(sstables) + 1 - i].recs])

Compacted == Merge([i \in DOMAIN sstables |-> sstables[i].recs])

MergeTables ==
    /\ pc = "merge"
    /\ Len(sstables) > 1
    /\ WriteSst(nextSst, Compacted)
    /\ nextSst' = nextSst + 1
    /\ Goto("swap")
    /\ UNCHANGED <<op, memtable, sstables, seq>>

MergeFails ==
    /\ pc = "merge"
    /\ Len(sstables) > 1
    /\ ReturnErr
    /\ UNCHANGED <<diskVars, memVars>>

SwapRemovingAll ==          \* Mutant: the old paths are taken after the swap
    /\ pc = "swap"
    /\ sstables' = <<[name |-> nextSst - 1, recs |-> files[nextSst - 1]]>>
    /\ op' = [op EXCEPT !.doomed = [i \in DOMAIN sstables' |-> sstables'[i].name]]
    /\ Goto("remove")
    /\ UNCHANGED <<diskVars, memtable, nextSst, seq>>

Swap ==
    /\ pc = "swap"
    /\ sstables' = <<[name |-> nextSst - 1, recs |-> files[nextSst - 1]]>>
    /\ op' = [op EXCEPT !.doomed = [i \in DOMAIN sstables |-> sstables[i].name]]
    /\ Goto("remove")
    /\ UNCHANGED <<diskVars, memtable, nextSst, seq>>

SwapFails ==
    /\ pc = "swap"
    /\ ReturnErr
    /\ UNCHANGED <<diskVars, memVars>>

(* fs::remove_file, oldest table first; its error is dropped.              *)
RemoveOld ==
    /\ pc = "remove"
    /\ op.doomed # <<>>
    /\ onDisk' = onDisk \ {Head(op.doomed)}
    /\ files' = [files EXCEPT ![Head(op.doomed)] = EmptyLayer]
    /\ op' = [op EXCEPT !.doomed = Tail(@)]
    /\ Goto("remove")
    /\ UNCHANGED <<walVars, memVars>>

RemoveFails ==
    /\ pc = "remove"
    /\ op.doomed # <<>>
    /\ faults < MaxFaults
    /\ faults' = faults + 1
    /\ op' = [op EXCEPT !.doomed = Tail(@)]
    /\ UNCHANGED <<pc, acked, limbo, tainted, crashes, diskVars, memVars>>

CompactDone ==
    /\ pc = "remove"
    /\ op.doomed = <<>>
    /\ ReturnOk
    /\ UNCHANGED <<diskVars, memVars>>

-----------------------------------------------------------------------------
(* The process dies, or the machine does, in whatever step it is in.       *)
Crash ==
    /\ pc # "down"
    /\ crashes < MaxCrashes
    /\ crashes' = crashes + 1
    /\ pc' = "down"
    /\ op' = NoOp
    /\ limbo' = LimboAfter(op)
    /\ LoseUnsynced
    /\ memtable' = EmptyLayer
    /\ sstables' = <<>>
    /\ nextSst' = 1
    /\ seq' = 0
    /\ UNCHANGED <<files, onDisk, acked, tainted, faults>>

(* Engine::open: load the tables in name order, number the next one after  *)
(* the highest, replay the log into a fresh memtable, and resume after the *)
(* greatest seq that either holds.                                         *)
(* Mutant: the directory is taken in the order it is listed. *)
ListingOrder(o) ==
    \A n \in onDisk : \E i \in DOMAIN o : o[i] = n

LoadOrder(o) ==
    /\ \A n \in onDisk : \E i \in DOMAIN o : o[i] = n
    /\ \A i, j \in DOMAIN o : i < j => NameLess(o[i], o[j])

(* Mutant: the tables' sequence numbers are not looked at. *)
SeqsInLog == {log[i].rec.seq : i \in Readable}

SeqsOnDisk ==
    {log[i].rec.seq : i \in Readable}
        \cup {files[n][id].seq : n \in onDisk, id \in RecordId}

(* Mutant: the next table is numbered by how many there are. *)
CountedName == Cardinality(onDisk) + 1

FreshName == Newest(onDisk \cup {0}) + 1

Open ==
    /\ pc = "down"
    /\ ~ReplayFails
    /\ \E o \in [1..Cardinality(onDisk) -> onDisk] :
          /\ LoadOrder(o)
          /\ sstables' = [i \in DOMAIN o |-> [name |-> o[i], recs |-> files[o[i]]]]
    /\ nextSst' = FreshName
    /\ memtable' = Replayed
    /\ seq' = Newest(SeqsOnDisk \cup {0})
    /\ pc' = "idle"
    /\ acked' = Recovered
    /\ limbo' = {}
    /\ tainted' = (tainted \/ Buried # {})
    /\ UNCHANGED <<op, diskVars, crashes, faults>>

(* replay() returned an error: open() does too, and nothing has changed.   *)
OpenFails ==
    /\ pc = "down"
    /\ ReplayFails
    /\ UNCHANGED vars

-----------------------------------------------------------------------------
(* get, scan_live, len: reads, which change nothing.                       *)
Read ==
    /\ pc = "idle"
    /\ UNCHANGED vars

Write ==
    \/ \E id \in RecordId : Put(id) \/ Delete(id)
    \/ \E n \in 0..MaxBatch : \E ids \in [1..n -> RecordId] : PutBatch(ids)

WriteStep == AppendFrame \/ AppendFails \/ Sync \/ SyncFails \/ Apply

FlushStep ==
    \/ FlushNothing \/ FlushWrite \/ FlushWriteFails
    \/ Install \/ InstallFails \/ WalClear \/ WalClearFails

CompactStep ==
    \/ NothingToMerge \/ MergeTables \/ MergeFails
    \/ Swap \/ SwapFails \/ RemoveOld \/ RemoveFails \/ CompactDone

Restart == Crash \/ Open \/ OpenFails

Next == Read \/ Write \/ WriteStep \/ Flush \/ FlushStep \/ Compact \/ CompactStep \/ Restart

Spec == Init /\ [][Next]_vars

-----------------------------------------------------------------------------
(* Safety. *)

(* What a level may answer for an id: what its last acknowledged write     *)
(* left, or a later one that failed, was cut off, or is still running.     *)
Current(id) ==
    {acked[id]} \cup
    {SlotOf(r) : r \in {x \in UNION LimboAfter(op) :
                           x.id = id /\ x.seq > acked[id].seq}}

(* What a reader may find for it. *)
Survivors(id) == {Seen(slot) : slot \in Current(id)}

(* A read returns the last acknowledged write of the id or a later one,    *)
(* whatever flush, compaction or failed operation came in between.         *)
ReadsSeeAcked ==
    pc # "down" => \A id \in RecordId : Seen(Get(id)) \in Survivors(id)

(* If the process died now and open() succeeded, every id would come back  *)
(* as its last acknowledged write or a later one, unless a write of the id *)
(* lies in the log behind a torn frame.                                    *)
AckedSurvives ==
    \A id \in RecordId :
        \/ ReplayFails
        \/ \E i \in Buried : log[i].rec.id = id
        \/ Seen(Recovered[id]) \in Survivors(id)

(* Point reads and full scans walk the levels in opposite directions and   *)
(* must agree.                                                             *)
GetMatchesScan ==
    \A id \in RecordId : Get(id) = View[id]

(* Reads and compaction decide by position alone, replay by seq alone: a   *)
(* later level never holds an older write of an id than an earlier one.    *)
LevelsInSeqOrder ==
    tainted \/
    \A i, j \in DOMAIN Levels : \A id \in RecordId :
        i < j /\ Present(Levels[j], id) => Levels[i][id].seq <= Levels[j][id].seq

(* A synced frame lies behind a torn one: replay will not reach it.        *)
Lost == \E i \in Buried : i <= synced

(* The same on the disk, which is what the next open() will stack.         *)
DiskInSeqOrder ==
    tainted \/ Lost \/
    /\ \A m, n \in onDisk : \A id \in RecordId :
          m < n /\ Present(files[n], id) => files[m][id].seq <= files[n][id].seq
    /\ \A n \in onDisk : \A id \in RecordId :
          Present(Replayed, id) => files[n][id].seq <= Replayed[id].seq

(* Every write memtable shows is in the synced part of the log, so that    *)
(* losing the memory loses nothing.                                        *)
MemtableLogged ==
    tainted \/ Lost \/
    \A id \in RecordId : Present(memtable, id) =>
        \E i \in Readable : /\ i <= synced
                            /\ log[i].rec.id = id
                            /\ log[i].rec.seq >= memtable[id].seq

(* Every open table is a file that exists and still holds what was loaded. *)
ReadersOnDisk ==
    \A i \in DOMAIN sstables :
        /\ sstables[i].name \in onDisk
        /\ files[sstables[i].name] = sstables[i].recs

(* No write ever draws a sequence number some stored record already has.   *)
SeqIsFresh ==
    pc # "down" /\ ~tainted =>
        \A s \in SeqsOnDisk \cup {Levels[i][id].seq : i \in DOMAIN Levels, id \in RecordId} :
            s <= seq

(* Flush and compaction never change what a read returns.                  *)
Maintaining ==
    pc \in {"flush", "install", "walclear", "merge", "swap", "remove"}

MaintenanceKeepsView ==
    [][Maintaining /\ pc' # "down" =>
          \A id \in RecordId : Seen(View'[id]) = Seen(View[id])]_vars

(* The seq of what the next open() would bring back never falls behind the *)
(* last acknowledged write, unless a synced frame lies behind a torn one.  *)
AckedNotOlder ==
    tainted \/ Lost \/ \A id \in RecordId : acked[id].seq <= Recovered[id].seq

-----------------------------------------------------------------------------
(* The inductive invariant behind the safety properties. *)

(* What each step leaves for the next one. *)
StepInv ==
    /\ pc = "down" => /\ synced = Len(log) /\ op = NoOp
                      /\ sstables = <<>> /\ memtable = EmptyLayer
    /\ pc = "install" => files[nextSst] = memtable
    /\ pc \in {"walclear", "merge", "swap", "remove"} =>
          \A id \in RecordId : ~Present(memtable, id)
    /\ pc = "swap" => files[nextSst - 1] = Compacted

(* Which file names are taken: the next one is above all of them, but for  *)
(* a table that was written and could not be opened.                       *)
NameInv ==
    /\ ReadersOnDisk
    /\ pc # "down" => /\ \A i \in DOMAIN sstables : sstables[i].name < nextSst
                      /\ \A n \in onDisk : n <= nextSst
    /\ pc = "install" => nextSst \in onDisk
    /\ pc = "swap" => /\ nextSst - 1 \in onDisk
                      /\ \A i \in DOMAIN sstables : sstables[i].name < nextSst - 1
    /\ pc = "remove" => \A k \in DOMAIN op.doomed : \A i \in DOMAIN sstables :
                          op.doomed[k] # sstables[i].name

(* Some level of the running engine holds the id with seq s or later.      *)
Covered(id, s) ==
    \/ s <= memtable[id].seq
    \/ \E i \in DOMAIN sstables : s <= sstables[i].recs[id].seq

(* Replay yields the id with seq s or later, from the synced frames alone. *)
Logged(id, s) ==
    \E i \in Readable : i <= synced /\ log[i].rec.id = id /\ s <= log[i].rec.seq

MemoryInv ==
    /\ \A i, j \in DOMAIN sstables : \A id \in RecordId :
          i < j /\ Present(sstables[j].recs, id) =>
              sstables[i].recs[id].seq <= sstables[j].recs[id].seq
    /\ \A i \in DOMAIN sstables : \A id \in RecordId :
          Present(memtable, id) => sstables[i].recs[id].seq <= memtable[id].seq
    /\ \A n \in onDisk : \A id \in RecordId : Covered(id, files[n][id].seq)
    /\ \A id \in RecordId : Covered(id, acked[id].seq)

(* The engine's counter is ahead of everything stored. *)
SeqInv ==
    /\ \A i \in Readable : log[i].rec.seq <= seq
    /\ \A n \in onDisk : \A id \in RecordId : files[n][id].seq <= seq
    /\ \A i \in DOMAIN sstables : \A id \in RecordId : sstables[i].recs[id].seq <= seq
    /\ \A id \in RecordId : memtable[id].seq <= seq
    /\ \A k \in DOMAIN op.recs : op.recs[k].seq <= seq

(* The running write is newer than everything stored before it; once       *)
(* applied, it is covered.                                                 *)
OpInv ==
    /\ pc \in {"append", "apply"} =>
          \A k \in DOMAIN op.recs :
              LET r == op.recs[k]
              IN  /\ \A n \in onDisk : files[n][r.id].seq <= r.seq
                  /\ \A i \in DOMAIN sstables : sstables[i].recs[r.id].seq <= r.seq
    /\ pc = "append" /\ Buried = {} =>
          \A k \in DOMAIN op.recs : k < op.next =>
              \E i \in Readable : log[i].rec = op.recs[k]
    /\ pc = "apply" /\ ~Lost =>
          \A k \in DOMAIN op.recs : Logged(op.recs[k].id, op.recs[k].seq)
    /\ pc \notin {"append", "apply"} =>
          \A k \in DOMAIN op.recs : Covered(op.recs[k].id, op.recs[k].seq)

DiskInv ==
    /\ \A m, n \in onDisk : \A id \in RecordId :
          m < n /\ Present(files[n], id) => files[m][id].seq <= files[n][id].seq
    /\ ~Lost => \A i \in Readable : \A n \in onDisk : \A id \in RecordId :
          log[i].rec.id = id =>
              \/ files[n][id].seq <= log[i].rec.seq
              \/ Logged(id, files[n][id].seq)
    /\ pc = "down" /\ ~Lost => \A id \in RecordId :
          \/ Logged(id, acked[id].seq)
          \/ \E n \in onDisk : acked[id].seq <= files[n][id].seq
          \/ acked[id].seq = 0
    /\ pc # "down" /\ ~Lost => \A id \in RecordId :
          Present(memtable, id) => Logged(id, memtable[id].seq)

EngineInv ==
    /\ StepInv
    /\ NameInv
    /\ \/ tainted
       \/ /\ DiskInv
          /\ pc # "down" => MemoryInv /\ SeqInv /\ OpInv

-----------------------------------------------------------------------------
(* The inductive invariant behind what readers and the next open() see,    *)
(* torn frames or not.                                                     *)

(* No synced frame of the id lies behind a torn one. *)
Clean(id) == \A i \in Buried : i <= synced => log[i].rec.id # id

(* The running write is in order, and later than all that came before it.  *)
RunningInv ==
    /\ pc = "idle" => op = NoOp
    /\ pc \in {"append", "apply"} => op.kind = "write"
    /\ pc \in {"merge", "swap", "remove"} => op.kind = "compact"
    /\ op.kind # "write" => op.recs = <<>>
    /\ \A j, k \in DOMAIN op.recs : j < k => op.recs[j].seq < op.recs[k].seq
    /\ \A k \in DOMAIN op.recs :
          LET r == op.recs[k]
          IN  /\ acked[r.id].seq < r.seq
              /\ \A x \in UNION limbo : x.seq < r.seq
              /\ pc \in {"append", "apply"} => memtable[r.id].seq < r.seq

(* The counter is ahead of every record that can still be read. *)
CounterInv ==
    pc # "down" =>
        /\ \A id \in RecordId : memtable[id].seq <= seq /\ acked[id].seq <= seq
        /\ \A r \in UNION limbo : r.seq <= seq
        /\ \A i \in Readable : log[i].rec.seq <= seq
        /\ \A k \in DOMAIN op.recs : op.recs[k].seq <= seq

(* The log is in order, and of the running write it holds what was         *)
(* appended, in whole frames, synced once the write is applied.            *)
FrameInv ==
    /\ \A i \in Readable : 0 < log[i].rec.seq
    /\ \A i, j \in Readable : i < j => log[i].rec.seq < log[j].rec.seq
    /\ \A i \in Readable :
          \/ \E k \in DOMAIN op.recs : k < op.next /\ log[i].rec = op.recs[k]
          \/ \A k \in DOMAIN op.recs : log[i].rec.seq < op.recs[k].seq
    /\ pc = "append" =>
          \A k \in DOMAIN op.recs : k < op.next =>
              \E i \in DOMAIN log : Whole(log[i]) /\ log[i].rec = op.recs[k]
    /\ pc \in {"apply", "flush", "install", "walclear"} =>
          \A k \in DOMAIN op.recs :
              \E i \in DOMAIN log : /\ i <= synced /\ Whole(log[i])
                                    /\ log[i].rec = op.recs[k]

(* A file's entry is what the open tables merge to, unless an open table   *)
(* with a later name has one too, or the file is one that a failed flush   *)
(* left of the memtable.                                                   *)
TableInv ==
    pc # "down" => \A n \in onDisk : \A id \in RecordId : Present(files[n], id) =>
        \/ files[n][id] = Compacted[id]
        \/ \E i \in DOMAIN sstables :
              n < sstables[i].name /\ Present(sstables[i].recs, id)
        \/ n = nextSst /\ Present(memtable, id)

(* What readers see, which from its apply on includes the running write.   *)
ViewInv ==
    pc # "down" => \A id \in RecordId :
        /\ View[id] \in Current(id)
        /\ pc \notin {"append", "apply"} /\ Writes(op.recs, id) # {} =>
              View[id] = SlotOf(op.recs[Winner(op.recs, id)])

(* A frame that replay reads is current, or a synced later one is read     *)
(* too.                                                                    *)
Kept(i) ==
    \/ SlotOf(log[i].rec) \in Current(log[i].rec.id)
    \/ \E j \in Readable : /\ j <= synced /\ log[j].rec.id = log[i].rec.id
                           /\ log[i].rec.seq < log[j].rec.seq

Replayable(id) == \E i \in Readable : i <= synced /\ log[i].rec.id = id

LogInv ==
    /\ \A i \in Readable : Clean(log[i].rec.id) => Kept(i)
    /\ \A id \in RecordId : Clean(id) =>
          /\ pc # "down" /\ Present(memtable, id) => Replayable(id)
          /\ pc = "down" => Replayable(id) \/ FileSlot(id) \in Current(id)

SurvivalInv ==
    /\ RunningInv /\ CounterInv /\ FrameInv
    /\ TableInv /\ ViewInv /\ LogInv

(* Everything at once.  (The type invariant is the first conjunct.)        *)
FullInv == TypeOK /\ EngineInv /\ SurvivalInv

-----------------------------------------------------------------------------
(* What the comments of the code promise and the code does not keep.       *)

(* wal.rs:3-6: a crash loses no acknowledged write.  Whenever the engine   *)
(* is at rest, killing and reopening it would bring each of them back.     *)
NoAckedWriteLost ==
    pc = "idle" =>
        \A id \in RecordId : acked[id] # Absent =>
            ~ReplayFails /\ Seen(Recovered[id]) \in Survivors(id)

(* engine.rs:171 and wal.rs:66-69: a batch cut off by a crash is lost as a *)
(* whole.                                                                  *)
BatchAllOrNothing ==
    pc = "down" =>
        \A b \in limbo :
            LET found == {log[i].rec : i \in Readable} \cap b
            IN  found = {} \/ found = b
=============================================================================
