-------------------------- MODULE EngineInvProofs --------------------------
(***************************************************************************)
(* The inductive invariant of Engine and the safety properties it implies, *)
(* for every value of the constants whose table numbers fit the padding of *)
(* the file names.                                                         *)
(***************************************************************************)
EXTENDS EngineProofs

(* The numbers the invariant compares are numbers. *)
Numbers ==
    /\ seq \in Nat /\ nextSst \in Nat
    /\ Len(log) \in Nat /\ synced \in 0..Len(log) /\ DOMAIN log = 1..Len(log)
    /\ Len(sstables) \in Nat /\ DOMAIN sstables = 1..Len(sstables)
    /\ Len(op.recs) \in Nat /\ DOMAIN op.recs = 1..Len(op.recs)
    /\ op.next \in Nat
    /\ onDisk \subseteq SstId
    /\ \A id \in RecordId : memtable[id].seq \in Nat /\ acked[id].seq \in Nat
    /\ \A n \in SstId : \A id \in RecordId : files[n][id].seq \in Nat
    /\ \A i \in DOMAIN sstables :
          /\ sstables[i].name \in SstId
          /\ \A id \in RecordId : sstables[i].recs[id].seq \in Nat
    /\ \A i \in DOMAIN log :
          log[i].rec \in Record /\ log[i].rec.id \in RecordId /\ log[i].rec.seq \in Nat
    /\ \A k \in DOMAIN op.recs :
          op.recs[k] \in Record /\ op.recs[k].id \in RecordId /\ op.recs[k].seq \in Nat

(* The numbers an engine holds are naturals.                               *)
LEMMA TypeNumbers ==
  ASSUME TypeOK
  PROVE  Numbers
<1>1. \A layer \in Layer : \A id \in RecordId : layer[id].seq \in Nat
  BY DEF Layer, Slot, SeqNo
<1>2. \A r \in Record : r.id \in RecordId /\ r.seq \in Nat
  BY DEF Record, SeqNo
<1>3. /\ seq \in Nat /\ nextSst \in Nat /\ onDisk \subseteq SstId
      /\ \A id \in RecordId : memtable[id].seq \in Nat /\ acked[id].seq \in Nat
      /\ \A n \in SstId : \A id \in RecordId : files[n][id].seq \in Nat
  BY <1>1 DEF TypeOK, SeqNo
<1>4. /\ Len(log) \in Nat /\ synced \in 0..Len(log) /\ DOMAIN log = 1..Len(log)
      /\ \A i \in DOMAIN log : log[i].rec \in Record
  <2>1. \A i \in DOMAIN log : log[i] \in Frame
    BY DEF TypeOK, WalTypeOK
  <2> QED BY <2>1 DEF TypeOK, WalTypeOK, Frame
<1>5. /\ Len(sstables) \in Nat /\ DOMAIN sstables = 1..Len(sstables)
      /\ \A i \in DOMAIN sstables : sstables[i].name \in SstId /\ sstables[i].recs \in Layer
  <2>1. \A i \in DOMAIN sstables : sstables[i] \in Reader
    BY DEF TypeOK
  <2> QED BY <2>1 DEF TypeOK, Reader
<1>6. /\ Len(op.recs) \in Nat /\ DOMAIN op.recs = 1..Len(op.recs) /\ op.next \in Nat
      /\ \A k \in DOMAIN op.recs : op.recs[k] \in Record
  BY DEF TypeOK, Op
<1> QED BY <1>1, <1>2, <1>3, <1>4, <1>5, <1>6 DEF Numbers

(* What is said of the log holds as long as the log does not change, and   *)
(* what is said of the levels as long as they do not.                      *)
LEMMA SameLog ==
  ASSUME log' = log, synced' = synced
  PROVE  /\ Readable' = Readable /\ Buried' = Buried /\ (Lost' <=> Lost)
         /\ \A id, s : Logged(id, s)' <=> Logged(id, s)
BY DEF Readable, Buried, Lost, Logged, Whole, FrameWords

(* Steps that leave memtable and tables alone leave the levels alone.      *)
LEMMA SameLevels ==
  ASSUME memtable' = memtable, sstables' = sstables
  PROVE  /\ \A id, s : Covered(id, s)' <=> Covered(id, s)
         /\ Compacted' = Compacted
BY DEF Covered, Compacted

(* What replay reads is in the file. *)
LEMMA ReadableInLog == Readable \subseteq DOMAIN log
BY DEF Readable

-----------------------------------------------------------------------------
(* Steps that change neither the disk nor the levels: an operation begins, *)
(* passes on to its next half, or returns.                                 *)
LEMMA QuietInv ==
  ASSUME TypeInv, EngineInv, pc # "down",
         log' = log, synced' = synced, files' = files, onDisk' = onDisk,
         memtable' = memtable, sstables' = sstables, nextSst' = nextSst,
         seq' = seq, tainted' = tainted,
         pc' \in {"idle", "flush", "merge"},
         pc' = "merge" => \A id \in RecordId : ~Present(memtable, id),
         op'.recs = <<>> \/ (op'.recs = op.recs /\ pc \notin {"append", "apply"}),
         tainted \/ \A id \in RecordId : Covered(id, acked'[id].seq)
  PROVE  EngineInv'
<1>0. Numbers /\ Readable \subseteq DOMAIN log
  BY TypeNumbers, ReadableInLog DEF TypeInv
<1>1. /\ Readable' = Readable /\ Buried' = Buried /\ (Lost' <=> Lost)
      /\ \A id, s : Logged(id, s)' <=> Logged(id, s)
      /\ \A id, s : Covered(id, s)' <=> Covered(id, s)
  BY SameLog, SameLevels
<1>2. StepInv'
  BY DEF EngineInv, StepInv, Present
<1>3. NameInv'
  BY DEF EngineInv, NameInv, ReadersOnDisk
<1>4. ASSUME ~tainted PROVE DiskInv'
  BY <1>1, <1>4 DEF EngineInv, DiskInv, Present
<1>5. ASSUME ~tainted PROVE MemoryInv'
  BY <1>1, <1>5 DEF EngineInv, MemoryInv, Present
<1>6. ASSUME ~tainted PROVE SeqInv'
  BY <1>1, <1>6 DEF EngineInv, SeqInv
<1>7. ASSUME ~tainted PROVE OpInv'
  BY <1>1, <1>7 DEF EngineInv, OpInv
<1> QED BY <1>2, <1>3, <1>4, <1>5, <1>6, <1>7 DEF EngineInv
-----------------------------------------------------------------------------
(* A write begins: its records are newer than everything stored.           *)
LEMMA BeginWriteInv ==
  ASSUME TypeInv, EngineInv, NEW recs \in Seq(Record), BeginWrite(recs),
         \A k \in DOMAIN recs : recs[k].seq \in (seq + 1)..(seq + Len(recs))
  PROVE  EngineInv'
<1>0. Numbers /\ Readable \subseteq DOMAIN log
  BY TypeNumbers, ReadableInLog DEF TypeInv
<1>1. /\ log' = log /\ synced' = synced /\ files' = files /\ onDisk' = onDisk
      /\ memtable' = memtable /\ sstables' = sstables /\ nextSst' = nextSst
      /\ pc = "idle" /\ pc' = "append" /\ seq' = seq + Len(recs)
      /\ tainted' = tainted /\ acked' = acked
  BY DEF BeginWrite, Goto, diskVars, walVars, obsVars
<1>2. op' = [kind |-> "write", recs |-> recs, next |-> 1, doomed |-> <<>>]
  BY DEF BeginWrite, NoOp
<1>3. /\ Readable' = Readable /\ Buried' = Buried /\ (Lost' <=> Lost)
      /\ \A id, s : Logged(id, s)' <=> Logged(id, s)
      /\ \A id, s : Covered(id, s)' <=> Covered(id, s)
  BY <1>1, SameLog, SameLevels
<1>4. /\ Len(recs) \in Nat /\ DOMAIN recs = 1..Len(recs)
      /\ \A k \in DOMAIN recs : recs[k].id \in RecordId /\ recs[k].seq \in Nat
  <2>1. \A k \in DOMAIN recs : recs[k] \in Record
    OBVIOUS
  <2> QED BY <2>1 DEF Record, SeqNo
<1>5. StepInv'
  BY <1>1 DEF EngineInv, StepInv, Present
<1>6. NameInv'
  BY <1>1 DEF EngineInv, NameInv, ReadersOnDisk
<1>7. ASSUME ~tainted PROVE DiskInv' /\ MemoryInv'
  BY <1>1, <1>3, <1>7 DEF EngineInv, DiskInv, MemoryInv, Present
<1>8. ASSUME ~tainted PROVE SeqInv'
  <2>1. SeqInv
    BY <1>1, <1>8 DEF EngineInv
  <2>2. \A s \in Nat : s <= seq => s <= seq'
    BY <1>0, <1>1, <1>4 DEF Numbers
  <2>3. \A i \in Readable : log[i].rec.seq <= seq'
    BY <1>0, <2>1, <2>2 DEF SeqInv, Numbers
  <2>4. \A n \in onDisk : \A id \in RecordId : files[n][id].seq <= seq'
    BY <1>0, <2>1, <2>2 DEF SeqInv, Numbers
  <2>5. /\ \A i \in DOMAIN sstables : \A id \in RecordId : sstables[i].recs[id].seq <= seq'
        /\ \A id \in RecordId : memtable[id].seq <= seq'
    BY <1>0, <2>1, <2>2 DEF SeqInv, Numbers
  <2>6. \A k \in DOMAIN recs : recs[k].seq <= seq'
    BY <1>1
  <2>7. op'.recs = recs
    BY <1>2
  <2> QED BY <1>1, <1>3, <2>3, <2>4, <2>5, <2>6, <2>7 DEF SeqInv
<1>9. ASSUME ~tainted PROVE OpInv'
  <2>1. \A k \in DOMAIN recs :
          /\ \A n \in onDisk : files[n][recs[k].id].seq <= recs[k].seq
          /\ \A i \in DOMAIN sstables : sstables[i].recs[recs[k].id].seq <= recs[k].seq
    <3> TAKE k \in DOMAIN recs
    <3>1. recs[k].id \in RecordId /\ recs[k].seq \in Nat /\ recs[k].seq > seq
      BY <1>0, <1>4 DEF Numbers
    <3>2. \A n \in onDisk : files[n][recs[k].id].seq \in Nat
      BY <1>0, <3>1 DEF Numbers
    <3>3. \A i \in DOMAIN sstables : sstables[i].recs[recs[k].id].seq \in Nat
      BY <1>0, <3>1 DEF Numbers
    <3>4. /\ \A n \in onDisk : files[n][recs[k].id].seq <= seq
          /\ \A i \in DOMAIN sstables : sstables[i].recs[recs[k].id].seq <= seq
      BY <1>1, <1>9, <3>1 DEF EngineInv, SeqInv
    <3>5. seq \in Nat
      BY <1>0 DEF Numbers
    <3>6. ASSUME NEW n \in onDisk PROVE files[n][recs[k].id].seq <= recs[k].seq
      BY <3>1, <3>2, <3>4, <3>5
    <3>7. ASSUME NEW i \in DOMAIN sstables PROVE sstables[i].recs[recs[k].id].seq <= recs[k].seq
      BY <3>1, <3>3, <3>4, <3>5
    <3> QED BY <3>6, <3>7
  <2> QED BY <1>1, <1>2, <1>4, <2>1 DEF OpInv
<1> QED BY <1>1, <1>5, <1>6, <1>7, <1>8, <1>9 DEF EngineInv

-----------------------------------------------------------------------------
(* The log grows by a frame, whole or torn: replay reads it only if it is  *)
(* whole and no frame before it is torn.                                   *)
LEMMA GrowingLog ==
  ASSUME WalTypeOK, NEW f, log' = Append(log, f), synced' = synced
  PROVE  /\ \A i \in Readable : i \in Readable' /\ log'[i] = log[i]
         /\ \A i \in Readable' : \/ i \in Readable /\ log'[i] = log[i]
                                 \/ i = Len(log) + 1 /\ log'[i] = f
         /\ Lost' <=> Lost
         /\ Buried' = {} => Buried = {}
         /\ Buried' = {} /\ f.words = FrameWords(f.rec) =>
              Len(log) + 1 \in Readable' /\ log'[Len(log) + 1] = f
<1>1. /\ Len(log) \in Nat /\ synced \in 0..Len(log) /\ DOMAIN log = 1..Len(log)
      /\ DOMAIN log' = 1..(Len(log) + 1)
      /\ \A i \in 1..Len(log) : log'[i] = log[i]
      /\ log'[Len(log) + 1] = f
  BY DEF WalTypeOK
<1>2. \A i \in Readable : i \in Readable' /\ log'[i] = log[i]
  BY <1>1 DEF Readable, Whole
<1>3. \A i \in Readable' : \/ i \in Readable /\ log'[i] = log[i]
                           \/ i = Len(log) + 1 /\ log'[i] = f
  BY <1>1 DEF Readable, Whole
<1>4. \A i \in 1..Len(log) : i \in Buried' <=> i \in Buried
  BY <1>1 DEF Buried, Whole
<1>5. Lost' <=> Lost
  BY <1>1, <1>4 DEF Lost, Buried
<1>6. Buried' = {} => Buried = {}
  BY <1>1, <1>4 DEF Buried
<1>7. ASSUME Buried' = {}, f.words = FrameWords(f.rec)
      PROVE  Len(log) + 1 \in Readable'
  <2>1. \A j \in 1..Len(log) : Whole(log'[j])
    <3>1. Len(log) + 1 \notin Buried'
      BY <1>7
    <3> QED BY <1>1, <3>1 DEF Buried, Whole
  <2>2. Whole(log'[Len(log) + 1])
    BY <1>1, <1>7 DEF Whole
  <2> QED BY <1>1, <2>1, <2>2 DEF Readable, Whole
<1> QED BY <1>1, <1>2, <1>3, <1>5, <1>6, <1>7
(* A frame of the running write in the log breaks nothing: its record is   *)
(* newer than what any file holds of the id.                               *)
LEMMA LogGrowsInv ==
  ASSUME TypeInv, EngineInv, ~tainted, pc = "append", op.next <= Len(op.recs),
         NEW f, f.rec = op.recs[op.next], log' = Append(log, f), synced' = synced,
         files' = files, onDisk' = onDisk, memtable' = memtable,
         sstables' = sstables, seq' = seq, acked' = acked, pc' \in {"append", "idle"},
         op'.recs = op.recs \/ op'.recs = <<>>
  PROVE  DiskInv' /\ MemoryInv' /\ SeqInv'
<1> DEFINE r == op.recs[op.next]
<1>0. Numbers /\ Readable \subseteq DOMAIN log
  BY TypeNumbers, ReadableInLog DEF TypeInv
<1>1. op.next \in DOMAIN op.recs /\ r \in Record /\ r.id \in RecordId /\ r.seq \in Nat
  <2>1. op.next \in Nat \ {0}
    BY DEF TypeInv, TypeOK, Op
  <2> QED BY <1>0, <2>1 DEF Numbers
<1>2. /\ \A i \in Readable : i \in Readable' /\ log'[i] = log[i]
      /\ \A i \in Readable' : \/ i \in Readable /\ log'[i] = log[i]
                              \/ i = Len(log) + 1 /\ log'[i] = f
      /\ Lost' <=> Lost
  BY GrowingLog DEF TypeInv, TypeOK
<1>3. \A id, s : Logged(id, s) => Logged(id, s)'
  BY <1>2 DEF Logged
<1>4. \A id, s : Covered(id, s)' <=> Covered(id, s)
  BY SameLevels
<1>5. \A n \in onDisk : files[n][r.id].seq <= r.seq
  BY <1>1 DEF EngineInv, OpInv
<1>6. DiskInv'
  <2>1. \A m, n \in onDisk : \A id \in RecordId :
          m < n /\ Present(files[n], id) => files[m][id].seq <= files[n][id].seq
    BY DEF EngineInv, DiskInv
  <2>2. ASSUME ~Lost, NEW i \in Readable', NEW n \in onDisk, NEW id \in RecordId,
               log'[i].rec.id = id
        PROVE  files[n][id].seq <= log'[i].rec.seq \/ Logged(id, files[n][id].seq)'
    <3>1. CASE i \in Readable /\ log'[i] = log[i]
      <4>1. files[n][id].seq <= log[i].rec.seq \/ Logged(id, files[n][id].seq)
        BY <2>2, <3>1 DEF EngineInv, DiskInv
      <4> QED BY <1>3, <3>1, <4>1
    <3>2. CASE i = Len(log) + 1 /\ log'[i] = f
      BY <1>5, <2>2, <3>2
    <3> QED BY <1>2, <3>1, <3>2
  <2>3. ASSUME ~Lost, NEW id \in RecordId, Present(memtable, id)
        PROVE  Logged(id, memtable[id].seq)'
    BY <1>3, <2>3 DEF EngineInv, DiskInv
  <2> QED BY <1>2, <2>1, <2>2, <2>3 DEF DiskInv, Present
<1>7. MemoryInv'
  BY <1>4 DEF EngineInv, MemoryInv, Present
<1>8. SeqInv'
  <2>1. r.seq <= seq
    BY <1>1 DEF EngineInv, SeqInv
  <2>2. \A i \in Readable' : log'[i].rec.seq <= seq
    BY <1>2, <2>1 DEF EngineInv, SeqInv
  <2>3. \A k \in DOMAIN op'.recs : op'.recs[k].seq <= seq
    BY DEF EngineInv, SeqInv
  <2> QED BY <2>2, <2>3 DEF EngineInv, SeqInv
<1> QED BY <1>6, <1>7, <1>8

(* Appending a frame keeps EngineInv: it is newer than all before it.      *)
LEMMA AppendFrameInv ==
  ASSUME TypeInv, EngineInv, AppendFrame
  PROVE  EngineInv'
<1> DEFINE r == op.recs[op.next]
           f == [rec |-> r, words |-> FrameWords(r)]
<1>0. Numbers
  BY TypeNumbers DEF TypeInv
<1>1. /\ log' = Append(log, f) /\ synced' = synced /\ files' = files /\ onDisk' = onDisk
      /\ memtable' = memtable /\ sstables' = sstables /\ nextSst' = nextSst
      /\ seq' = seq /\ pc = "append" /\ pc' = "append" /\ op.next <= Len(op.recs)
      /\ tainted' = tainted /\ acked' = acked
      /\ op' = [op EXCEPT !.next = op.next + 1]
  BY DEF AppendFrame, WriteFrame, Goto, memVars, obsVars
<1>2. op'.recs = op.recs /\ op'.next = op.next + 1
  BY <1>1 DEF TypeInv, TypeOK, Op
<1>3. StepInv' /\ NameInv'
  BY <1>1 DEF EngineInv, StepInv, NameInv, ReadersOnDisk
<1>4. ASSUME ~tainted PROVE DiskInv' /\ MemoryInv' /\ SeqInv'
  <2>1. f.rec = r
    OBVIOUS
  <2> HIDE DEF f, r
  <2> QED BY <1>1, <1>2, <1>4, <2>1, LogGrowsInv DEF r
<1>5. ASSUME ~tainted PROVE OpInv'
  <2>1. ASSUME Buried' = {}, NEW k \in DOMAIN op.recs, k < op.next + 1
        PROVE  \E i \in Readable' : log'[i].rec = op.recs[k]
    <3>1. WalTypeOK /\ f.words = FrameWords(f.rec) /\ f.rec = r
      BY DEF TypeInv, TypeOK
    <3> HIDE DEF f
    <3>2. /\ \A i \in Readable : i \in Readable' /\ log'[i] = log[i]
          /\ Buried = {}
          /\ Len(log) + 1 \in Readable' /\ log'[Len(log) + 1] = f
      BY <1>1, <2>1, <3>1, GrowingLog
    <3>3. CASE k = op.next
      BY <3>1, <3>2, <3>3
    <3>4. CASE k # op.next
      <4>1. k < op.next
        BY <1>0, <2>1, <3>4 DEF Numbers
      <4>2. PICK i \in Readable : log[i].rec = op.recs[k]
        BY <1>1, <1>5, <3>2, <4>1 DEF EngineInv, OpInv
      <4> QED BY <3>2, <4>2
    <3> QED BY <3>3, <3>4
  <2>2. \A k \in DOMAIN op.recs :
          /\ \A n \in onDisk : files[n][op.recs[k].id].seq <= op.recs[k].seq
          /\ \A i \in DOMAIN sstables :
                sstables[i].recs[op.recs[k].id].seq <= op.recs[k].seq
    BY <1>1, <1>5 DEF EngineInv, OpInv
  <2> HIDE DEF f
  <2> QED BY <1>1, <1>2, <2>1, <2>2 DEF OpInv
<1> QED BY <1>1, <1>3, <1>4, <1>5 DEF EngineInv

(* A torn append keeps EngineInv: what follows it is buried.               *)
LEMMA AppendFailsInv ==
  ASSUME TypeInv, EngineInv, AppendFails
  PROVE  EngineInv'
<1> DEFINE r == op.recs[op.next]
<1>1. /\ synced' = synced /\ files' = files /\ onDisk' = onDisk
      /\ memtable' = memtable /\ sstables' = sstables /\ nextSst' = nextSst
      /\ seq' = seq /\ pc = "append" /\ pc' = "idle" /\ op.next <= Len(op.recs)
      /\ tainted' = tainted /\ acked' = acked /\ op' = NoOp
  BY DEF AppendFails, TearFrame, ReturnErr, memVars
<1>2. op'.recs = <<>>
  BY <1>1 DEF NoOp
<1>3. PICK w \in 0..(FrameWords(r) - 1) :
         log' = IF w = 0 THEN log ELSE Append(log, [rec |-> r, words |-> w])
  BY DEF AppendFails, TearFrame
<1>4. CASE w = 0
  <2>1. log' = log
    BY <1>3, <1>4
  <2>2. tainted \/ \A id \in RecordId : Covered(id, acked'[id].seq)
    BY <1>1 DEF EngineInv, MemoryInv
  <2> QED BY <1>1, <1>2, <2>1, <2>2, QuietInv
<1>5. CASE w # 0
  <2> DEFINE f == [rec |-> r, words |-> w]
  <2>1. log' = Append(log, f) /\ f.rec = r
    BY <1>3, <1>5
  <2> HIDE DEF f
  <2>2. StepInv' /\ NameInv'
    BY <1>1 DEF EngineInv, StepInv, NameInv, ReadersOnDisk
  <2>3. ASSUME ~tainted PROVE DiskInv' /\ MemoryInv' /\ SeqInv'
    BY <1>1, <1>2, <2>1, <2>3, LogGrowsInv
  <2>4. OpInv'
    BY <1>1, <1>2 DEF OpInv
  <2> QED BY <1>1, <2>2, <2>3, <2>4 DEF EngineInv
<1> QED BY <1>4, <1>5
-----------------------------------------------------------------------------
(* The sync makes every frame of the running write count, and the write    *)
(* becomes visible.                                                        *)
LEMMA SyncInv ==
  ASSUME TypeInv, EngineInv, Sync
  PROVE  EngineInv'
<1>0. Numbers /\ Readable \subseteq DOMAIN log
  BY TypeNumbers, ReadableInLog DEF TypeInv
<1>1. /\ log' = log /\ synced' = Len(log) /\ files' = files /\ onDisk' = onDisk
      /\ memtable' = memtable /\ sstables' = sstables /\ nextSst' = nextSst
      /\ seq' = seq /\ pc = "append" /\ pc' = "apply" /\ op' = op
      /\ op.next > Len(op.recs) /\ tainted' = tainted /\ acked' = acked
  BY DEF Sync, SyncData, Goto, memVars, obsVars
<1>2. Readable' = Readable /\ Buried' = Buried
  BY <1>1 DEF Readable, Buried, Whole, FrameWords
<1>3. ~Lost' => Buried = {} /\ ~Lost
  BY <1>0, <1>1, <1>2 DEF Lost, Buried, Numbers
<1>4. \A i \in Readable : i <= synced'
  BY <1>0, <1>1 DEF Numbers
<1>5. \A id, s : Logged(id, s) => Logged(id, s)'
  BY <1>1, <1>2, <1>4 DEF Logged
<1>6. StepInv' /\ NameInv'
  BY <1>1 DEF EngineInv, StepInv, NameInv, ReadersOnDisk
<1>7. ASSUME ~tainted PROVE DiskInv'
  BY <1>1, <1>2, <1>3, <1>5, <1>7 DEF EngineInv, DiskInv, Present
<1>8. ASSUME ~tainted PROVE MemoryInv' /\ SeqInv'
  BY <1>1, <1>2, <1>8, SameLevels DEF EngineInv, MemoryInv, SeqInv, Present
<1>9. ASSUME ~tainted PROVE OpInv'
  <2>1. \A k \in DOMAIN op.recs :
          /\ \A n \in onDisk : files[n][op.recs[k].id].seq <= op.recs[k].seq
          /\ \A i \in DOMAIN sstables :
                sstables[i].recs[op.recs[k].id].seq <= op.recs[k].seq
    BY <1>1, <1>9 DEF EngineInv, OpInv
  <2>2. ASSUME ~Lost', NEW k \in DOMAIN op.recs
        PROVE  Logged(op.recs[k].id, op.recs[k].seq)'
    <3>1. k < op.next
      BY <1>0, <1>1 DEF Numbers
    <3>2. PICK i \in Readable : log[i].rec = op.recs[k]
      BY <1>1, <1>3, <1>9, <2>2, <3>1 DEF EngineInv, OpInv
    <3>3. op.recs[k].seq <= log[i].rec.seq
      BY <1>0, <3>2 DEF Numbers
    <3> QED BY <1>1, <1>2, <1>4, <3>2, <3>3 DEF Logged
  <2> QED BY <1>1, <2>1, <2>2 DEF OpInv
<1> QED BY <1>1, <1>6, <1>7, <1>8, <1>9 DEF EngineInv

(* The write entering the memtable keeps EngineInv: it is in the log.      *)
LEMMA ApplyInv ==
  ASSUME TypeInv, EngineInv, Apply
  PROVE  EngineInv'
<1>0. Numbers /\ Readable \subseteq DOMAIN log
  BY TypeNumbers, ReadableInLog DEF TypeInv
<1>1. /\ log' = log /\ synced' = synced /\ files' = files /\ onDisk' = onDisk
      /\ sstables' = sstables /\ nextSst' = nextSst /\ seq' = seq /\ tainted' = tainted
      /\ pc = "apply" /\ memtable' = InsertAll(memtable, op.recs)
  BY DEF Apply, Goto, ReturnOk, diskVars, walVars, obsVars
<1>2. /\ pc' \in {"flush", "idle"} /\ (op' = op \/ op' = NoOp)
      /\ acked' = acked \/ acked' = InsertAll(acked, op.recs)
  BY DEF Apply, Goto, ReturnOk, AckedAfter, obsVars
<1>3. op'.recs = op.recs \/ op'.recs = <<>>
  BY <1>2 DEF NoOp
<1>4. /\ op.recs \in [1..Len(op.recs) -> Record] /\ Len(op.recs) \in Nat
      /\ memtable \in Layer /\ acked \in Layer
  BY DEF TypeInv, TypeOK, Op
<1> DEFINE Wrote(id, k) == k \in DOMAIN op.recs /\ op.recs[k].id = id
<1>5. ASSUME NEW id \in RecordId
      PROVE  /\ memtable'[id].seq \in Nat /\ memtable[id].seq <= memtable'[id].seq
             /\ \A k : Wrote(id, k) => op.recs[k].seq <= memtable'[id].seq
             /\ \/ memtable'[id] = memtable[id]
                \/ \E k : Wrote(id, k) /\ memtable'[id].seq = op.recs[k].seq
  <2> DEFINE slot == InsertAll(memtable, op.recs)[id]
  <2>1. /\ slot \in Slot /\ slot.seq >= memtable[id].seq
        /\ \A i \in Writes(op.recs, id) : op.recs[i].seq <= slot.seq
        /\ slot = memtable[id] \/ \E i \in Writes(op.recs, id) : slot = SlotOf(op.recs[i])
    BY <1>4, InsertAllSlot
  <2>2. slot.seq \in Nat
    BY <2>1 DEF Slot, SeqNo
  <2> HIDE DEF slot
  <2>3. memtable'[id] = slot
    BY <1>1 DEF slot
  <2> QED BY <2>1, <2>2, <2>3 DEF Writes, SlotOf
<1>6. ASSUME NEW id \in RecordId
      PROVE  \/ acked'[id] = acked[id]
             \/ \E k : Wrote(id, k) /\ acked'[id].seq = op.recs[k].seq
  <2> DEFINE slot == InsertAll(acked, op.recs)[id]
  <2>1. slot = acked[id] \/ \E i \in Writes(op.recs, id) : slot = SlotOf(op.recs[i])
    BY <1>4, InsertAllSlot
  <2> HIDE DEF slot
  <2>2. acked'[id] = acked[id] \/ acked'[id] = slot
    BY <1>2 DEF slot
  <2> QED BY <2>1, <2>2 DEF Writes, SlotOf
<1>7. /\ Readable' = Readable /\ Buried' = Buried /\ (Lost' <=> Lost)
      /\ \A id, s : Logged(id, s)' <=> Logged(id, s)
  BY <1>1, SameLog
<1>8. ASSUME NEW id \in RecordId, NEW s \in Nat, Covered(id, s)
      PROVE  Covered(id, s)'
  BY <1>0, <1>1, <1>5, <1>8 DEF Covered, Numbers
<1>9. StepInv' /\ NameInv'
  BY <1>1, <1>2 DEF EngineInv, StepInv, NameInv, ReadersOnDisk
<1>10. ASSUME ~tainted PROVE DiskInv'
  <2>1. ASSUME ~Lost, NEW id \in RecordId, memtable'[id].seq > 0
        PROVE  Logged(id, memtable'[id].seq)
    <3>1. CASE memtable'[id] = memtable[id]
      BY <1>1, <1>10, <2>1, <3>1 DEF EngineInv, DiskInv, Present
    <3>2. ASSUME NEW k, Wrote(id, k), memtable'[id].seq = op.recs[k].seq
          PROVE  Logged(id, memtable'[id].seq)
      BY <1>1, <1>10, <2>1, <3>2 DEF EngineInv, OpInv
    <3> QED BY <1>5, <3>1, <3>2
  <2> DEFINE FilesInOrder ==
               \A m, n \in onDisk : \A id \in RecordId :
                  m < n /\ Present(files[n], id) => files[m][id].seq <= files[n][id].seq
             LogCovers ==
               \A i \in Readable : \A n \in onDisk : \A id \in RecordId :
                  log[i].rec.id = id =>
                    files[n][id].seq <= log[i].rec.seq \/ Logged(id, files[n][id].seq)
  <2>2. FilesInOrder /\ (~Lost => LogCovers)
    BY <1>10 DEF EngineInv, DiskInv
  <2>3. FilesInOrder' /\ (~Lost' => LogCovers')
    BY <1>1, <1>7, <2>2 DEF Present
  <2>4. pc' # "down"
    BY <1>2
  <2>5. ASSUME ~Lost', NEW id \in RecordId, Present(memtable, id)'
        PROVE  Logged(id, memtable[id].seq)'
    BY <1>7, <2>1, <2>5 DEF Present
  <2> QED BY <2>3, <2>4, <2>5 DEF DiskInv
<1>11. ASSUME ~tainted PROVE MemoryInv'
  <2>1. \A i, j \in DOMAIN sstables : \A id \in RecordId :
          i < j /\ Present(sstables[j].recs, id) =>
              sstables[i].recs[id].seq <= sstables[j].recs[id].seq
    BY <1>1, <1>11 DEF EngineInv, MemoryInv
  <2>2. ASSUME NEW i \in DOMAIN sstables, NEW id \in RecordId, memtable'[id].seq > 0
        PROVE  sstables[i].recs[id].seq <= memtable'[id].seq
    <3>1. CASE memtable'[id] = memtable[id]
      BY <1>1, <1>11, <2>2, <3>1 DEF EngineInv, MemoryInv, Present
    <3>2. ASSUME NEW k, Wrote(id, k), memtable'[id].seq = op.recs[k].seq
          PROVE  sstables[i].recs[id].seq <= memtable'[id].seq
      BY <1>1, <1>11, <3>2 DEF EngineInv, OpInv
    <3> QED BY <1>5, <3>1, <3>2
  <2>3. ASSUME NEW n \in onDisk, NEW id \in RecordId
        PROVE  Covered(id, files[n][id].seq)'
    <3>1. files[n][id].seq \in Nat
      BY <1>0 DEF Numbers
    <3>2. Covered(id, files[n][id].seq)
      BY <1>1, <1>11 DEF EngineInv, MemoryInv
    <3>3. PICK s \in Nat : s = files[n][id].seq
      BY <3>1
    <3>4. Covered(id, s)'
      BY <1>8, <3>2, <3>3
    <3> QED BY <1>1, <3>3, <3>4
  <2>4. ASSUME NEW id \in RecordId PROVE Covered(id, acked[id].seq)'
    <3>1. CASE acked'[id] = acked[id]
      <4>1. PICK s \in Nat : s = acked[id].seq
        BY <1>0 DEF Numbers
      <4>2. Covered(id, s)
        BY <1>1, <1>11, <4>1 DEF EngineInv, MemoryInv
      <4>3. Covered(id, s)'
        BY <1>8, <4>2
      <4> QED BY <3>1, <4>1, <4>3
    <3>2. ASSUME NEW k, Wrote(id, k), acked'[id].seq = op.recs[k].seq
          PROVE  Covered(id, acked[id].seq)'
      BY <1>5, <3>2 DEF Covered
    <3> QED BY <1>6, <3>1, <3>2
  <2> QED BY <1>1, <2>1, <2>2, <2>3, <2>4 DEF MemoryInv, Present
<1>12. ASSUME ~tainted PROVE SeqInv'
  <2>1. ASSUME NEW id \in RecordId PROVE memtable'[id].seq <= seq
    BY <1>1, <1>5, <1>12 DEF EngineInv, SeqInv
  <2> QED BY <1>1, <1>3, <1>7, <1>12, <2>1 DEF EngineInv, SeqInv
<1>13. OpInv'
  <2>1. ASSUME NEW k \in DOMAIN op'.recs
        PROVE  op'.recs[k].seq <= memtable'[op'.recs[k].id].seq
    <3>1. op'.recs = op.recs
      BY <1>3
    <3>2. op.recs[k].id \in RecordId
      BY <1>0, <3>1 DEF Numbers
    <3>3. op.recs[k].seq <= memtable'[op.recs[k].id].seq
      BY <1>5, <3>1, <3>2
    <3> QED BY <3>1, <3>3
  <2> QED BY <1>2, <2>1 DEF OpInv, Covered
<1> QED BY <1>1, <1>9, <1>10, <1>11, <1>12, <1>13 DEF EngineInv
-----------------------------------------------------------------------------
(* What returning acknowledges, the levels hold.                           *)
LEMMA AckedCovered ==
  ASSUME TypeInv, EngineInv, ~tainted, pc # "down",
         \/ acked' = acked
         \/ pc \notin {"append", "apply"} /\ acked' = InsertAll(acked, op.recs)
  PROVE  \A id \in RecordId : Covered(id, acked'[id].seq)
<1> SUFFICES ASSUME NEW id \in RecordId PROVE Covered(id, acked'[id].seq)
  OBVIOUS
<1>1. Covered(id, acked[id].seq)
  BY DEF EngineInv, MemoryInv
<1>2. CASE acked' = acked
  BY <1>1, <1>2
<1>3. CASE pc \notin {"append", "apply"} /\ acked' = InsertAll(acked, op.recs)
  <2>1. op.recs \in [1..Len(op.recs) -> Record] /\ Len(op.recs) \in Nat /\ acked \in Layer
    BY DEF TypeInv, TypeOK, Op
  <2> DEFINE slot == InsertAll(acked, op.recs)[id]
  <2>2. slot = acked[id] \/ \E i \in Writes(op.recs, id) : slot = SlotOf(op.recs[i])
    BY <2>1, InsertAllSlot
  <2>3. \A k \in DOMAIN op.recs : Covered(op.recs[k].id, op.recs[k].seq)
    BY <1>3 DEF EngineInv, OpInv
  <2> HIDE DEF slot
  <2>4. CASE slot = acked[id]
    BY <1>1, <1>3, <2>4 DEF slot
  <2>5. ASSUME NEW i \in Writes(op.recs, id), slot = SlotOf(op.recs[i])
        PROVE  Covered(id, slot.seq)
    <3>1. i \in DOMAIN op.recs /\ op.recs[i].id = id /\ slot.seq = op.recs[i].seq
      BY <2>5 DEF Writes, SlotOf
    <3> QED BY <2>3, <3>1
  <2> QED BY <1>3, <2>2, <2>4, <2>5 DEF slot
<1> QED BY <1>2, <1>3

(* Steps that return, successfully or not, without touching a level.       *)
LEMMA ReturnInv ==
  ASSUME TypeInv, EngineInv, ReturnOk \/ ReturnErr, UNCHANGED <<diskVars, memVars>>,
         pc \notin {"down", "apply"}, ReturnOk => pc # "append"
  PROVE  EngineInv'
<1>1. /\ log' = log /\ synced' = synced /\ files' = files /\ onDisk' = onDisk
      /\ memtable' = memtable /\ sstables' = sstables /\ nextSst' = nextSst
      /\ seq' = seq /\ tainted' = tainted /\ pc' = "idle" /\ op'.recs = <<>>
  BY DEF ReturnOk, ReturnErr, diskVars, walVars, memVars, NoOp
<1>2. tainted \/ \A id \in RecordId : Covered(id, acked'[id].seq)
  BY AckedCovered DEF ReturnOk, ReturnErr, AckedAfter
<1> QED BY <1>1, <1>2, QuietInv

(* Starting a flush keeps EngineInv: nothing has changed yet.              *)
LEMMA BeginInv ==
  ASSUME TypeInv, EngineInv, NEW kind, Begin(kind)
  PROVE  EngineInv'
<1>1. /\ log' = log /\ synced' = synced /\ files' = files /\ onDisk' = onDisk
      /\ memtable' = memtable /\ sstables' = sstables /\ nextSst' = nextSst
      /\ seq' = seq /\ tainted' = tainted /\ acked' = acked
      /\ pc = "idle" /\ pc' = "flush" /\ op'.recs = <<>>
  BY DEF Begin, Goto, obsVars, diskVars, walVars, memVars, NoOp
<1>2. tainted \/ \A id \in RecordId : Covered(id, acked'[id].seq)
  BY <1>1 DEF EngineInv, MemoryInv
<1> QED BY <1>1, <1>2, QuietInv

(* A memtable of size 0 holds nothing. *)
LEMMA EmptySize ==
  ASSUME Size(memtable) = 0
  PROVE  \A id \in RecordId : ~Present(memtable, id)
<1> DEFINE S == {id \in RecordId : Present(memtable, id)}
<1>1. IsFiniteSet(S)
  BY LayersAssumption, FS_Subset
<1>2. S = {}
  BY <1>1, FS_EmptySet DEF Size
<1> QED BY <1>2

(* An empty memtable is not flushed, and EngineInv kept.                   *)
LEMMA FlushNothingInv ==
  ASSUME TypeInv, EngineInv, FlushNothing
  PROVE  EngineInv'
<1>1. CASE op.kind = "compact"
  <2>1. /\ log' = log /\ synced' = synced /\ files' = files /\ onDisk' = onDisk
        /\ memtable' = memtable /\ sstables' = sstables /\ nextSst' = nextSst
        /\ seq' = seq /\ tainted' = tainted /\ acked' = acked
        /\ pc = "flush" /\ pc' = "merge" /\ op' = op
    BY <1>1 DEF FlushNothing, AfterFlush, Goto, obsVars, diskVars, walVars, memVars
  <2>2. tainted \/ \A id \in RecordId : Covered(id, acked'[id].seq)
    BY <2>1 DEF EngineInv, MemoryInv
  <2>3. \A id \in RecordId : ~Present(memtable, id)
    BY EmptySize DEF FlushNothing
  <2> QED BY <2>1, <2>2, <2>3, QuietInv
<1>2. CASE op.kind # "compact"
  BY <1>2, ReturnInv DEF FlushNothing, AfterFlush
<1> QED BY <1>1, <1>2

(* Nothing changed at all. *)
LEMMA StutterInv ==
  ASSUME EngineInv, UNCHANGED vars
  PROVE  EngineInv'
<1>1. /\ log' = log /\ synced' = synced /\ files' = files /\ onDisk' = onDisk
      /\ memtable' = memtable /\ sstables' = sstables /\ nextSst' = nextSst
      /\ seq' = seq /\ tainted' = tainted /\ acked' = acked /\ pc' = pc /\ op' = op
  BY DEF vars, obsVars, diskVars, walVars, memVars
<1>2. /\ Readable' = Readable /\ Buried' = Buried /\ (Lost' <=> Lost)
      /\ \A id, s : Logged(id, s)' <=> Logged(id, s)
      /\ \A id, s : Covered(id, s)' <=> Covered(id, s)
      /\ Compacted' = Compacted
  BY <1>1, SameLog, SameLevels
<1>3. StepInv'
  BY <1>1, <1>2 DEF EngineInv, StepInv, Present
<1>4. NameInv'
  BY <1>1 DEF EngineInv, NameInv, ReadersOnDisk
<1>5. DiskInv => DiskInv'
  BY <1>1, <1>2 DEF DiskInv, Present
<1>6. MemoryInv => MemoryInv'
  BY <1>1, <1>2 DEF MemoryInv, Present
<1>7. SeqInv => SeqInv'
  BY <1>1, <1>2 DEF SeqInv
<1>8. OpInv => OpInv'
  BY <1>1, <1>2 DEF OpInv
<1> QED BY <1>1, <1>3, <1>4, <1>5, <1>6, <1>7, <1>8 DEF EngineInv
-----------------------------------------------------------------------------
(* A flush: the memtable becomes a file, the file a table, and the log is  *)
(* emptied.                                                                *)
LEMMA FlushWriteInv ==
  ASSUME TypeInv, EngineInv, FlushWrite
  PROVE  EngineInv'
<1>0. Numbers /\ Readable \subseteq DOMAIN log
  BY TypeNumbers, ReadableInLog DEF TypeInv
<1>1. /\ log' = log /\ synced' = synced /\ memtable' = memtable
      /\ sstables' = sstables /\ nextSst' = nextSst /\ seq' = seq /\ op' = op
      /\ tainted' = tainted /\ acked' = acked /\ pc = "flush" /\ pc' = "install"
      /\ onDisk' = onDisk \cup {nextSst}
  BY DEF FlushWrite, WriteSst, Goto, obsVars, memVars, walVars
<1>2. /\ files'[nextSst] = memtable
      /\ \A n \in SstId \ {nextSst} : files'[n] = files[n]
      /\ nextSst \in SstId
  BY DEF FlushWrite, WriteSst, TypeInv, TypeOK, SstId
<1>3. /\ Readable' = Readable /\ Buried' = Buried /\ (Lost' <=> Lost)
      /\ \A id, s : Logged(id, s)' <=> Logged(id, s)
      /\ \A id, s : Covered(id, s)' <=> Covered(id, s)
  BY <1>1, SameLog, SameLevels
<1>4. StepInv'
  BY <1>1, <1>2 DEF StepInv
<1>5. NameInv'
  <2>1. ASSUME NEW i \in DOMAIN sstables
        PROVE  sstables[i].name \in onDisk /\ files'[sstables[i].name] = sstables[i].recs
    <3>1. /\ sstables[i].name \in SstId /\ sstables[i].name < nextSst
          /\ sstables[i].name \in onDisk /\ files[sstables[i].name] = sstables[i].recs
      BY <1>0, <1>1 DEF EngineInv, NameInv, ReadersOnDisk, Numbers
    <3>2. sstables[i].name # nextSst
      BY <3>1 DEF SstId
    <3> QED BY <1>2, <3>1, <3>2
  <2> QED BY <1>0, <1>1, <2>1 DEF EngineInv, NameInv, ReadersOnDisk, Numbers
<1>6. ASSUME ~tainted, NEW n \in onDisk, NEW id \in RecordId, Present(memtable, id)
      PROVE  files[n][id].seq <= memtable[id].seq
  <2>1. Covered(id, files[n][id].seq)
    BY <1>1, <1>6 DEF EngineInv, MemoryInv
  <2>2. \A i \in DOMAIN sstables : sstables[i].recs[id].seq <= memtable[id].seq
    BY <1>1, <1>6 DEF EngineInv, MemoryInv
  <2> QED BY <1>0, <2>1, <2>2 DEF Covered, Numbers
<1>7. ASSUME ~tainted PROVE DiskInv'
  <2>1. ASSUME NEW m \in onDisk', NEW n \in onDisk', NEW id \in RecordId,
               m < n, files'[n][id].seq > 0
        PROVE  files'[m][id].seq <= files'[n][id].seq
    <3>1. m \in SstId /\ n \in SstId /\ m \in Nat /\ n \in Nat /\ nextSst \in Nat
      BY <1>0, <1>1, <1>2 DEF Numbers, SstId
    <3>2. m # nextSst /\ m \in onDisk
      BY <1>1, <2>1, <3>1 DEF EngineInv, NameInv
    <3>3. CASE n = nextSst
      BY <1>2, <1>6, <1>7, <2>1, <3>1, <3>2, <3>3 DEF Present
    <3>4. CASE n # nextSst
      BY <1>1, <1>2, <1>7, <2>1, <3>1, <3>2, <3>4 DEF EngineInv, DiskInv, Present
    <3> QED BY <3>3, <3>4
  <2>2. ASSUME ~Lost, NEW i \in Readable, NEW n \in onDisk', NEW id \in RecordId,
               log[i].rec.id = id
        PROVE  files'[n][id].seq <= log[i].rec.seq \/ Logged(id, files'[n][id].seq)
    <3>1. CASE n = nextSst
      <4>1. CASE Present(memtable, id)
        BY <1>1, <1>2, <1>7, <2>2, <3>1, <4>1 DEF EngineInv, DiskInv
      <4>2. CASE ~Present(memtable, id)
        <5>1. log[i].rec.seq \in Nat /\ memtable[id].seq \in Nat
          BY <1>0, <2>2 DEF Numbers
        <5> QED BY <1>2, <3>1, <4>2, <5>1 DEF Present
      <4> QED BY <4>1, <4>2
    <3>2. CASE n # nextSst
      BY <1>0, <1>1, <1>2, <1>7, <2>2, <3>2 DEF EngineInv, DiskInv, Numbers
    <3> QED BY <3>1, <3>2
  <2>3. ASSUME ~Lost, NEW id \in RecordId, Present(memtable, id)
        PROVE  Logged(id, memtable[id].seq)
    BY <1>1, <1>7, <2>3 DEF EngineInv, DiskInv
  <2> QED BY <1>1, <1>3, <2>1, <2>2, <2>3 DEF DiskInv, Present
<1>8. ASSUME ~tainted PROVE MemoryInv'
  <2>1. ASSUME NEW n \in onDisk', NEW id \in RecordId
        PROVE  Covered(id, files'[n][id].seq)
    <3>1. CASE n = nextSst
      BY <1>0, <1>2, <3>1 DEF Covered, Numbers
    <3>2. CASE n # nextSst
      BY <1>0, <1>1, <1>2, <1>8, <3>2 DEF EngineInv, MemoryInv, Numbers
    <3> QED BY <3>1, <3>2
  <2>2. \A id \in RecordId : Covered(id, acked[id].seq)
    BY <1>1, <1>8 DEF EngineInv, MemoryInv
  <2>3. /\ \A i, j \in DOMAIN sstables : \A id \in RecordId :
              i < j /\ Present(sstables[j].recs, id) =>
                  sstables[i].recs[id].seq <= sstables[j].recs[id].seq
        /\ \A i \in DOMAIN sstables : \A id \in RecordId :
              Present(memtable, id) => sstables[i].recs[id].seq <= memtable[id].seq
    BY <1>1, <1>8 DEF EngineInv, MemoryInv
  <2> QED BY <1>1, <1>3, <2>1, <2>2, <2>3 DEF MemoryInv, Present
<1>9. ASSUME ~tainted PROVE SeqInv'
  <2>1. ASSUME NEW n \in onDisk', NEW id \in RecordId PROVE files'[n][id].seq <= seq
    BY <1>0, <1>1, <1>2, <1>9 DEF EngineInv, SeqInv, Numbers
  <2> QED BY <1>1, <1>3, <1>9, <2>1 DEF EngineInv, SeqInv
<1>10. ASSUME ~tainted PROVE OpInv'
  BY <1>1, <1>3, <1>10 DEF EngineInv, OpInv
<1> QED BY <1>1, <1>4, <1>5, <1>7, <1>8, <1>9, <1>10 DEF EngineInv

(* Opening the new table and emptying the memtable keeps EngineInv.        *)
LEMMA InstallInv ==
  ASSUME TypeInv, EngineInv, Install
  PROVE  EngineInv'
<1>0. Numbers /\ Readable \subseteq DOMAIN log
  BY TypeNumbers, ReadableInLog DEF TypeInv
<1> DEFINE new == [name |-> nextSst, recs |-> memtable]
<1>1. /\ log' = log /\ synced' = synced /\ files' = files /\ onDisk' = onDisk
      /\ seq' = seq /\ op' = op /\ tainted' = tainted /\ acked' = acked
      /\ pc = "install" /\ pc' = "walclear"
      /\ nextSst' = nextSst + 1 /\ memtable' = EmptyLayer
      /\ files[nextSst] = memtable /\ sstables' = Append(sstables, new)
      /\ nextSst \in onDisk /\ nextSst \in Nat
  BY <1>0 DEF Install, Goto, obsVars, diskVars, walVars,
              EngineInv, StepInv, NameInv, Numbers
<1>2. /\ DOMAIN sstables' = 1..(Len(sstables) + 1)
      /\ \A i \in DOMAIN sstables :
            /\ i \in DOMAIN sstables' /\ sstables'[i] = sstables[i]
            /\ i # Len(sstables) + 1
      /\ \A i \in DOMAIN sstables' :
            i \in DOMAIN sstables \/ i = Len(sstables) + 1
      /\ sstables'[Len(sstables) + 1] = new
      /\ Len(sstables) + 1 \in DOMAIN sstables'
  BY <1>0, <1>1 DEF Numbers, TypeInv, TypeOK
<1>3. new.name = nextSst /\ new.recs = memtable
  OBVIOUS
<1> HIDE DEF new
<1>4. /\ Readable' = Readable /\ Buried' = Buried /\ (Lost' <=> Lost)
      /\ \A id, s : Logged(id, s)' <=> Logged(id, s)
  BY <1>1, SameLog
<1>5. ASSUME NEW id, NEW s, Covered(id, s) PROVE Covered(id, s)'
  BY <1>2, <1>3, <1>5 DEF Covered
<1>6. \A id \in RecordId : memtable'[id].seq = 0
  BY <1>1 DEF EmptyLayer, Absent
<1>7. StepInv'
  BY <1>1, <1>6 DEF StepInv, Present
<1>8. NameInv'
  <2>1. ASSUME NEW i \in DOMAIN sstables'
        PROVE  /\ sstables'[i].name \in onDisk
               /\ files[sstables'[i].name] = sstables'[i].recs
               /\ sstables'[i].name < nextSst + 1
    <3>1. CASE i \in DOMAIN sstables
      <4>1. /\ sstables[i].name \in SstId /\ sstables[i].name < nextSst
            /\ sstables[i].name \in onDisk /\ files[sstables[i].name] = sstables[i].recs
        BY <1>0, <1>1, <3>1 DEF EngineInv, NameInv, ReadersOnDisk, Numbers
      <4>2. sstables[i].name < nextSst + 1
        BY <1>1, <4>1 DEF SstId
      <4> QED BY <1>2, <3>1, <4>1, <4>2
    <3>2. CASE i = Len(sstables) + 1
      BY <1>1, <1>2, <1>3, <3>2
    <3> QED BY <1>2, <3>1, <3>2
  <2>2. \A n \in onDisk : n <= nextSst + 1
    <3>1. \A n \in onDisk : n \in SstId /\ n <= nextSst
      BY <1>0, <1>1 DEF EngineInv, NameInv, Numbers
    <3> QED BY <1>1, <3>1 DEF SstId
  <2> QED BY <1>1, <2>1, <2>2 DEF NameInv, ReadersOnDisk
<1>9. ASSUME ~tainted PROVE DiskInv'
  <2>1. \A m, n \in onDisk : \A id \in RecordId :
          m < n /\ Present(files[n], id) => files[m][id].seq <= files[n][id].seq
    BY <1>9 DEF EngineInv, DiskInv
  <2>2. ~Lost => \A i \in Readable : \A n \in onDisk : \A id \in RecordId :
          log[i].rec.id = id =>
              files[n][id].seq <= log[i].rec.seq \/ Logged(id, files[n][id].seq)
    BY <1>9 DEF EngineInv, DiskInv
  <2> QED BY <1>1, <1>4, <1>6, <2>1, <2>2 DEF DiskInv, Present
<1>10. ASSUME ~tainted PROVE MemoryInv'
  <2>1. ASSUME NEW i \in DOMAIN sstables', NEW j \in DOMAIN sstables',
               NEW id \in RecordId, i < j, sstables'[j].recs[id].seq > 0
        PROVE  sstables'[i].recs[id].seq <= sstables'[j].recs[id].seq
    <3>1. i \in DOMAIN sstables
      BY <1>0, <1>2, <2>1 DEF Numbers
    <3>2. CASE j \in DOMAIN sstables
      BY <1>1, <1>2, <1>10, <2>1, <3>1, <3>2 DEF EngineInv, MemoryInv, Present
    <3>3. CASE j = Len(sstables) + 1
      <4>1. sstables'[j].recs = memtable
        BY <1>2, <1>3, <3>3
      <4>2. sstables[i].recs[id].seq <= memtable[id].seq
        BY <1>1, <1>10, <2>1, <3>1, <4>1 DEF EngineInv, MemoryInv, Present
      <4> QED BY <1>2, <3>1, <4>1, <4>2
    <3> QED BY <1>2, <3>2, <3>3
  <2>2. \A n \in onDisk : \A id \in RecordId : Covered(id, files[n][id].seq)'
    BY <1>1, <1>5, <1>10 DEF EngineInv, MemoryInv
  <2>3. \A id \in RecordId : Covered(id, acked[id].seq)'
    BY <1>1, <1>5, <1>10 DEF EngineInv, MemoryInv
  <2>4. \A id \in RecordId : ~Present(memtable', id)
    BY <1>6 DEF Present
  <2>5. \A i, j \in DOMAIN sstables' : \A id \in RecordId :
          i < j /\ Present(sstables'[j].recs, id) =>
              sstables'[i].recs[id].seq <= sstables'[j].recs[id].seq
    BY <2>1 DEF Present
  <2>6. onDisk' = onDisk
    BY <1>1
  <2> QED BY <2>2, <2>3, <2>4, <2>5, <2>6 DEF MemoryInv
<1>11. ASSUME ~tainted PROVE SeqInv'
  <2>1. ASSUME NEW i \in DOMAIN sstables', NEW id \in RecordId
        PROVE  sstables'[i].recs[id].seq <= seq
    <3>1. CASE i \in DOMAIN sstables
      BY <1>1, <1>2, <1>11, <3>1 DEF EngineInv, SeqInv
    <3>2. CASE i = Len(sstables) + 1
      BY <1>1, <1>2, <1>3, <1>11, <3>2 DEF EngineInv, SeqInv
    <3> QED BY <1>2, <3>1, <3>2
  <2>2. seq >= 0
    BY <1>0 DEF Numbers
  <2> QED BY <1>1, <1>4, <1>6, <1>11, <2>1, <2>2 DEF EngineInv, SeqInv
<1>12. ASSUME ~tainted PROVE OpInv'
  <2>1. \A k \in DOMAIN op.recs : Covered(op.recs[k].id, op.recs[k].seq)
    BY <1>1, <1>12 DEF EngineInv, OpInv
  <2>2. \A k \in DOMAIN op.recs : Covered(op.recs[k].id, op.recs[k].seq)'
    BY <1>1, <1>5, <2>1
  <2> QED BY <1>1, <2>2 DEF OpInv
<1> QED BY <1>1, <1>7, <1>8, <1>9, <1>10, <1>11, <1>12 DEF EngineInv

(* Clearing the log keeps EngineInv: the new table holds it all.           *)
LEMMA WalClearInv ==
  ASSUME TypeInv, EngineInv, WalClear
  PROVE  EngineInv'
<1>1. /\ log' = <<>> /\ synced' = 0 /\ files' = files /\ onDisk' = onDisk
      /\ memtable' = memtable /\ sstables' = sstables /\ nextSst' = nextSst
      /\ seq' = seq /\ tainted' = tainted /\ pc = "walclear" /\ pc' \in {"idle", "merge"}
      /\ op'.recs = op.recs \/ op'.recs = <<>>
      /\ acked' = acked \/ acked' = InsertAll(acked, op.recs)
  BY DEF WalClear, Clear, AfterFlush, AckedAfter, Goto, ReturnOk, NoOp, obsVars, memVars
<1>2. Readable' = {} /\ ~Lost'
  BY <1>1 DEF Readable, Lost, Buried
<1>3. \A id, s : Covered(id, s)' <=> Covered(id, s)
  BY <1>1, SameLevels
<1>4. \A id \in RecordId : ~Present(memtable, id)
  BY <1>1 DEF EngineInv, StepInv
<1>5. StepInv' /\ NameInv'
  BY <1>1, <1>4 DEF EngineInv, StepInv, NameInv, ReadersOnDisk, Present
<1>6. ASSUME ~tainted PROVE DiskInv'
  BY <1>1, <1>2, <1>4, <1>6 DEF EngineInv, DiskInv, Present
<1>7. ASSUME ~tainted PROVE MemoryInv'
  <2>1. \A id \in RecordId : Covered(id, acked'[id].seq)
    BY <1>1, <1>7, AckedCovered
  <2> QED BY <1>1, <1>3, <1>7, <2>1 DEF EngineInv, MemoryInv, Present
<1>8. ASSUME ~tainted PROVE SeqInv' /\ OpInv'
  BY <1>1, <1>2, <1>3, <1>8 DEF EngineInv, SeqInv, OpInv
<1> QED BY <1>1, <1>5, <1>6, <1>7, <1>8 DEF EngineInv
-----------------------------------------------------------------------------
(* A merge: the merged table holds, of every id, what the newest of the    *)
(* tables that hold it does, and in levels in order no table holds more.   *)
LEMMA CompactedIs ==
  ASSUME TypeInv, NEW id \in RecordId
  PROVE  /\ Compacted[id].seq \in Nat
         /\ \/ Compacted[id].seq = 0
            \/ \E i \in DOMAIN sstables : Compacted[id] = sstables[i].recs[id]
         /\ EngineInv /\ ~tainted /\ pc # "down" =>
              \A i \in DOMAIN sstables : sstables[i].recs[id].seq <= Compacted[id].seq
<1> DEFINE n == Len(sstables)
           layers == [i \in DOMAIN sstables |-> sstables[i].recs]
           slot == Merge(layers)[id]
<1>0. Numbers
  BY TypeNumbers DEF TypeInv
<1>1. n \in Nat /\ DOMAIN sstables = 1..n /\ \A i \in 1..n : sstables[i].recs[id].seq \in Nat
  BY <1>0 DEF Numbers
<1>2. layers \in [1..n -> Layer] /\ \A i \in 1..n : layers[i] = sstables[i].recs
  <2>1. \A i \in 1..n : sstables[i] \in Reader
    BY <1>1 DEF TypeInv, TypeOK
  <2> QED BY <1>1, <2>1 DEF Reader
<1>3. /\ slot \in Slot
      /\ \/ slot = Absent /\ \A i \in 1..n : ~Present(layers[i], id)
         \/ \E i \in 1..n : /\ Present(layers[i], id) /\ slot = layers[i][id]
                            /\ \A j \in 1..n : Present(layers[j], id) => j <= i
  <2> HIDE DEF layers, n
  <2> QED BY <1>1, <1>2, MergeSlot
<1>4. Compacted[id] = slot
  BY DEF Compacted
<1>5. slot.seq \in Nat
  BY <1>3 DEF Slot, SeqNo
<1>6. Absent.seq = 0
  BY DEF Absent
<1> HIDE DEF slot, layers, n
<1>7. ASSUME EngineInv, ~tainted, pc # "down", NEW j \in 1..n
      PROVE  sstables[j].recs[id].seq <= slot.seq
  <2>1. CASE slot = Absent /\ \A i \in 1..n : ~Present(layers[i], id)
    BY <1>1, <1>2, <1>6, <2>1 DEF Present
  <2>2. ASSUME NEW i \in 1..n, Present(layers[i], id), slot = layers[i][id],
               \A k \in 1..n : Present(layers[k], id) => k <= i
        PROVE  sstables[j].recs[id].seq <= slot.seq
    <3>1. CASE j = i
      BY <1>1, <1>2, <2>2, <3>1
    <3>2. CASE j # i
      <4>1. CASE Present(layers[j], id)
        <5>1. j < i
          BY <1>1, <2>2, <3>2, <4>1
        <5> QED BY <1>1, <1>2, <1>7, <2>2, <5>1 DEF EngineInv, MemoryInv, Present
      <4>2. CASE ~Present(layers[j], id)
        BY <1>1, <1>2, <1>5, <4>2 DEF Present
      <4> QED BY <4>1, <4>2
    <3> QED BY <3>1, <3>2
  <2> QED BY <1>3, <2>1, <2>2
<1> QED BY <1>1, <1>2, <1>3, <1>4, <1>5, <1>6, <1>7

(* Writing the merged table keeps EngineInv: it is above its sources.      *)
LEMMA MergeTablesInv ==
  ASSUME TypeInv, EngineInv, MergeTables
  PROVE  EngineInv'
<1>0. Numbers /\ Readable \subseteq DOMAIN log
  BY TypeNumbers, ReadableInLog DEF TypeInv
<1>1. /\ log' = log /\ synced' = synced /\ memtable' = memtable
      /\ sstables' = sstables /\ nextSst' = nextSst + 1 /\ seq' = seq /\ op' = op
      /\ tainted' = tainted /\ acked' = acked /\ pc = "merge" /\ pc' = "swap"
      /\ onDisk' = onDisk \cup {nextSst} /\ nextSst \in Nat /\ nextSst' - 1 = nextSst
  BY <1>0 DEF MergeTables, WriteSst, Goto, obsVars, walVars, Numbers
<1>2. /\ files'[nextSst] = Compacted
      /\ \A n \in SstId \ {nextSst} : files'[n] = files[n]
      /\ nextSst \in SstId
  BY DEF MergeTables, WriteSst, TypeInv, TypeOK, SstId
<1>3. /\ Readable' = Readable /\ Buried' = Buried /\ (Lost' <=> Lost)
      /\ \A id, s : Logged(id, s)' <=> Logged(id, s)
      /\ \A id, s : Covered(id, s)' <=> Covered(id, s)
      /\ Compacted' = Compacted
  BY <1>1, SameLog, SameLevels
<1>4. \A id \in RecordId : ~Present(memtable, id) /\ memtable[id].seq = 0
  BY <1>0, <1>1 DEF EngineInv, StepInv, Present, Numbers
<1>5. StepInv'
  BY <1>1, <1>2, <1>3, <1>4 DEF StepInv, Present
<1>6. \A i \in DOMAIN sstables :
        /\ sstables[i].name \in onDisk /\ sstables[i].name < nextSst
        /\ sstables[i].name \in SstId \ {nextSst}
        /\ files[sstables[i].name] = sstables[i].recs
  <2> TAKE i \in DOMAIN sstables
  <2>1. /\ sstables[i].name \in SstId /\ sstables[i].name < nextSst
        /\ sstables[i].name \in onDisk /\ files[sstables[i].name] = sstables[i].recs
    BY <1>0, <1>1 DEF EngineInv, NameInv, ReadersOnDisk, Numbers
  <2>2. sstables[i].name # nextSst
    BY <1>1, <2>1 DEF SstId
  <2> QED BY <2>1, <2>2
<1>7. \A n \in onDisk : n \in SstId /\ n \in Nat /\ n <= nextSst
  BY <1>0, <1>1 DEF EngineInv, NameInv, Numbers, SstId
<1>8. NameInv'
  <2>1. \A i \in DOMAIN sstables :
          /\ sstables[i].name \in onDisk' /\ files'[sstables[i].name] = sstables[i].recs
          /\ sstables[i].name < nextSst + 1
    BY <1>1, <1>2, <1>6 DEF SstId
  <2>2. \A n \in onDisk' : n <= nextSst + 1
    BY <1>1, <1>7
  <2> QED BY <1>1, <1>6, <2>1, <2>2 DEF NameInv, ReadersOnDisk
<1>9. ASSUME ~tainted, NEW id \in RecordId, NEW s \in Nat, Covered(id, s)
      PROVE  s <= Compacted[id].seq
  <2>1. /\ Compacted[id].seq \in Nat
        /\ \A i \in DOMAIN sstables : sstables[i].recs[id].seq <= Compacted[id].seq
    BY <1>1, <1>9, CompactedIs
  <2>2. \A i \in DOMAIN sstables : sstables[i].recs[id].seq \in Nat
    BY <1>0 DEF Numbers
  <2> QED BY <1>4, <1>9, <2>1, <2>2 DEF Covered
<1>10. ASSUME ~tainted PROVE DiskInv'
  <2>1. ASSUME NEW m \in onDisk', NEW n \in onDisk', NEW id \in RecordId,
               m < n, files'[n][id].seq > 0
        PROVE  files'[m][id].seq <= files'[n][id].seq
    <3>1. m \in SstId /\ n \in SstId /\ m \in Nat /\ n \in Nat /\ n <= nextSst
      BY <1>1, <1>2, <1>7 DEF SstId
    <3>2. m # nextSst /\ m \in onDisk
      BY <1>1, <2>1, <3>1
    <3>3. CASE n = nextSst
      <4>1. Covered(id, files[m][id].seq) /\ files[m][id].seq \in Nat
        BY <1>0, <1>1, <1>10, <3>1, <3>2 DEF EngineInv, MemoryInv, Numbers
      <4> QED BY <1>2, <1>9, <1>10, <3>1, <3>2, <3>3, <4>1
    <3>4. CASE n # nextSst
      BY <1>1, <1>2, <1>10, <2>1, <3>1, <3>2, <3>4 DEF EngineInv, DiskInv, Present
    <3> QED BY <3>3, <3>4
  <2>2. ASSUME ~Lost, NEW i \in Readable, NEW n \in onDisk', NEW id \in RecordId,
               log[i].rec.id = id
        PROVE  files'[n][id].seq <= log[i].rec.seq \/ Logged(id, files'[n][id].seq)
    <3>1. \A m \in onDisk : files[m][id].seq <= log[i].rec.seq
                           \/ Logged(id, files[m][id].seq)
      BY <1>10, <2>2 DEF EngineInv, DiskInv
    <3>2. CASE n = nextSst
      <4>1. log[i].rec.seq \in Nat
        BY <1>0, <2>2 DEF Numbers
      <4>2. CASE Compacted[id].seq = 0
        BY <1>2, <3>2, <4>1, <4>2
      <4>3. ASSUME NEW j \in DOMAIN sstables, Compacted[id] = sstables[j].recs[id]
            PROVE  files'[n][id].seq <= log[i].rec.seq \/ Logged(id, files'[n][id].seq)
        BY <1>2, <1>6, <3>1, <3>2, <4>3
      <4> QED BY <4>2, <4>3, CompactedIs
    <3>3. CASE n # nextSst
      BY <1>1, <1>2, <1>7, <3>1, <3>3
    <3> QED BY <3>2, <3>3
  <2>3. \A m, n \in onDisk' : \A id \in RecordId :
          m < n /\ Present(files'[n], id) => files'[m][id].seq <= files'[n][id].seq
    BY <2>1 DEF Present
  <2>4. ~Lost' => \A i \in Readable' : \A n \in onDisk' : \A id \in RecordId :
          log'[i].rec.id = id =>
              \/ files'[n][id].seq <= log'[i].rec.seq
              \/ Logged(id, files[n][id].seq)'
    BY <1>1, <1>3, <2>2
  <2>5. pc' # "down"
    BY <1>1
  <2>6. \A id \in RecordId : ~Present(memtable', id)
    BY <1>1, <1>4 DEF Present
  <2> QED BY <2>3, <2>4, <2>5, <2>6 DEF DiskInv
<1>11. ASSUME NEW id \in RecordId PROVE Covered(id, Compacted[id].seq)
  BY <1>0, <1>4, CompactedIs DEF Covered, Numbers
<1>12. ASSUME ~tainted PROVE MemoryInv'
  <2>1. ASSUME NEW n \in onDisk', NEW id \in RecordId
        PROVE  Covered(id, files'[n][id].seq)
    <3>1. CASE n = nextSst
      BY <1>2, <1>11, <3>1
    <3>2. CASE n # nextSst
      BY <1>1, <1>2, <1>7, <1>12, <3>2 DEF EngineInv, MemoryInv
    <3> QED BY <3>1, <3>2
  <2>2. \A id \in RecordId : Covered(id, acked[id].seq)
    BY <1>1, <1>12 DEF EngineInv, MemoryInv
  <2>3. \A i, j \in DOMAIN sstables : \A id \in RecordId :
          i < j /\ Present(sstables[j].recs, id) =>
              sstables[i].recs[id].seq <= sstables[j].recs[id].seq
    BY <1>1, <1>12 DEF EngineInv, MemoryInv
  <2> QED BY <1>1, <1>3, <1>4, <2>1, <2>2, <2>3 DEF MemoryInv, Present
<1>13. ASSUME ~tainted PROVE SeqInv'
  <2>1. ASSUME NEW id \in RecordId PROVE Compacted[id].seq <= seq
    BY <1>0, <1>1, <1>13, CompactedIs DEF EngineInv, SeqInv, Numbers
  <2>2. ASSUME NEW n \in onDisk', NEW id \in RecordId PROVE files'[n][id].seq <= seq
    BY <1>1, <1>2, <1>7, <1>13, <2>1 DEF EngineInv, SeqInv
  <2> QED BY <1>1, <1>3, <1>13, <2>2 DEF EngineInv, SeqInv
<1>14. ASSUME ~tainted PROVE OpInv'
  BY <1>1, <1>3, <1>14 DEF EngineInv, OpInv
<1> QED BY <1>1, <1>5, <1>8, <1>10, <1>12, <1>13, <1>14 DEF EngineInv

(* Swapping the readers keeps EngineInv: the merge reads the same.         *)
LEMMA SwapInv ==
  ASSUME TypeInv, EngineInv, Swap
  PROVE  EngineInv'
<1>0. Numbers /\ Readable \subseteq DOMAIN log
  BY TypeNumbers, ReadableInLog DEF TypeInv
<1> DEFINE new == [name |-> nextSst - 1, recs |-> Compacted]
<1>1. /\ log' = log /\ synced' = synced /\ files' = files /\ onDisk' = onDisk
      /\ memtable' = memtable /\ nextSst' = nextSst /\ seq' = seq
      /\ tainted' = tainted /\ acked' = acked /\ pc = "swap" /\ pc' = "remove"
      /\ files[nextSst - 1] = Compacted /\ nextSst - 1 \in onDisk
      /\ sstables' = <<new>>
  BY DEF Swap, Goto, obsVars, diskVars, walVars, EngineInv, StepInv, NameInv
<1>2. op' = [op EXCEPT !.doomed = [i \in DOMAIN sstables |-> sstables[i].name]]
  BY DEF Swap
<1>3. op'.recs = op.recs /\ op'.doomed = [i \in DOMAIN sstables |-> sstables[i].name]
  BY <1>2 DEF TypeInv, TypeOK, Op
<1>4. DOMAIN sstables' = {1} /\ sstables'[1].name = nextSst - 1 /\ sstables'[1].recs = Compacted
  BY <1>1
<1> HIDE DEF new
<1>5. /\ Readable' = Readable /\ Buried' = Buried /\ (Lost' <=> Lost)
      /\ \A id, s : Logged(id, s)' <=> Logged(id, s)
  BY <1>1, SameLog
<1>6. \A id \in RecordId : ~Present(memtable, id) /\ memtable[id].seq = 0
  BY <1>0, <1>1 DEF EngineInv, StepInv, Present, Numbers
<1>7. ASSUME ~tainted, NEW id \in RecordId, NEW s \in Nat, Covered(id, s)
      PROVE  Covered(id, s)'
  <2>1. /\ Compacted[id].seq \in Nat
        /\ \A i \in DOMAIN sstables : sstables[i].recs[id].seq <= Compacted[id].seq
    BY <1>1, <1>7, CompactedIs
  <2>2. \A i \in DOMAIN sstables : sstables[i].recs[id].seq \in Nat
    BY <1>0 DEF Numbers
  <2>3. s <= Compacted[id].seq
    BY <1>6, <1>7, <2>1, <2>2 DEF Covered
  <2> QED BY <1>4, <2>3 DEF Covered
<1>8. StepInv'
  BY <1>1, <1>6 DEF StepInv, Present
<1>9. NameInv'
  <2>1. nextSst \in Nat /\ \A n \in onDisk : n <= nextSst
    BY <1>0, <1>1 DEF EngineInv, NameInv, Numbers
  <2>2. \A i \in DOMAIN sstables : sstables[i].name \in SstId /\ sstables[i].name < nextSst - 1
    BY <1>0, <1>1 DEF EngineInv, NameInv, Numbers
  <2>3. \A k \in DOMAIN op'.doomed : op'.doomed[k] # nextSst - 1
    BY <1>3, <2>1, <2>2 DEF SstId
  <2> QED BY <1>1, <1>4, <2>1, <2>3 DEF NameInv, ReadersOnDisk
<1>10. ASSUME ~tainted PROVE DiskInv'
  BY <1>1, <1>5, <1>6, <1>10 DEF EngineInv, DiskInv, Present
<1>11. ASSUME ~tainted PROVE MemoryInv'
  <2>1. ASSUME NEW n \in onDisk, NEW id \in RecordId PROVE Covered(id, files[n][id].seq)'
    <3>1. PICK s \in Nat : s = files[n][id].seq
      BY <1>0 DEF Numbers
    <3>2. Covered(id, s)
      BY <1>1, <1>11, <3>1 DEF EngineInv, MemoryInv
    <3>3. Covered(id, s)'
      BY <1>7, <1>11, <3>2
    <3> QED BY <1>1, <3>1, <3>3
  <2>2. ASSUME NEW id \in RecordId PROVE Covered(id, acked[id].seq)'
    <3>1. PICK s \in Nat : s = acked[id].seq
      BY <1>0 DEF Numbers
    <3>2. Covered(id, s)
      BY <1>1, <1>11, <3>1 DEF EngineInv, MemoryInv
    <3>3. Covered(id, s)'
      BY <1>7, <1>11, <3>2
    <3> QED BY <1>1, <3>1, <3>3
  <2>3. \A i, j \in DOMAIN sstables' : ~(i < j)
    BY <1>4
  <2> QED BY <1>1, <1>6, <2>1, <2>2, <2>3 DEF MemoryInv, Present
<1>12. ASSUME ~tainted PROVE SeqInv'
  <2>1. ASSUME NEW id \in RecordId PROVE Compacted[id].seq <= seq
    BY <1>0, <1>1, <1>12, CompactedIs DEF EngineInv, SeqInv, Numbers
  <2> QED BY <1>1, <1>3, <1>4, <1>5, <1>12, <2>1 DEF EngineInv, SeqInv
<1>13. ASSUME ~tainted PROVE OpInv'
  <2>1. ASSUME NEW k \in DOMAIN op.recs
        PROVE  Covered(op.recs[k].id, op.recs[k].seq)'
    <3>1. PICK id \in RecordId : id = op.recs[k].id
      BY <1>0 DEF Numbers
    <3>2. PICK s \in Nat : s = op.recs[k].seq
      BY <1>0 DEF Numbers
    <3>3. Covered(id, s)
      BY <1>1, <1>13, <3>1, <3>2 DEF EngineInv, OpInv
    <3>4. Covered(id, s)'
      BY <1>7, <1>13, <3>3
    <3> QED BY <1>3, <3>1, <3>2, <3>4 DEF Covered
  <2> QED BY <1>1, <1>3, <2>1 DEF OpInv
<1> QED BY <1>1, <1>8, <1>9, <1>10, <1>11, <1>12, <1>13 DEF EngineInv

(* Old tables go one by one, or stay behind.                               *)
LEMMA RemoveInv ==
  ASSUME TypeInv, EngineInv, RemoveOld \/ RemoveFails
  PROVE  EngineInv'
<1>0. Numbers /\ Readable \subseteq DOMAIN log
  BY TypeNumbers, ReadableInLog DEF TypeInv
<1> DEFINE d == Head(op.doomed)
<1>1. /\ log' = log /\ synced' = synced /\ memtable' = memtable
      /\ sstables' = sstables /\ nextSst' = nextSst /\ seq' = seq
      /\ tainted' = tainted /\ acked' = acked /\ pc = "remove" /\ pc' = "remove"
      /\ op.doomed # <<>> /\ op' = [op EXCEPT !.doomed = Tail(op.doomed)]
  BY DEF RemoveOld, RemoveFails, Goto, obsVars, diskVars, walVars, memVars
<1>2. /\ op'.recs = op.recs /\ op'.doomed = Tail(op.doomed)
      /\ op.doomed \in Seq(SstId)
  BY <1>1 DEF TypeInv, TypeOK, Op
<1>3. /\ d = op.doomed[1] /\ 1 \in DOMAIN op.doomed /\ d \in SstId
      /\ \A k \in DOMAIN Tail(op.doomed) :
            k + 1 \in DOMAIN op.doomed /\ Tail(op.doomed)[k] = op.doomed[k + 1]
  BY <1>1, <1>2
<1>4. /\ onDisk' \subseteq onDisk /\ \A n \in onDisk' : files'[n] = files[n]
      /\ \A n \in onDisk : n = d \/ n \in onDisk'
  <2>1. CASE RemoveOld
    <3>1. onDisk' = onDisk \ {d} /\ files' = [files EXCEPT ![d] = EmptyLayer]
      BY <2>1 DEF RemoveOld
    <3> HIDE DEF d
    <3> QED BY <1>0, <3>1 DEF Numbers, TypeInv, TypeOK
  <2>2. CASE RemoveFails
    BY <2>2 DEF RemoveFails, diskVars
  <2> QED BY <2>1, <2>2
<1> HIDE DEF d
<1>5. /\ Readable' = Readable /\ Buried' = Buried /\ (Lost' <=> Lost)
      /\ \A id, s : Logged(id, s)' <=> Logged(id, s)
      /\ \A id, s : Covered(id, s)' <=> Covered(id, s)
  BY <1>1, SameLog, SameLevels
<1>6. StepInv'
  BY <1>1 DEF EngineInv, StepInv, Present
<1>7. NameInv'
  <2>1. ASSUME NEW i \in DOMAIN sstables
        PROVE  sstables[i].name \in onDisk' /\ files'[sstables[i].name] = sstables[i].recs
    <3>1. sstables[i].name \in onDisk /\ files[sstables[i].name] = sstables[i].recs
      BY DEF EngineInv, NameInv, ReadersOnDisk
    <3>2. d # sstables[i].name
      BY <1>1, <1>3 DEF EngineInv, NameInv
    <3> QED BY <1>4, <3>1, <3>2
  <2>2. \A k \in DOMAIN Tail(op.doomed) : \A i \in DOMAIN sstables :
          Tail(op.doomed)[k] # sstables[i].name
    BY <1>1, <1>3 DEF EngineInv, NameInv
  <2> QED BY <1>1, <1>2, <1>4, <2>1, <2>2 DEF EngineInv, NameInv, ReadersOnDisk
<1>8. ASSUME ~tainted PROVE DiskInv'
  <2>1. \A m, n \in onDisk' : \A id \in RecordId :
          m < n /\ files'[n][id].seq > 0 => files'[m][id].seq <= files'[n][id].seq
    BY <1>4, <1>8 DEF EngineInv, DiskInv, Present
  <2>2. ~Lost => \A i \in Readable : \A n \in onDisk' : \A id \in RecordId :
          log[i].rec.id = id =>
              files'[n][id].seq <= log[i].rec.seq \/ Logged(id, files'[n][id].seq)
    BY <1>4, <1>8 DEF EngineInv, DiskInv
  <2>3. ~Lost => \A id \in RecordId :
          memtable[id].seq > 0 => Logged(id, memtable[id].seq)
    BY <1>1, <1>8 DEF EngineInv, DiskInv, Present
  <2> QED BY <1>1, <1>5, <2>1, <2>2, <2>3 DEF DiskInv, Present
<1>9. ASSUME ~tainted PROVE MemoryInv'
  BY <1>1, <1>4, <1>5, <1>9 DEF EngineInv, MemoryInv, Present
<1>10. ASSUME ~tainted PROVE SeqInv' /\ OpInv'
  BY <1>1, <1>2, <1>4, <1>5, <1>10 DEF EngineInv, SeqInv, OpInv
<1> QED BY <1>1, <1>6, <1>7, <1>8, <1>9, <1>10 DEF EngineInv

-----------------------------------------------------------------------------
(* A crash: every frame that was synced is still there, and no frame is    *)
(* whole that was not.                                                     *)
LEMMA CrashedLog ==
  ASSUME WalTypeOK, LoseUnsynced
  PROVE  /\ \A i \in Readable' : i \in Readable /\ log'[i].rec = log[i].rec
         /\ \A i \in Readable : i <= synced => i \in Readable' /\ log'[i] = log[i]
         /\ synced' = Len(log') /\ Len(log') \in Nat /\ DOMAIN log' = 1..Len(log')
         /\ \A i \in Buried : i <= synced =>
               i \in Buried' /\ i <= synced' /\ log'[i] = log[i]
         /\ Lost => Lost'
<1>0. /\ log \in Seq(Frame) /\ synced \in 0..Len(log) /\ Len(log) \in Nat
      /\ DOMAIN log = 1..Len(log)
      /\ \A i \in DOMAIN log : log[i].words \in Nat /\ log[i].words <= FrameWords(log[i].rec)
  <2>1. \A i \in DOMAIN log : log[i] \in Frame
    BY DEF WalTypeOK
  <2>2. \A i \in DOMAIN log : log[i].words \in Nat
    BY <2>1 DEF Frame
  <2> QED BY <2>2 DEF WalTypeOK
<1>1. /\ Len(log') \in synced..Len(log) /\ DOMAIN log' = 1..Len(log')
      /\ \A i \in 1..Len(log') :
            /\ log'[i].rec = log[i].rec
            /\ log'[i].words <= log[i].words /\ log'[i].words \in Nat
            /\ i <= synced => log'[i] = log[i]
  <2> DEFINE Remains ==
        /\ Len(log') \in synced..Len(log) /\ DOMAIN log' = 1..Len(log')
        /\ \A i \in 1..Len(log') :
              /\ log'[i].rec = log[i].rec
              /\ log'[i].words <= log[i].words /\ log'[i].words \in Nat
              /\ i <= synced => log'[i] = log[i]
  <2>1. ASSUME NEW n \in synced..Len(log), log' = SubSeq(log, 1, n)
        PROVE  Remains
    BY <1>0, <2>1
  <2>2. ASSUME NEW n \in (synced + 1)..Len(log), NEW w \in 1..log[n].words,
               log' = Append(SubSeq(log, 1, n - 1), [log[n] EXCEPT !.words = w])
        PROVE  Remains
    <3> DEFINE head == SubSeq(log, 1, n - 1)
               cut == [log[n] EXCEPT !.words = w]
    <3>1. /\ head \in Seq(Frame) /\ Len(head) = n - 1 /\ n - 1 \in Nat /\ n \in 1..Len(log)
          /\ \A i \in 1..(n - 1) : head[i] = log[i]
      BY <1>0
    <3>2. cut.rec = log[n].rec /\ cut.words = w /\ w \in Nat /\ w <= log[n].words
      <4>1. log[n] \in Frame
        BY <1>0, <3>1
      <4> QED BY <1>0, <3>1, <4>1 DEF Frame
    <3> HIDE DEF head, cut
    <3>3. log' = Append(head, cut)
      BY <2>2 DEF head, cut
    <3>4. /\ Len(log') = n /\ DOMAIN log' = 1..n /\ log'[n] = cut
          /\ \A i \in 1..(n - 1) : log'[i] = log[i]
      BY <3>1, <3>3
    <3>5. n > synced /\ n \in synced..Len(log)
      BY <1>0
    <3>6. ASSUME NEW i \in 1..n
          PROVE  /\ log'[i].rec = log[i].rec
                 /\ log'[i].words <= log[i].words /\ log'[i].words \in Nat
                 /\ i <= synced => log'[i] = log[i]
      <4>1. CASE i = n
        BY <1>0, <3>2, <3>4, <3>5, <4>1
      <4>2. CASE i # n
        BY <1>0, <3>1, <3>4, <4>2
      <4> QED BY <4>1, <4>2
    <3> QED BY <3>4, <3>5, <3>6
  <2> QED BY <2>1, <2>2 DEF LoseUnsynced
<1>2. \A i \in 1..Len(log') : Whole(log'[i]) => Whole(log[i])
  <2> TAKE i \in 1..Len(log')
  <2>1. i \in DOMAIN log
    BY <1>0, <1>1
  <2>2. FrameWords(log[i].rec) \in Nat
    BY DEF FrameWords
  <2> QED BY <1>0, <1>1, <2>1, <2>2 DEF Whole
<1>3. \A i \in 1..synced : i \in DOMAIN log' /\ (Whole(log'[i]) <=> Whole(log[i]))
  BY <1>0, <1>1 DEF Whole
<1>4. ASSUME NEW i \in Readable' PROVE i \in Readable /\ log'[i].rec = log[i].rec
  <2>1. i \in 1..Len(log') /\ \A j \in 1..i : Whole(log'[j])
    BY <1>1, <1>4 DEF Readable, Whole
  <2>2. \A j \in 1..i : Whole(log[j])
    BY <1>1, <1>2, <2>1
  <2> QED BY <1>0, <1>1, <2>1, <2>2 DEF Readable
<1>5. ASSUME NEW i \in Readable, i <= synced PROVE i \in Readable' /\ log'[i] = log[i]
  <2>1. i \in 1..synced /\ \A j \in 1..i : Whole(log[j])
    BY <1>0, <1>5 DEF Readable
  <2>2. \A j \in 1..i : Whole(log'[j])
    BY <1>0, <1>3, <2>1
  <2> QED BY <1>1, <1>3, <2>1, <2>2 DEF Readable, Whole
<1>6. synced' = Len(log')
  BY DEF LoseUnsynced
<1>7. ASSUME NEW i \in Buried, i <= synced
      PROVE  i \in Buried' /\ i <= synced' /\ log'[i] = log[i]
  <2>1. i \in 1..synced /\ \E j \in 1..(i - 1) : ~Whole(log[j])
    BY <1>0, <1>7 DEF Buried
  <2>2. \E j \in 1..(i - 1) : ~Whole(log'[j])
    BY <1>0, <1>3, <2>1
  <2>3. i \in Buried'
    BY <1>0, <1>1, <2>1, <2>2 DEF Buried, Whole
  <2>4. i \in 1..Len(log')
    BY <1>0, <1>1, <2>1
  <2> QED BY <1>1, <1>6, <1>7, <2>3, <2>4
<1>8. Lost => Lost'
  BY <1>7 DEF Lost
<1> QED BY <1>1, <1>4, <1>5, <1>6, <1>7, <1>8

(* A crash keeps EngineInv: what the log loses was not acknowledged.       *)
LEMMA CrashInv ==
  ASSUME TypeInv, EngineInv, Crash
  PROVE  EngineInv'
<1>0. Numbers /\ Readable \subseteq DOMAIN log
  BY TypeNumbers, ReadableInLog DEF TypeInv
<1>1. /\ files' = files /\ onDisk' = onDisk /\ sstables' = <<>> /\ op' = NoOp
      /\ memtable' = EmptyLayer /\ tainted' = tainted /\ acked' = acked /\ pc # "down" /\ pc' = "down"
      /\ LoseUnsynced
  BY DEF Crash
<1>2. /\ \A i \in Readable' : i \in Readable /\ log'[i].rec = log[i].rec
      /\ \A i \in Readable : i <= synced => i \in Readable' /\ log'[i] = log[i]
      /\ synced' = Len(log') /\ Len(log') \in Nat /\ DOMAIN log' = 1..Len(log')
      /\ Lost => Lost'
  BY <1>1, CrashedLog DEF TypeInv, TypeOK
<1>3. \A id, s : Logged(id, s) => Logged(id, s)'
  <2> TAKE id, s
  <2> SUFFICES ASSUME Logged(id, s) PROVE Logged(id, s)'
    OBVIOUS
  <2>1. PICK i \in Readable : i <= synced /\ log[i].rec.id = id /\ s <= log[i].rec.seq
    BY DEF Logged
  <2>2. i \in Readable' /\ log'[i] = log[i] /\ i <= synced'
    <3>1. i \in Readable' /\ log'[i] = log[i]
      BY <1>2, <2>1
    <3>2. Readable' \subseteq DOMAIN log'
      BY DEF Readable
    <3> QED BY <1>2, <3>1, <3>2
  <2> QED BY <2>1, <2>2 DEF Logged
<1>4. StepInv' /\ NameInv'
  BY <1>1, <1>2 DEF StepInv, NameInv, ReadersOnDisk
<1>5. ASSUME ~tainted PROVE DiskInv'
  <2>1. \A m, n \in onDisk : \A id \in RecordId :
          m < n /\ Present(files[n], id) => files[m][id].seq <= files[n][id].seq
    BY <1>5 DEF EngineInv, DiskInv
  <2>2. ASSUME ~Lost', NEW i \in Readable', NEW n \in onDisk, NEW id \in RecordId,
               log'[i].rec.id = id
        PROVE  files[n][id].seq <= log'[i].rec.seq \/ Logged(id, files[n][id].seq)'
    <3>1. files[n][id].seq <= log[i].rec.seq \/ Logged(id, files[n][id].seq)
      BY <1>2, <1>5, <2>2 DEF EngineInv, DiskInv
    <3>2. Logged(id, files[n][id].seq) => Logged(id, files[n][id].seq)'
      BY <1>1, <1>3
    <3> QED BY <1>2, <2>2, <3>1, <3>2
  <2>3. ASSUME ~Lost', NEW id \in RecordId
        PROVE  \/ Logged(id, acked[id].seq)'
               \/ \E n \in onDisk : acked[id].seq <= files[n][id].seq
               \/ acked[id].seq = 0
    <3>1. Covered(id, acked[id].seq)
      BY <1>1, <1>5 DEF EngineInv, MemoryInv
    <3>2. CASE acked[id].seq <= memtable[id].seq
      <4>1. acked[id].seq \in Nat /\ memtable[id].seq \in Nat
        BY <1>0 DEF Numbers
      <4>2. CASE Present(memtable, id)
        <5>1. Logged(id, memtable[id].seq)
          BY <1>1, <1>2, <1>5, <2>3, <4>2 DEF EngineInv, DiskInv
        <5>2. \A i \in Readable : log[i].rec.seq \in Nat
          BY <1>0 DEF Numbers
        <5>3. Logged(id, acked[id].seq)
          BY <3>2, <4>1, <5>1, <5>2 DEF Logged
        <5>4. Logged(id, acked[id].seq)'
          BY <1>1, <1>3, <5>3
        <5> QED BY <5>4
      <4>3. CASE ~Present(memtable, id)
        BY <3>2, <4>1, <4>3 DEF Present
      <4> QED BY <4>2, <4>3
    <3>3. ASSUME NEW i \in DOMAIN sstables, acked[id].seq <= sstables[i].recs[id].seq
          PROVE  \E n \in onDisk : acked[id].seq <= files[n][id].seq
      BY <3>3 DEF EngineInv, NameInv, ReadersOnDisk
    <3> QED BY <3>1, <3>2, <3>3 DEF Covered
  <2> QED BY <1>1, <2>1, <2>2, <2>3 DEF DiskInv, Present
<1> QED BY <1>1, <1>4, <1>5 DEF EngineInv

-----------------------------------------------------------------------------
(* What replay makes of an id is one of the records it read, and the       *)
(* newest of them.                                                         *)
LEMMA ReplayedIs ==
  ASSUME TypeOK, NEW id \in RecordId
  PROVE  /\ Replayed[id].seq \in Nat
         /\ \A i \in Readable : log[i].rec.id = id => log[i].rec.seq <= Replayed[id].seq
         /\ \/ Replayed[id].seq = 0
            \/ \E i \in Readable : /\ log[i].rec.id = id
                                   /\ Replayed[id] = SlotOf(log[i].rec)
                                   /\ Replayed[id].seq = log[i].rec.seq
<1> DEFINE recs == [i \in Readable |-> log[i].rec]
           slot == InsertAll(EmptyLayer, recs)[id]
<1>1. /\ Readable \subseteq 1..Len(log) /\ Len(log) \in Nat
      /\ recs \in [Readable -> Record]
  BY ReplayedType DEF TypeOK
<1>2. EmptyLayer[id].seq = 0 /\ EmptyLayer \in Layer
  BY EmptyLayerType DEF EmptyLayer, Absent
<1>3. /\ slot \in Slot
      /\ \A i \in Writes(recs, id) : recs[i].seq <= slot.seq
      /\ slot = EmptyLayer[id] \/ \E i \in Writes(recs, id) : slot = SlotOf(recs[i])
  <2> HIDE DEF recs
  <2> QED BY <1>1, <1>2, InsertAllSlot
<1>4. Replayed[id] = slot
  BY DEF Replayed
<1>5. \A i : i \in Writes(recs, id) <=> i \in Readable /\ log[i].rec.id = id
  BY DEF Writes
<1>6. \A i \in Readable : recs[i] = log[i].rec
  OBVIOUS
<1> HIDE DEF slot, recs
<1> QED BY <1>2, <1>3, <1>4, <1>5, <1>6 DEF Slot, SeqNo, SlotOf

(* Replay brings back nothing older than what the files hold.              *)
LEMMA ReplayNotOlder ==
  ASSUME TypeInv, EngineInv, ~tainted, ~Lost,
         NEW n \in onDisk, NEW id \in RecordId, Present(Replayed, id)
  PROVE  files[n][id].seq <= Replayed[id].seq
<1>0. Numbers
  BY TypeNumbers DEF TypeInv
<1>1. PICK i \in Readable : log[i].rec.id = id /\ Replayed[id].seq = log[i].rec.seq
  BY ReplayedIs DEF TypeInv, Present
<1>2. CASE files[n][id].seq <= log[i].rec.seq
  BY <1>1, <1>2
<1>3. CASE Logged(id, files[n][id].seq)
  <2>1. PICK k \in Readable : log[k].rec.id = id /\ files[n][id].seq <= log[k].rec.seq
    BY <1>3 DEF Logged
  <2>2. log[k].rec.seq <= Replayed[id].seq /\ Replayed[id].seq \in Nat
    BY <2>1, ReplayedIs DEF TypeInv
  <2>3. log[k].rec.seq \in Nat /\ files[n][id].seq \in Nat
    BY <1>0, ReadableInLog DEF Numbers
  <2> QED BY <2>1, <2>2, <2>3
<1> QED BY <1>1, <1>2, <1>3 DEF EngineInv, DiskInv

(* Below the padding limit the order of the names is that of the numbers.  *)
LEMMA NamesInOrder ==
  ASSUME MaxSst < NameLimit, NEW m \in SstId, NEW n \in SstId, NameLess(m, n)
  PROVE  m < n
<1>1. m < NameLimit /\ n < NameLimit
  BY EngineAssumption DEF SstId
<1> QED BY <1>1 DEF NameLess, LeadingDigits

(* open() loads every file, each as one table, in the order of the names.  *)
LEMMA LoadedTables ==
  ASSUME MaxSst < NameLimit, TypeInv, Open
  PROVE  \E o \in [1..Cardinality(onDisk) -> onDisk] :
            /\ Cardinality(onDisk) \in Nat
            /\ DOMAIN sstables' = DOMAIN o /\ DOMAIN o = 1..Cardinality(onDisk)
            /\ \A i \in DOMAIN o : /\ sstables'[i].name = o[i]
                                  /\ sstables'[i].recs = files[o[i]]
                                  /\ o[i] \in onDisk /\ o[i] \in SstId
            /\ \A n \in onDisk : \E i \in DOMAIN o : o[i] = n
            /\ \A i, j \in DOMAIN o : i < j => o[i] < o[j]
<1>0. Numbers
  BY TypeNumbers DEF TypeInv
<1>1. PICK o \in [1..Cardinality(onDisk) -> onDisk] :
         /\ LoadOrder(o)
         /\ sstables' = [i \in DOMAIN o |-> [name |-> o[i], recs |-> files[o[i]]]]
  BY DEF Open
<1>2. Cardinality(onDisk) \in Nat
  <2>1. IsFiniteSet(SstId)
    BY EngineAssumption, FS_Interval DEF SstId
  <2> QED BY <1>0, <2>1, FS_Subset, FS_CardinalityType DEF Numbers
<1>3. /\ DOMAIN sstables' = DOMAIN o /\ DOMAIN o = 1..Cardinality(onDisk)
      /\ \A i \in DOMAIN o : /\ sstables'[i].name = o[i] /\ sstables'[i].recs = files[o[i]]
                            /\ o[i] \in onDisk /\ o[i] \in SstId
      /\ \A n \in onDisk : \E i \in DOMAIN o : o[i] = n
  BY <1>0, <1>1 DEF LoadOrder, Numbers
<1>4. \A i, j \in DOMAIN o : i < j => o[i] < o[j]
  <2> SUFFICES ASSUME NEW i \in DOMAIN o, NEW j \in DOMAIN o, i < j PROVE o[i] < o[j]
    OBVIOUS
  <2>1. NameLess(o[i], o[j])
    BY <1>1 DEF LoadOrder
  <2> QED BY <1>3, <2>1, NamesInOrder
<1> QED BY <1>2, <1>3, <1>4

(* Recovery re-establishes EngineInv for what the disk holds.              *)
LEMMA OpenInv ==
  ASSUME MaxSst < NameLimit, TypeInv, EngineInv, Open
  PROVE  EngineInv'
<1>0. Numbers /\ Readable \subseteq DOMAIN log
  BY TypeNumbers, ReadableInLog DEF TypeInv
<1>1. /\ log' = log /\ synced' = synced /\ files' = files /\ onDisk' = onDisk /\ op' = op
      /\ pc = "down" /\ pc' = "idle" /\ nextSst' = FreshName /\ memtable' = Replayed
      /\ seq' = Newest(SeqsOnDisk \cup {0}) /\ acked' = Recovered
      /\ tainted' = (tainted \/ Buried # {})
  BY DEF Open, diskVars, walVars
<1>2. /\ Readable' = Readable /\ Buried' = Buried /\ (Lost' <=> Lost)
      /\ \A id, s : Logged(id, s)' <=> Logged(id, s)
  BY <1>1, SameLog
<1>3. ~tainted' => ~tainted /\ ~Lost
  BY <1>1 DEF Lost
<1>4. op = NoOp /\ synced = Len(log) /\ DOMAIN op'.recs = {}
  <2>1. op = NoOp /\ synced = Len(log)
    BY <1>1 DEF EngineInv, StepInv
  <2> QED BY <1>1, <2>1 DEF NoOp
<1>5. PICK o \in [1..Cardinality(onDisk) -> onDisk] :
         /\ Cardinality(onDisk) \in Nat
         /\ DOMAIN sstables' = DOMAIN o /\ DOMAIN o = 1..Cardinality(onDisk)
         /\ \A i \in DOMAIN o : /\ sstables'[i].name = o[i]
                               /\ sstables'[i].recs = files[o[i]]
                               /\ o[i] \in onDisk /\ o[i] \in SstId
         /\ \A n \in onDisk : \E i \in DOMAIN o : o[i] = n
         /\ \A i, j \in DOMAIN o : i < j => o[i] < o[j]
  BY LoadedTables
<1>6. Cardinality(onDisk) \in Nat
  BY <1>5
<1>7. /\ DOMAIN sstables' = DOMAIN o /\ DOMAIN o = 1..Cardinality(onDisk)
      /\ \A i \in DOMAIN o : /\ sstables'[i].name = o[i] /\ sstables'[i].recs = files[o[i]]
                            /\ o[i] \in onDisk /\ o[i] \in SstId
      /\ \A n \in onDisk : \E i \in DOMAIN o : o[i] = n
  BY <1>5
<1>8. \A i, j \in DOMAIN o : i < j => o[i] < o[j]
  BY <1>5
<1>9. StepInv'
  BY <1>1 DEF StepInv
<1>10. NameInv'
  <2>1. FreshName \in Nat /\ \A n \in onDisk : n < FreshName
    BY FreshNameType DEF TypeInv
  <2>2. \A n \in onDisk : n <= FreshName
    <3>1. \A n \in onDisk : n \in Nat
      BY <1>0 DEF Numbers, SstId
    <3> QED BY <2>1, <3>1
  <2> QED BY <1>1, <1>7, <2>1, <2>2 DEF NameInv, ReadersOnDisk
<1>11. ASSUME NEW id \in RecordId, Replayed[id].seq > 0
       PROVE  Logged(id, Replayed[id].seq)
  <2>1. PICK i \in Readable : log[i].rec.id = id /\ Replayed[id].seq = log[i].rec.seq
    BY <1>11, ReplayedIs DEF TypeInv
  <2>2. i <= synced /\ Replayed[id].seq <= log[i].rec.seq
    BY <1>0, <1>4, <2>1 DEF Numbers
  <2> QED BY <2>1, <2>2 DEF Logged
<1>12. ASSUME ~tainted, ~Lost PROVE DiskInv'
  <2>1. \A m, n \in onDisk : \A id \in RecordId :
          m < n /\ Present(files[n], id) => files[m][id].seq <= files[n][id].seq
    BY <1>12 DEF EngineInv, DiskInv
  <2>2. \A i \in Readable : \A n \in onDisk : \A id \in RecordId :
          log[i].rec.id = id =>
              files[n][id].seq <= log[i].rec.seq \/ Logged(id, files[n][id].seq)
    BY <1>12 DEF EngineInv, DiskInv
  <2>3. \A id \in RecordId : Present(memtable', id) => Logged(id, memtable'[id].seq)
    BY <1>1, <1>11 DEF Present
  <2> QED BY <1>1, <1>2, <2>1, <2>2, <2>3 DEF DiskInv, Present
<1>13. ASSUME ~tainted, ~Lost PROVE MemoryInv'
  <2>1. ASSUME NEW i \in DOMAIN o, NEW j \in DOMAIN o, NEW id \in RecordId,
               i < j, files[o[j]][id].seq > 0
        PROVE  files[o[i]][id].seq <= files[o[j]][id].seq
    BY <1>7, <1>8, <1>13, <2>1 DEF EngineInv, DiskInv, Present
  <2>2. ASSUME NEW n \in onDisk, NEW id \in RecordId, Replayed[id].seq > 0
        PROVE  files[n][id].seq <= Replayed[id].seq
    BY <1>13, <2>2, ReplayNotOlder DEF Present
  <2>3. ASSUME NEW n \in onDisk, NEW id \in RecordId
        PROVE  Covered(id, files[n][id].seq)'
    <3>1. PICK i \in DOMAIN o : o[i] = n
      BY <1>7
    <3>2. files'[n][id].seq <= sstables'[i].recs[id].seq
      BY <1>0, <1>1, <1>7, <3>1 DEF Numbers
    <3> QED BY <1>1, <1>7, <3>2 DEF Covered
  <2>4. ASSUME NEW id \in RecordId PROVE Covered(id, acked[id].seq)'
    <3>1. Replayed[id].seq \in Nat
      BY ReplayedIs DEF TypeInv
    <3>2. CASE Present(Replayed, id)
      <4>1. Recovered[id] = Replayed[id]
        BY <3>2 DEF Recovered
      <4> QED BY <1>1, <3>1, <4>1 DEF Covered
    <3>3. CASE ~Present(Replayed, id)
      <4>1. Recovered[id] = FileSlot(id)
        BY <3>3 DEF Recovered
      <4>2. CASE FileSlot(id) = Absent
        BY <1>1, <3>1, <4>1, <4>2 DEF Covered, Absent
      <4>3. ASSUME NEW n \in onDisk, FileSlot(id) = files[n][id]
            PROVE  Covered(id, acked[id].seq)'
        <5>1. acked'[id].seq = files'[n][id].seq
          BY <1>1, <4>1, <4>3
        <5> QED BY <2>3, <5>1 DEF Covered
      <4> QED BY <4>2, <4>3, FileSlotIs DEF TypeInv
    <3> QED BY <3>2, <3>3
  <2> QED BY <1>1, <1>7, <2>1, <2>2, <2>3, <2>4 DEF MemoryInv, Present
<1>14. SeqInv'
  <2> DEFINE top == Newest(SeqsOnDisk \cup {0})
  <2>1. top \in Nat /\ \A s \in SeqsOnDisk : s <= top
    <3>1. top \in SeqNo /\ \A s \in SeqsOnDisk : s <= top
      BY SeqsOnDiskType DEF TypeInv
    <3> HIDE DEF top
    <3> QED BY <3>1 DEF SeqNo
  <2>2. /\ \A i \in Readable : log[i].rec.seq <= top
        /\ \A n \in onDisk : \A id \in RecordId : files[n][id].seq <= top
    BY <2>1 DEF SeqsOnDisk
  <2>3. seq' = top
    BY <1>1
  <2> HIDE DEF top
  <2>4. \A id \in RecordId : Replayed[id].seq <= top
    BY <2>1, <2>2, ReplayedIs DEF TypeInv
  <2>5. \A i \in DOMAIN sstables' : \A id \in RecordId : sstables'[i].recs[id].seq <= top
    BY <1>7, <2>2
  <2> QED BY <1>1, <1>2, <1>4, <2>2, <2>3, <2>4, <2>5 DEF SeqInv
<1>15. OpInv'
  BY <1>1, <1>4 DEF OpInv
<1> QED BY <1>3, <1>9, <1>10, <1>12, <1>13, <1>14, <1>15 DEF EngineInv

-----------------------------------------------------------------------------
(* The invariant holds at first and every step keeps it.                   *)
LEMMA InvInit == Init => EngineInv
<1> SUFFICES ASSUME Init PROVE EngineInv
  OBVIOUS
<1>1. /\ log = <<>> /\ synced = 0 /\ files = [n \in SstId |-> EmptyLayer] /\ onDisk = {}
      /\ pc = "down" /\ op = NoOp /\ memtable = EmptyLayer /\ sstables = <<>>
      /\ acked = EmptyLayer
  BY DEF Init, WalInit
<1>2. StepInv /\ NameInv
  BY <1>1 DEF StepInv, NameInv, ReadersOnDisk
<1>3. Readable = {}
  BY <1>1 DEF Readable
<1>4. \A id \in RecordId : acked[id].seq = 0
  BY <1>1 DEF EmptyLayer, Absent
<1>5. DiskInv
  BY <1>1, <1>3, <1>4 DEF DiskInv
<1> QED BY <1>1, <1>2, <1>5 DEF EngineInv

(* Starting a write keeps EngineInv: its numbers are fresh.                *)
LEMMA WriteInv ==
  ASSUME TypeInv, EngineInv, Write
  PROVE  EngineInv'
<1>1. PICK recs \in Seq(Record) :
         /\ BeginWrite(recs)
         /\ \A k \in DOMAIN recs : recs[k].seq \in (seq + 1)..(seq + Len(recs))
  BY WriteBegins DEF TypeInv
<1> QED BY <1>1, BeginWriteInv

(* No step leaves EngineInv.                                               *)
LEMMA InvStep ==
  ASSUME MaxSst < NameLimit, TypeInv, EngineInv, [Next]_vars
  PROVE  EngineInv'
<1>1. CASE UNCHANGED vars \/ Read \/ OpenFails
  BY <1>1, StutterInv DEF Read, OpenFails
<1>2. CASE Write
  BY <1>2, WriteInv
<1>3. CASE WriteStep
  <2>1. CASE SyncFails
    BY <2>1, ReturnInv DEF SyncFails, ReturnOk, ReturnErr
  <2> QED BY <1>3, <2>1, AppendFrameInv, AppendFailsInv, SyncInv, ApplyInv DEF WriteStep
<1>4. CASE Flush \/ Compact
  BY <1>4, BeginInv DEF Flush, Compact
<1>5. CASE FlushStep
  <2>1. CASE FlushWriteFails \/ InstallFails \/ WalClearFails
    BY <2>1, ReturnInv DEF FlushWriteFails, InstallFails, WalClearFails
  <2> QED BY <1>5, <2>1, FlushNothingInv, FlushWriteInv, InstallInv, WalClearInv DEF FlushStep
<1>6. CASE CompactStep
  <2>1. CASE NothingToMerge \/ MergeFails \/ SwapFails \/ CompactDone
    BY <2>1, ReturnInv DEF NothingToMerge, MergeFails, SwapFails, CompactDone
  <2> QED BY <1>6, <2>1, MergeTablesInv, SwapInv, RemoveInv DEF CompactStep
<1>7. CASE Crash \/ Open
  BY <1>7, CrashInv, OpenInv
<1> QED BY <1>1, <1>2, <1>3, <1>4, <1>5, <1>6, <1>7 DEF Next, Restart

(* The inductive invariant, when the table numbers in use fit the padding  *)
(* of the file names.                                                      *)
THEOREM EngineInvariant ==
  ASSUME MaxSst < NameLimit
  PROVE  Spec => [](TypeInv /\ EngineInv)
<1>1. Init => TypeInv /\ EngineInv
  BY TypeInit, InvInit
<1>2. TypeInv /\ EngineInv /\ [Next]_vars => TypeInv' /\ EngineInv'
  BY TypeStep, InvStep
<1> QED BY <1>1, <1>2, PTL DEF Spec

-----------------------------------------------------------------------------
(* What the invariant says of what the next open() would bring back.       *)

(* Nor does recovery, replay and files together.                           *)
LEMMA RecoveredNotOlder ==
  ASSUME MaxSst < NameLimit, TypeInv, EngineInv, ~tainted, ~Lost, NEW id \in RecordId
  PROVE  /\ \A n \in onDisk : files[n][id].seq <= Recovered[id].seq
         /\ \A s \in Nat : Logged(id, s) => s <= Recovered[id].seq
         /\ Recovered[id].seq \in Nat
<1>0. Numbers
  BY TypeNumbers DEF TypeInv
<1>1. Recovered[id] = IF Present(Replayed, id) THEN Replayed[id] ELSE FileSlot(id)
  BY DEF Recovered
<1>2. Replayed[id].seq \in Nat
  BY ReplayedIs DEF TypeInv
<1>3. /\ FileSlot(id).seq \in Nat
      /\ \A n \in onDisk : files[n][id].seq <= FileSlot(id).seq
  <2>1. FileSlot(id) \in Slot
    BY FileSlotIs DEF TypeInv
  <2>2. FileSlot(id).seq \in Nat
    BY <2>1 DEF Slot, SeqNo
  <2>3. CASE \A n \in onDisk : ~Present(files[n], id)
    BY <1>0, <2>2, <2>3 DEF Present, Numbers
  <2>4. ASSUME NEW n \in onDisk, Present(files[n], id), FileSlot(id) = files[n][id],
               \A m \in onDisk : Present(files[m], id) => m = n \/ NameLess(m, n),
               NEW m \in onDisk
        PROVE  files[m][id].seq <= FileSlot(id).seq
    <3>1. m \in SstId /\ n \in SstId
      BY <1>0 DEF Numbers
    <3>2. files[m][id].seq \in Nat /\ files[n][id].seq \in Nat
      BY <1>0, <3>1 DEF Numbers
    <3>3. CASE ~Present(files[m], id) \/ m = n
      BY <2>4, <3>2, <3>3 DEF Present
    <3>4. CASE NameLess(m, n)
      <4>1. m < n
        BY <3>1, <3>4, NamesInOrder
      <4> QED BY <2>4, <4>1 DEF EngineInv, DiskInv
    <3> QED BY <2>4, <3>3, <3>4
  <2> QED BY <2>2, <2>3, <2>4, FileSlotIs DEF TypeInv
<1>4. ASSUME NEW n \in onDisk PROVE files[n][id].seq <= Recovered[id].seq
  BY <1>1, <1>3, ReplayNotOlder
<1>5. ASSUME NEW s \in Nat, Logged(id, s) PROVE s <= Recovered[id].seq
  <2>1. PICK i \in Readable : log[i].rec.id = id /\ s <= log[i].rec.seq
    BY <1>5 DEF Logged
  <2>2. log[i].rec.seq <= Replayed[id].seq /\ log[i].rec.seq \in Nat
    BY <1>0, <2>1, ReplayedIs, ReadableInLog DEF TypeInv, Numbers
  <2>3. CASE Present(Replayed, id)
    BY <1>1, <1>2, <2>1, <2>2, <2>3
  <2>4. CASE ~Present(Replayed, id)
    <3>1. s = 0
      BY <1>2, <2>1, <2>2, <2>4 DEF Present
    <3> QED BY <1>1, <1>3, <2>4, <3>1
  <2> QED BY <2>3, <2>4
<1> QED BY <1>1, <1>2, <1>3, <1>4, <1>5

-----------------------------------------------------------------------------
(* Safety, for every value of the constants. *)

(* A later level of the running engine never holds an older write of an    *)
(* id: deciding by position, as reads and compaction do, is deciding by    *)
(* age.                                                                    *)
THEOREM LevelsStayInSeqOrder ==
  ASSUME MaxSst < NameLimit
  PROVE  Spec => []LevelsInSeqOrder
<1>1. TypeInv /\ EngineInv => LevelsInSeqOrder
  <2> SUFFICES ASSUME TypeInv, EngineInv, ~tainted,
                      NEW i \in DOMAIN Levels, NEW j \in DOMAIN Levels,
                      NEW id \in RecordId, i < j, Present(Levels[j], id)
               PROVE  Levels[i][id].seq <= Levels[j][id].seq
    BY DEF LevelsInSeqOrder
  <2>0. Numbers
    BY TypeNumbers DEF TypeInv
  <2>1. /\ DOMAIN Levels = 1..(Len(sstables) + 1)
        /\ \A k \in DOMAIN sstables : Levels[k] = sstables[k].recs
        /\ Levels[Len(sstables) + 1] = memtable
    BY <2>0 DEF Levels, Numbers
  <2>2. i \in DOMAIN sstables
    BY <2>0, <2>1 DEF Numbers
  <2>3. pc # "down"
    BY <2>2 DEF EngineInv, StepInv
  <2>4. CASE j \in DOMAIN sstables
    BY <2>1, <2>2, <2>3, <2>4 DEF EngineInv, MemoryInv
  <2>5. CASE j = Len(sstables) + 1
    BY <2>1, <2>2, <2>3, <2>5 DEF EngineInv, MemoryInv
  <2> QED BY <2>0, <2>1, <2>4, <2>5 DEF Numbers
<1> QED BY <1>1, EngineInvariant, PTL

(* Neither does a later file, nor the log: what open() stacks by name and  *)
(* replays on top is in the order it was written.                          *)
THEOREM DiskStaysInSeqOrder ==
  ASSUME MaxSst < NameLimit
  PROVE  Spec => []DiskInSeqOrder
<1>1. TypeInv /\ EngineInv => DiskInSeqOrder
  <2> SUFFICES ASSUME TypeInv, EngineInv, ~tainted, ~Lost
               PROVE  /\ \A m, n \in onDisk : \A id \in RecordId :
                            m < n /\ Present(files[n], id) =>
                                files[m][id].seq <= files[n][id].seq
                      /\ \A n \in onDisk : \A id \in RecordId :
                            Present(Replayed, id) => files[n][id].seq <= Replayed[id].seq
    BY DEF DiskInSeqOrder
  <2>1. \A m, n \in onDisk : \A id \in RecordId :
          m < n /\ Present(files[n], id) => files[m][id].seq <= files[n][id].seq
    BY DEF EngineInv, DiskInv
  <2> QED BY <2>1, ReplayNotOlder
<1> QED BY <1>1, EngineInvariant, PTL

(* Whatever the memtable shows is in the synced part of the log, from the  *)
(* sync of its write to the clearing of the log by a flush.                *)
THEOREM MemtableStaysLogged ==
  ASSUME MaxSst < NameLimit
  PROVE  Spec => []MemtableLogged
<1>1. TypeInv /\ EngineInv => MemtableLogged
  <2> SUFFICES ASSUME TypeInv, EngineInv, ~tainted, ~Lost,
                      NEW id \in RecordId, Present(memtable, id)
               PROVE  \E i \in Readable : /\ i <= synced /\ log[i].rec.id = id
                                           /\ log[i].rec.seq >= memtable[id].seq
    BY DEF MemtableLogged
  <2>0. Numbers
    BY TypeNumbers DEF TypeInv
  <2>1. pc # "down"
    BY DEF EngineInv, StepInv, EmptyLayer, Absent, Present
  <2>2. Logged(id, memtable[id].seq)
    BY <2>1 DEF EngineInv, DiskInv
  <2> QED BY <2>0, <2>2, ReadableInLog DEF Logged, Numbers
<1> QED BY <1>1, EngineInvariant, PTL

(* No open table's file is removed or overwritten.                         *)
THEOREM ReadersStayOnDisk ==
  ASSUME MaxSst < NameLimit
  PROVE  Spec => []ReadersOnDisk
<1>1. EngineInv => ReadersOnDisk
  BY DEF EngineInv, NameInv
<1> QED BY <1>1, EngineInvariant, PTL

(* The engine's counter never falls behind a sequence number it stored.    *)
THEOREM SeqStaysFresh ==
  ASSUME MaxSst < NameLimit
  PROVE  Spec => []SeqIsFresh
<1>1. TypeInv /\ EngineInv => SeqIsFresh
  <2> SUFFICES ASSUME TypeInv, EngineInv, ~tainted, pc # "down",
                      NEW s \in SeqsOnDisk \cup {Levels[i][id].seq :
                                       i \in DOMAIN Levels, id \in RecordId}
               PROVE  s <= seq
    BY DEF SeqIsFresh
  <2>0. Numbers
    BY TypeNumbers DEF TypeInv
  <2>1. SeqInv
    BY DEF EngineInv
  <2>2. CASE s \in SeqsOnDisk
    BY <2>1, <2>2 DEF SeqInv, SeqsOnDisk
  <2>3. ASSUME NEW i \in DOMAIN Levels, NEW id \in RecordId, s = Levels[i][id].seq
        PROVE  s <= seq
    <3>1. \/ i \in DOMAIN sstables /\ Levels[i] = sstables[i].recs
          \/ Levels[i] = memtable
      BY <2>0 DEF Levels, Numbers
    <3> QED BY <2>1, <2>3, <3>1 DEF SeqInv
  <2> QED BY <2>2, <2>3
<1> QED BY <1>1, EngineInvariant, PTL

(* A crash and a reopening bring back nothing older than the last          *)
(* acknowledged write of each id.                                          *)
THEOREM AckedStaysNotOlder ==
  ASSUME MaxSst < NameLimit
  PROVE  Spec => []AckedNotOlder
<1>1. TypeInv /\ EngineInv => AckedNotOlder
  <2> SUFFICES ASSUME TypeInv, EngineInv, ~tainted, ~Lost, NEW id \in RecordId
               PROVE  acked[id].seq <= Recovered[id].seq
    BY DEF AckedNotOlder
  <2>0. Numbers
    BY TypeNumbers DEF TypeInv
  <2>1. /\ \A n \in onDisk : files[n][id].seq <= Recovered[id].seq
        /\ \A s \in Nat : Logged(id, s) => s <= Recovered[id].seq
        /\ Recovered[id].seq \in Nat
    BY RecoveredNotOlder
  <2>2. /\ acked[id].seq \in Nat /\ memtable[id].seq \in Nat
        /\ \A n \in onDisk : files[n][id].seq \in Nat
    BY <2>0 DEF Numbers
  <2>3. CASE pc = "down"
    BY <2>1, <2>2, <2>3 DEF EngineInv, DiskInv
  <2>4. CASE pc # "down"
    <3>1. Covered(id, acked[id].seq)
      BY <2>4 DEF EngineInv, MemoryInv
    <3>2. memtable[id].seq <= Recovered[id].seq
      BY <2>1, <2>2, <2>4 DEF EngineInv, DiskInv, Present
    <3>3. ASSUME NEW i \in DOMAIN sstables, acked[id].seq <= sstables[i].recs[id].seq
          PROVE  acked[id].seq <= Recovered[id].seq
      <4>1. PICK n \in onDisk : files[n] = sstables[i].recs
        BY DEF EngineInv, NameInv, ReadersOnDisk
      <4> QED BY <2>1, <2>2, <3>3, <4>1
    <3> QED BY <2>1, <2>2, <3>1, <3>2, <3>3 DEF Covered
  <2> QED BY <2>3, <2>4
<1> QED BY <1>1, EngineInvariant, PTL

-----------------------------------------------------------------------------
(* What a scan sees, level by level. *)

(* The tables of a reader sequence, stacked.                               *)
TablesOf(readers) == [i \in DOMAIN readers |-> readers[i].recs]

(* The tables of a sequence of readers are a sequence of layers.           *)
LEMMA TablesStack ==
  ASSUME NEW readers \in Seq(Reader)
  PROVE  /\ Len(readers) \in Nat
         /\ TablesOf(readers) \in [1..Len(readers) -> Layer]
         /\ DOMAIN readers = 1..Len(readers)
<1>1. \A i \in DOMAIN readers : readers[i] \in Reader
  OBVIOUS
<1> QED BY <1>1 DEF TablesOf, Reader

(* A scan takes an id from the memtable if that holds it, and from the     *)
(* merged tables otherwise.                                                *)
LEMMA ViewIs ==
  ASSUME NEW readers \in Seq(Reader), NEW mem \in Layer, NEW id \in RecordId
  PROVE  Merge([i \in 1..(Len(readers) + 1) |->
                  IF i <= Len(readers) THEN readers[i].recs ELSE mem])[id]
            = IF Present(mem, id) THEN mem[id] ELSE Merge(TablesOf(readers))[id]
<1> DEFINE n == Len(readers)
           tables == TablesOf(readers)
<1>1. n \in Nat /\ tables \in [1..n -> Layer] /\ DOMAIN readers = 1..n
  BY TablesStack
<1>2. \A i \in 1..n : tables[i] = readers[i].recs
  BY <1>1 DEF TablesOf
<1>3. [i \in 1..(n + 1) |-> IF i <= n THEN readers[i].recs ELSE mem]
        = [i \in 1..(n + 1) |-> IF i <= n THEN tables[i] ELSE mem]
  BY <1>1, <1>2
<1>4. Merge([i \in 1..(n + 1) |-> IF i <= n THEN tables[i] ELSE mem])[id]
        = IF Present(mem, id) THEN mem[id] ELSE Merge(tables)[id]
  <2> HIDE DEF n, tables
  <2> QED BY <1>1, MergeOnTop
<1> QED BY <1>3, <1>4

(* get and scan_live, which walk the levels in opposite directions, agree  *)
(* on every id in every state.                                             *)
THEOREM GetAlwaysMatchesScan == Spec => []GetMatchesScan
<1>1. TypeOK => GetMatchesScan
  <2> SUFFICES ASSUME TypeOK, NEW id \in RecordId PROVE Get(id) = View[id]
    BY DEF GetMatchesScan
  <2> DEFINE H == {i \in DOMAIN sstables : Present(sstables[i].recs, id)}
             tables == TablesOf(sstables)
  <2>1. sstables \in Seq(Reader) /\ memtable \in Layer
    BY DEF TypeOK
  <2>2. View[id] = IF Present(memtable, id) THEN memtable[id] ELSE Merge(tables)[id]
    BY <2>1, ViewIs DEF View, Levels
  <2>3. Holders(tables, id) = H
    BY DEF Holders, TablesOf
  <2>4. Merge(tables)[id] = IF H = {} THEN Absent ELSE tables[Newest(H)][id]
    BY <2>3 DEF Merge
  <2>5. H # {} => tables[Newest(H)] = sstables[Newest(H)].recs
    <3>1. Len(sstables) \in Nat /\ DOMAIN sstables = 1..Len(sstables)
      BY <2>1
    <3>2. H \subseteq 0..Len(sstables)
      BY <3>1
    <3>3. H # {} => Newest(H) \in H
      BY <3>1, <3>2, NewestOfBounded
    <3> QED BY <3>3 DEF TablesOf
  <2> HIDE DEF tables
  <2> QED BY <2>2, <2>4, <2>5 DEF Get
<1> QED BY <1>1, EngineTypeCorrect, PTL

(* Flush and compaction change where the records are and never what a      *)
(* reader sees of them.                                                    *)
LEMMA MaintenanceView ==
  ASSUME TypeInv, TypeInv', EngineInv, [Next]_vars, Maintaining, pc' # "down",
         NEW id \in RecordId
  PROVE  View'[id] = View[id]
<1>1. /\ sstables \in Seq(Reader) /\ memtable \in Layer
      /\ sstables' \in Seq(Reader) /\ memtable' \in Layer
  BY DEF TypeInv, TypeOK
<1>2. View[id] = IF Present(memtable, id)
                 THEN memtable[id] ELSE Merge(TablesOf(sstables))[id]
  BY <1>1, ViewIs DEF View, Levels
<1>3. View'[id] = IF Present(memtable', id)
                  THEN memtable'[id] ELSE Merge(TablesOf(sstables'))[id]
  BY <1>1, ViewIs DEF View, Levels
<1>4. Compacted = Merge(TablesOf(sstables))
  BY DEF Compacted, TablesOf
<1>5. CASE sstables' = sstables /\ memtable' = memtable
  BY <1>2, <1>3, <1>5
<1>6. CASE Install
  <2>1. /\ sstables' = Append(sstables, [name |-> nextSst, recs |-> memtable])
        /\ memtable' = EmptyLayer
    BY <1>6 DEF Install, EngineInv, StepInv
  <2>2. TablesOf(sstables') = Levels
    <3> DEFINE n == Len(sstables)
    <3>1. n \in Nat /\ DOMAIN sstables = 1..n
      BY <1>1
    <3>2. /\ DOMAIN sstables' = 1..(n + 1)
          /\ \A i \in 1..(n + 1) :
                sstables'[i].recs = IF i <= n THEN sstables[i].recs ELSE memtable
      BY <1>1, <2>1, <3>1
    <3> QED BY <3>2 DEF Levels, TablesOf
  <2>3. ~Present(memtable', id)
    BY <2>1 DEF Present, EmptyLayer, Absent
  <2> QED BY <1>3, <2>2, <2>3 DEF View
<1>7. CASE Swap
  <2>1. /\ sstables' = <<[name |-> nextSst - 1, recs |-> Compacted]>>
        /\ memtable' = memtable /\ ~Present(memtable, id)
    BY <1>7 DEF Swap, EngineInv, StepInv
  <2>2. TablesOf(sstables') = <<Compacted>>
    BY <2>1 DEF TablesOf
  <2>3. Merge(<<Merge(TablesOf(sstables))>>)[id] = Merge(TablesOf(sstables))[id]
    BY <1>1, TablesStack, MergeTwice
  <2> QED BY <1>2, <1>3, <1>4, <2>1, <2>2, <2>3
<1>8. \/ sstables' = sstables /\ memtable' = memtable
      \/ Install \/ Swap
  <2>1. CASE UNCHANGED vars
    BY <2>1 DEF vars, memVars
  <2>2. CASE Read \/ Write \/ Flush \/ Compact \/ WriteStep \/ Restart
    BY <2>2 DEF Read, Write, Put, Delete, PutBatch, BeginWrite, Flush, Compact, Begin,
       WriteStep, AppendFrame, AppendFails, Sync, SyncFails, Apply,
       Restart, Crash, Open, OpenFails, Maintaining
  <2>3. CASE FlushStep
    BY <2>3 DEF FlushStep, FlushNothing, FlushWrite, FlushWriteFails,
       InstallFails, WalClear, WalClearFails, memVars
  <2>4. CASE CompactStep
    BY <2>4 DEF CompactStep, NothingToMerge, MergeTables, MergeFails, SwapFails,
       RemoveOld, RemoveFails, CompactDone, memVars
  <2> QED BY <2>1, <2>2, <2>3, <2>4 DEF Next
<1> QED BY <1>5, <1>6, <1>7, <1>8

(* No flush or compaction ever changes what a read returns.                *)
THEOREM MaintenanceAlwaysKeepsView ==
  ASSUME MaxSst < NameLimit
  PROVE  Spec => MaintenanceKeepsView
<1>1. TypeInv /\ TypeInv' /\ EngineInv /\ [Next]_vars =>
        [Maintaining /\ pc' # "down" =>
           \A id \in RecordId : Seen(View'[id]) = Seen(View[id])]_vars
  BY MaintenanceView
<1> QED BY <1>1, EngineInvariant, PTL DEF Spec, MaintenanceKeepsView
=============================================================================
