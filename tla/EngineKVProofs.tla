--------------------------- MODULE EngineKVProofs ---------------------------
(***************************************************************************)
(* What the engine keeps through flushes, compactions, failed operations   *)
(* and crashes, torn frames or not: its readers and the next open() find   *)
(* the last acknowledged write of an id or a later one, and every step is  *)
(* one of the abstract store.  For every value of the constants whose      *)
(* table numbers fit the padding of the file names.                        *)
(***************************************************************************)
EXTENDS EngineKV, EngineInvProofs

(* An id's current slots only grow while nothing is acknowledged.          *)
LEMMA CurrentGrows ==
  ASSUME acked' = acked, LimboAfter(op) \subseteq LimboAfter(op)'
  PROVE  \A id \in RecordId : Current(id) \subseteq Current(id)'
BY DEF Current

(* Of the running write's records of an id the last one wins, and it       *)
(* replaces whatever an older layer holds.                                 *)
LEMMA RunningWinner ==
  ASSUME TypeOK, RunningInv, NEW id \in RecordId, Writes(op.recs, id) # {}
  PROVE  LET w == Winner(op.recs, id)
         IN  /\ w \in DOMAIN op.recs /\ op.recs[w].id = id /\ op.recs[w] \in Record
             /\ \A k \in Writes(op.recs, id) :
                   k = w \/ (k < w /\ op.recs[k].seq < op.recs[w].seq)
             /\ \A layer \in Layer : layer[id].seq < op.recs[w].seq =>
                   InsertAll(layer, op.recs)[id] = SlotOf(op.recs[w])
<1> DEFINE w == Winner(op.recs, id)
<1>1. /\ Len(op.recs) \in Nat /\ DOMAIN op.recs = 1..Len(op.recs)
      /\ op.recs \in [1..Len(op.recs) -> Record]
      /\ \A k \in DOMAIN op.recs : op.recs[k].seq \in Nat
  <2>1. op.recs \in [1..Len(op.recs) -> Record]
    BY DEF TypeOK, Op
  <2> QED BY <2>1, TypeNumbers DEF Numbers
<1>2. /\ w \in Writes(op.recs, id)
      /\ \A j \in Writes(op.recs, id) : op.recs[j].seq <= op.recs[w].seq
  BY <1>1, WinnerWins
<1>3. w \in DOMAIN op.recs /\ op.recs[w].id = id /\ op.recs[w] \in Record
  BY <1>1, <1>2 DEF Writes
<1> HIDE DEF w
<1>4. ASSUME NEW k \in Writes(op.recs, id)
      PROVE  k = w \/ (k < w /\ op.recs[k].seq < op.recs[w].seq)
  <2>1. k \in DOMAIN op.recs /\ k \in 1..Len(op.recs) /\ w \in 1..Len(op.recs)
    BY <1>1, <1>3 DEF Writes
  <2>2. CASE k < w
    BY <1>3, <2>1, <2>2 DEF RunningInv
  <2>3. CASE w < k
    <3>1. op.recs[w].seq < op.recs[k].seq
      BY <1>3, <2>1, <2>3 DEF RunningInv
    <3> QED BY <1>1, <1>2, <1>3, <2>1, <3>1
  <2> QED BY <1>1, <2>1, <2>2, <2>3
<1>5. ASSUME NEW layer \in Layer, layer[id].seq < op.recs[w].seq
      PROVE  InsertAll(layer, op.recs)[id] = SlotOf(op.recs[w])
  <2>1. layer[id].seq \in Nat
    BY DEF Layer, Slot, SeqNo
  <2>2. op.recs[w].seq >= layer[id].seq
    BY <1>1, <1>3, <1>5, <2>1
  <2> QED BY <1>2, <2>2 DEF InsertAll, w
<1> QED BY <1>3, <1>4, <1>5 DEF w

(* What is acknowledged when the running write returns. *)
LEMMA AckedAfterIs ==
  ASSUME TypeOK, RunningInv, NEW id \in RecordId
  PROVE  AckedAfter(op)[id] = IF Writes(op.recs, id) = {}
                              THEN acked[id]
                              ELSE SlotOf(op.recs[Winner(op.recs, id)])
<1>1. CASE op.kind # "write"
  BY <1>1 DEF RunningInv, AckedAfter, Writes
<1>2. CASE op.kind = "write" /\ Writes(op.recs, id) = {}
  BY <1>2 DEF AckedAfter, InsertAll
<1>3. CASE op.kind = "write" /\ Writes(op.recs, id) # {}
  <2>1. op.recs[Winner(op.recs, id)].seq > acked[id].seq
    BY <1>3, RunningWinner DEF RunningInv
  <2>2. acked \in Layer
    BY DEF TypeOK
  <2> QED BY <1>3, <2>1, <2>2, RunningWinner DEF AckedAfter
<1> QED BY <1>1, <1>2, <1>3

(* A return with Ok changes what is current only for the ids written.      *)
LEMMA CurrentAfterOk ==
  ASSUME TypeOK, RunningInv, op' = NoOp, acked' = AckedAfter(op), limbo' = limbo,
         NEW id \in RecordId
  PROVE  IF Writes(op.recs, id) = {}
         THEN Current(id) \subseteq Current(id)'
         ELSE SlotOf(op.recs[Winner(op.recs, id)]) \in Current(id)'
<1>1. LimboAfter(op)' = limbo
  BY DEF LimboAfter, NoOp
<1>2. CASE Writes(op.recs, id) # {}
  BY <1>2, AckedAfterIs DEF Current
<1>3. CASE Writes(op.recs, id) = {}
  <2>1. acked'[id] = acked[id]
    BY <1>3, AckedAfterIs
  <2>2. ASSUME NEW x \in UNION LimboAfter(op), x.id = id PROVE x \in UNION limbo
    BY <1>3, <2>2 DEF LimboAfter, Writes
  <2> QED BY <1>1, <1>3, <2>1, <2>2 DEF Current
<1> QED BY <1>2, <1>3

(* A return with Err changes nothing in it. *)
LEMMA CurrentAfterErr ==
  ASSUME op' = NoOp, acked' = acked, limbo' = LimboAfter(op)
  PROVE  LimboAfter(op)' = LimboAfter(op)
         /\ \A id \in RecordId : Current(id)' = Current(id)
<1>1. LimboAfter(op)' = LimboAfter(op)
  BY DEF LimboAfter, NoOp
<1> QED BY <1>1 DEF Current

(* A whole synced frame of an id none of whose synced frames is buried is  *)
(* read.                                                                   *)
LEMMA CleanFrame ==
  ASSUME WalTypeOK, NEW j \in DOMAIN log, Whole(log[j]), j <= synced, Clean(log[j].rec.id)
  PROVE  j \in Readable
<1>1. j \notin Buried
  BY DEF Clean
<1>2. j \in 1..Len(log) /\ Len(log) \in Nat
  BY DEF WalTypeOK
<1>3. \A k \in 1..(j - 1) : Whole(log[k])
  BY <1>1 DEF Buried
<1> QED BY <1>2, <1>3 DEF Readable

-----------------------------------------------------------------------------
(* What holds of the levels, the log and the running write holds as long   *)
(* as they do not change.                                                  *)
LEMMA SameTables ==
  ASSUME files' = files, onDisk' = onDisk, memtable' = memtable,
         sstables' = sstables, nextSst' = nextSst
  PROVE  /\ pc # "down" /\ TableInv => TableInv'
         /\ View' = View
<1>1. Compacted' = Compacted
  BY DEF Compacted
<1> QED BY <1>1 DEF TableInv, Present, View, Levels

(* The same view is still current when nothing is acknowledged.            *)
LEMMA SameViewInv ==
  ASSUME ViewInv, pc # "down", \A id \in RecordId : View'[id] = View[id],
         \A id \in RecordId : Current(id) \subseteq Current(id)',
         \/ op'.recs = <<>> \/ pc' \in {"append", "apply"}
         \/ op'.recs = op.recs /\ pc \notin {"append", "apply"}
  PROVE  ViewInv'
<1> SUFFICES ASSUME NEW id \in RecordId
             PROVE  /\ View'[id] \in Current(id)'
                    /\ pc' \notin {"append", "apply"} /\ Writes(op'.recs, id) # {} =>
                          View'[id] = SlotOf(op'.recs[Winner(op'.recs, id)])
  BY DEF ViewInv
<1>1. View'[id] \in Current(id)'
  BY DEF ViewInv
<1>2. CASE op'.recs = <<>> \/ pc' \in {"append", "apply"}
  BY <1>1, <1>2 DEF Writes
<1>3. CASE op'.recs = op.recs /\ pc \notin {"append", "apply"}
  BY <1>1, <1>3 DEF ViewInv
<1> QED BY <1>2, <1>3

(* A log that does not change, under a memtable that shows nothing more.   *)
LEMMA SameLogInv ==
  ASSUME TypeInv, LogInv, pc # "down", pc' # "down", log' = log, synced' = synced,
         \A id \in RecordId : Present(memtable', id) => Present(memtable, id),
         \A i \in Readable : Clean(log[i].rec.id) /\ Kept(i) => Kept(i)'
  PROVE  LogInv'
<1>1. Readable' = Readable /\ Buried' = Buried
  BY SameLog
<1>2. \A id : (Clean(id)' <=> Clean(id)) /\ (Replayable(id)' <=> Replayable(id))
  BY <1>1 DEF Clean, Replayable
<1> QED BY <1>1, <1>2 DEF LogInv

(* A frame is kept as long as what is current only grows.                  *)
LEMMA SameKept ==
  ASSUME TypeInv, log' = log, synced' = synced,
         \A id \in RecordId : Current(id) \subseteq Current(id)'
  PROVE  \A i \in Readable : Kept(i) => Kept(i)'
<1>1. Readable' = Readable /\ \A i \in Readable : log[i].rec.id \in RecordId
  BY SameLog, TypeNumbers, ReadableInLog DEF TypeInv, Numbers
<1> QED BY <1>1 DEF Kept

(* An operation that is over leaves nothing to say of it.                  *)
LEMMA OverInv ==
  ASSUME FrameInv, op' = NoOp, pc' = "idle", log' = log, synced' = synced
  PROVE  RunningInv' /\ FrameInv'
<1>1. Readable' = Readable
  BY SameLog
<1>2. DOMAIN op'.recs = {} /\ op'.recs = <<>> /\ op'.kind = "none"
  BY DEF NoOp
<1> QED BY <1>1, <1>2 DEF RunningInv, FrameInv

-----------------------------------------------------------------------------
(* A write begins, later than everything before it.                        *)
LEMMA BeginWriteSurvives ==
  ASSUME TypeInv, SurvivalInv, NEW recs \in Seq(Record), BeginWrite(recs),
         \A k \in DOMAIN recs : recs[k].seq = seq + k
  PROVE  SurvivalInv'
<1>0. Numbers /\ Readable \subseteq DOMAIN log
  BY TypeNumbers, ReadableInLog DEF TypeInv
<1>1. /\ log' = log /\ synced' = synced /\ files' = files /\ onDisk' = onDisk
      /\ memtable' = memtable /\ sstables' = sstables /\ nextSst' = nextSst
      /\ pc = "idle" /\ pc' = "append" /\ seq' = seq + Len(recs)
      /\ acked' = acked /\ limbo' = limbo
  BY DEF BeginWrite, Goto, diskVars, walVars, obsVars
<1>2. /\ op' = [kind |-> "write", recs |-> recs, next |-> 1, doomed |-> <<>>]
      /\ op'.kind = "write" /\ op'.recs = recs /\ op'.next = 1
  BY DEF BeginWrite, NoOp
<1>3. Readable' = Readable /\ op = NoOp
  BY <1>1, SameLog DEF SurvivalInv, RunningInv
<1>4. /\ Len(recs) \in Nat /\ DOMAIN recs = 1..Len(recs)
      /\ \A k \in DOMAIN recs : recs[k].id \in RecordId
  <2>1. \A k \in DOMAIN recs : recs[k] \in Record
    OBVIOUS
  <2> QED BY <2>1 DEF Record
<1>5. \A x \in UNION limbo : x.seq \in Nat
  <2>1. \A x \in UNION limbo : x \in Record
    BY DEF TypeInv, TypeOK
  <2> QED BY <2>1 DEF Record, SeqNo
<1>6. \A s \in Nat : s <= seq =>
        s <= seq' /\ \A k \in DOMAIN recs : s < recs[k].seq
  BY <1>0, <1>1, <1>4 DEF Numbers
<1>7. \A k \in DOMAIN recs : recs[k].seq <= seq'
  BY <1>0, <1>1, <1>4 DEF Numbers
<1>8. /\ \A id \in RecordId : memtable[id].seq <= seq /\ acked[id].seq <= seq
      /\ \A r \in UNION limbo : r.seq <= seq
      /\ \A i \in Readable : log[i].rec.seq <= seq
  BY <1>1 DEF SurvivalInv, CounterInv
<1>9. /\ \A k \in DOMAIN recs : \A id \in RecordId :
            memtable[id].seq < recs[k].seq /\ acked[id].seq < recs[k].seq
      /\ \A k \in DOMAIN recs : \A r \in UNION limbo : r.seq < recs[k].seq
      /\ \A k \in DOMAIN recs : \A i \in Readable : log[i].rec.seq < recs[k].seq
  BY <1>0, <1>5, <1>6, <1>8 DEF Numbers
<1>10. /\ \A id \in RecordId : memtable[id].seq <= seq' /\ acked[id].seq <= seq'
       /\ \A r \in UNION limbo : r.seq <= seq'
       /\ \A i \in Readable : log[i].rec.seq <= seq'
  BY <1>0, <1>5, <1>6, <1>8 DEF Numbers
<1>11. \A j, k \in DOMAIN recs : j < k => recs[j].seq < recs[k].seq
  BY <1>0, <1>4 DEF Numbers
<1>12. RunningInv'
  BY <1>1, <1>2, <1>4, <1>9, <1>11 DEF RunningInv
<1>13. CounterInv'
  BY <1>1, <1>2, <1>3, <1>7, <1>10 DEF CounterInv
<1>14. FrameInv'
  <2>1. /\ \A i \in Readable : 0 < log[i].rec.seq
        /\ \A i, j \in Readable : i < j => log[i].rec.seq < log[j].rec.seq
    BY DEF SurvivalInv, FrameInv
  <2>2. \A k \in DOMAIN recs : ~(k < 1)
    BY <1>4
  <2> QED BY <1>1, <1>2, <1>3, <1>9, <2>1, <2>2 DEF FrameInv
<1>15. TableInv' /\ View' = View
  BY <1>1, SameTables DEF SurvivalInv
<1>16. \A id \in RecordId : Current(id) \subseteq Current(id)'
  <2>1. LimboAfter(op) \subseteq LimboAfter(op)'
    BY <1>1, <1>2, <1>3 DEF LimboAfter, NoOp
  <2> QED BY <1>1, <2>1, CurrentGrows
<1>17. ViewInv'
  BY <1>1, <1>15, <1>16, SameViewInv DEF SurvivalInv
<1>18. LogInv'
  BY <1>1, <1>16, SameKept, SameLogInv DEF SurvivalInv
<1> QED BY <1>12, <1>13, <1>14, <1>15, <1>17, <1>18 DEF SurvivalInv

(* A flush or a compaction begins, or goes on from the one to the other:   *)
(* neither writes anything.                                                *)
LEMMA PassingSurvives ==
  ASSUME TypeInv, SurvivalInv, pc # "down",
         log' = log, synced' = synced, files' = files, onDisk' = onDisk,
         memtable' = memtable, sstables' = sstables, nextSst' = nextSst,
         seq' = seq, acked' = acked, limbo' = limbo,
         op.kind # "write", op'.kind \in {"flush", "compact"}, op'.recs = <<>>,
         pc' = "flush" \/ (pc' = "merge" /\ op'.kind = "compact")
  PROVE  SurvivalInv'
<1>1. Readable' = Readable /\ DOMAIN op'.recs = {}
  BY SameLog
<1>2. LimboAfter(op)' = LimboAfter(op)
  BY DEF LimboAfter
<1>3. \A id \in RecordId : Current(id) \subseteq Current(id)'
  BY <1>2, CurrentGrows
<1>4. RunningInv'
  BY <1>1 DEF RunningInv
<1>5. CounterInv'
  BY <1>1 DEF SurvivalInv, CounterInv
<1>6. FrameInv'
  BY <1>1 DEF SurvivalInv, FrameInv
<1>7. TableInv' /\ View' = View
  BY SameTables DEF SurvivalInv
<1>8. ViewInv'
  BY <1>3, <1>7, SameViewInv DEF SurvivalInv
<1>9. LogInv'
  BY <1>3, SameKept, SameLogInv DEF SurvivalInv
<1> QED BY <1>4, <1>5, <1>6, <1>7, <1>8, <1>9 DEF SurvivalInv

-----------------------------------------------------------------------------
(* The log grows by a frame of the running write. *)

(* No buried frame comes back to light, so no id becomes clean.            *)
LEMMA GrowingBuried ==
  ASSUME WalTypeOK, NEW f, log' = Append(log, f), synced' = synced
  PROVE  \A id : Clean(id)' => Clean(id)
<1>1. /\ Len(log) \in Nat /\ DOMAIN log = 1..Len(log)
      /\ DOMAIN log' = 1..(Len(log) + 1)
      /\ \A i \in 1..Len(log) : log'[i] = log[i]
  BY DEF WalTypeOK
<1>2. \A i \in Buried : i \in Buried' /\ log'[i] = log[i]
  BY <1>1 DEF Buried, Whole
<1> QED BY <1>2 DEF Clean

(* The new frame, if replay reads it, is the latest and current.           *)
LEMMA LogGrowsSurvives ==
  ASSUME TypeInv, SurvivalInv, pc = "append", op.next <= Len(op.recs),
         NEW f, f.rec = op.recs[op.next], log' = Append(log, f), synced' = synced,
         memtable' = memtable, pc' # "down",
         \A id \in RecordId : Current(id) \subseteq Current(id)'
  PROVE  /\ LogInv'
         /\ \A i \in Readable' : 0 < log'[i].rec.seq
         /\ \A i, j \in Readable' : i < j => log'[i].rec.seq < log'[j].rec.seq
<1> DEFINE r == op.recs[op.next]
<1>0. Numbers /\ Readable \subseteq DOMAIN log
  BY TypeNumbers, ReadableInLog DEF TypeInv
<1>1. op.next \in DOMAIN op.recs /\ r \in Record /\ r.id \in RecordId /\ r.seq \in Nat
  <2>1. op.next \in Nat \ {0}
    BY DEF TypeInv, TypeOK, Op
  <2> QED BY <1>0, <2>1 DEF Numbers
<1>2. /\ \A i \in Readable : i \in Readable' /\ log'[i] = log[i]
      /\ \A i \in Readable' : \/ i \in Readable /\ log'[i] = log[i]
                              \/ i = Len(log) + 1 /\ log'[i] = f
  BY GrowingLog DEF TypeInv, TypeOK
<1>3. \A id : Clean(id)' => Clean(id)
  BY GrowingBuried DEF TypeInv, TypeOK
<1>4. SlotOf(r) \in Current(r.id)
  <2>1. r \in UNION LimboAfter(op) /\ r.seq > acked[r.id].seq
    <3>1. acked[r.id].seq < r.seq
      BY <1>1 DEF SurvivalInv, RunningInv
    <3>2. op.kind = "write"
      BY DEF SurvivalInv, RunningInv
    <3>3. r \in {op.recs[k] : k \in DOMAIN op.recs}
      BY <1>1
    <3>4. acked[r.id].seq \in Nat
      BY <1>0, <1>1 DEF Numbers
    <3> HIDE DEF r
    <3> QED BY <1>1, <3>1, <3>2, <3>3, <3>4 DEF LimboAfter
  <2> QED BY <2>1 DEF Current
<1>5. ASSUME NEW i \in Readable', Clean(log[i].rec.id)' PROVE Kept(i)'
  <2>1. CASE i \in Readable /\ log'[i] = log[i]
    <3>1. Clean(log[i].rec.id)
      BY <1>3, <1>5, <2>1 DEF Clean
    <3>2. Kept(i) /\ log[i].rec.id \in RecordId
      BY <1>0, <2>1, <3>1 DEF SurvivalInv, LogInv, Numbers
    <3> QED BY <1>2, <2>1, <3>2 DEF Kept
  <2>2. CASE i = Len(log) + 1 /\ log'[i] = f
    BY <1>1, <1>4, <2>2 DEF Kept
  <2> QED BY <1>2, <2>1, <2>2
<1>6. \A id : Replayable(id) => Replayable(id)'
  BY <1>2 DEF Replayable
<1>7. LogInv'
  <2>1. ASSUME NEW id \in RecordId, Clean(id)', Present(memtable, id)
        PROVE  Replayable(id)'
    BY <1>3, <1>6, <2>1 DEF SurvivalInv, LogInv
  <2> QED BY <1>5, <2>1 DEF LogInv, Present
<1>8. ASSUME NEW i \in Readable PROVE log[i].rec.seq < r.seq /\ i < Len(log) + 1
  <2>1. \/ \E k \in DOMAIN op.recs : k < op.next /\ log[i].rec = op.recs[k]
        \/ log[i].rec.seq < r.seq
    BY <1>1 DEF SurvivalInv, FrameInv
  <2>2. \A k \in DOMAIN op.recs : k < op.next => op.recs[k].seq < r.seq
    BY <1>1 DEF SurvivalInv, RunningInv
  <2> QED BY <1>0, <2>1, <2>2 DEF Numbers
<1>9. ASSUME NEW i \in Readable', NEW j \in Readable', i < j
      PROVE  log'[i].rec.seq < log'[j].rec.seq
  <2>1. CASE i \in Readable /\ j \in Readable
    BY <1>2, <1>9, <2>1 DEF SurvivalInv, FrameInv
  <2>2. CASE i \in Readable /\ j = Len(log) + 1 /\ log'[j] = f
    BY <1>2, <1>8, <2>2
  <2>3. CASE i = Len(log) + 1
    <3>1. j <= Len(log) + 1
      BY <1>0, <1>2, <1>8, <2>3 DEF Numbers
    <3>2. i \in Nat /\ j \in Nat
      BY <1>0, <1>2, <2>3 DEF Numbers
    <3> QED BY <1>9, <2>3, <3>1, <3>2
  <2> QED BY <1>2, <2>1, <2>2, <2>3
<1>10. ASSUME NEW i \in Readable' PROVE 0 < log'[i].rec.seq
  <2>1. 0 < r.seq
    <3>1. acked[r.id].seq < r.seq /\ acked[r.id].seq \in Nat
      BY <1>0, <1>1 DEF SurvivalInv, RunningInv, Numbers
    <3> QED BY <1>1, <3>1
  <2> QED BY <1>2, <2>1 DEF SurvivalInv, FrameInv
<1> QED BY <1>7, <1>9, <1>10

(* Appending a whole frame.                                                *)
LEMMA AppendFrameSurvives ==
  ASSUME TypeInv, SurvivalInv, AppendFrame
  PROVE  SurvivalInv'
<1> DEFINE r == op.recs[op.next]
           f == [rec |-> r, words |-> FrameWords(r)]
<1>0. Numbers /\ Readable \subseteq DOMAIN log
  BY TypeNumbers, ReadableInLog DEF TypeInv
<1>1. /\ log' = Append(log, f) /\ synced' = synced /\ files' = files /\ onDisk' = onDisk
      /\ memtable' = memtable /\ sstables' = sstables /\ nextSst' = nextSst
      /\ seq' = seq /\ pc = "append" /\ pc' = "append" /\ op.next <= Len(op.recs)
      /\ acked' = acked /\ limbo' = limbo
      /\ op' = [op EXCEPT !.next = op.next + 1]
  BY DEF AppendFrame, WriteFrame, Goto, memVars, obsVars
<1>2. op'.recs = op.recs /\ op'.next = op.next + 1 /\ op'.kind = op.kind
  BY <1>1 DEF TypeInv, TypeOK, Op
<1>3. f.rec = r /\ Whole(f)
  BY DEF Whole
<1>4. op.next \in DOMAIN op.recs
  <2>1. op.next \in Nat \ {0}
    BY DEF TypeInv, TypeOK, Op
  <2> QED BY <1>0, <1>1, <2>1 DEF Numbers
<1> HIDE DEF f
<1>5. \A id \in RecordId : Current(id) \subseteq Current(id)'
  <2>1. LimboAfter(op)' = LimboAfter(op)
    BY <1>1, <1>2 DEF LimboAfter
  <2> QED BY <1>1, <2>1, CurrentGrows
<1>6. /\ LogInv'
      /\ \A i \in Readable' : 0 < log'[i].rec.seq
      /\ \A i, j \in Readable' : i < j => log'[i].rec.seq < log'[j].rec.seq
  BY <1>1, <1>3, <1>5, LogGrowsSurvives DEF r
<1>7. /\ \A i \in Readable' : \/ i \in Readable /\ log'[i] = log[i]
                              \/ i = Len(log) + 1 /\ log'[i] = f
  BY <1>1, GrowingLog DEF TypeInv, TypeOK
<1>8. RunningInv'
  BY <1>1, <1>2 DEF SurvivalInv, RunningInv
<1>9. CounterInv'
  <2>1. \A i \in Readable' : log'[i].rec.seq <= seq
    BY <1>1, <1>3, <1>4, <1>7 DEF SurvivalInv, CounterInv
  <2> QED BY <1>1, <1>2, <2>1 DEF SurvivalInv, CounterInv
<1>10. FrameInv'
  <2>1. \A i \in Readable' :
          \/ \E k \in DOMAIN op.recs : k < op.next + 1 /\ log'[i].rec = op.recs[k]
          \/ \A k \in DOMAIN op.recs : log'[i].rec.seq < op.recs[k].seq
    <3> TAKE i \in Readable'
    <3>1. CASE i \in Readable /\ log'[i] = log[i]
      <4>1. \/ \E k \in DOMAIN op.recs : k < op.next /\ log[i].rec = op.recs[k]
            \/ \A k \in DOMAIN op.recs : log[i].rec.seq < op.recs[k].seq
        BY <3>1 DEF SurvivalInv, FrameInv
      <4>2. \A k \in DOMAIN op.recs : k < op.next => k < op.next + 1
        BY <1>0 DEF Numbers
      <4> QED BY <3>1, <4>1, <4>2
    <3>2. CASE i = Len(log) + 1 /\ log'[i] = f
      <4>1. op.next < op.next + 1
        BY <1>0 DEF Numbers
      <4> QED BY <1>3, <1>4, <3>2, <4>1
    <3> QED BY <1>7, <3>1, <3>2
  <2>2. ASSUME NEW k \in DOMAIN op.recs, k < op.next + 1
        PROVE  \E i \in DOMAIN log' : Whole(log'[i]) /\ log'[i].rec = op.recs[k]
    <3>1. /\ DOMAIN log' = 1..(Len(log) + 1) /\ log'[Len(log) + 1] = f
          /\ \A i \in DOMAIN log : i \in DOMAIN log' /\ log'[i] = log[i]
      BY <1>0, <1>1 DEF TypeInv, TypeOK, WalTypeOK, Numbers
    <3>2. CASE k = op.next
      BY <1>0, <1>3, <3>1, <3>2 DEF Numbers
    <3>3. CASE k # op.next
      <4>1. k < op.next
        BY <1>0, <2>2, <3>3 DEF Numbers
      <4>2. PICK i \in DOMAIN log : Whole(log[i]) /\ log[i].rec = op.recs[k]
        BY <1>1, <4>1 DEF SurvivalInv, FrameInv
      <4> QED BY <3>1, <4>2
    <3> QED BY <3>2, <3>3
  <2>3. \A k \in DOMAIN op.recs : k < op.next + 1 =>
          \E i \in DOMAIN log' : Whole(log[i])' /\ log'[i].rec = op.recs[k]
    BY <2>2 DEF Whole
  <2>4. pc' = "append" /\ op'.recs = op.recs /\ op'.next = op.next + 1
    BY <1>1, <1>2
  <2> QED BY <1>6, <2>1, <2>3, <2>4 DEF FrameInv
<1>11. TableInv' /\ View' = View
  BY <1>1, SameTables DEF SurvivalInv
<1>12. ViewInv'
  BY <1>1, <1>5, <1>11, SameViewInv DEF SurvivalInv
<1> QED BY <1>6, <1>8, <1>9, <1>10, <1>11, <1>12 DEF SurvivalInv

-----------------------------------------------------------------------------
(* An operation returns. *)

(* The counter stays ahead of what a failed write leaves in limbo.         *)
LEMMA LimboCounted ==
  ASSUME TypeInv, CounterInv, pc # "down"
  PROVE  \A r \in UNION LimboAfter(op) : r.seq <= seq
BY DEF CounterInv, LimboAfter

(* With Err, and nothing else changed.                                     *)
LEMMA ErrSurvives ==
  ASSUME TypeInv, SurvivalInv, pc # "down",
         log' = log, synced' = synced, files' = files, onDisk' = onDisk,
         memtable' = memtable, sstables' = sstables, nextSst' = nextSst,
         seq' = seq, ReturnErr
  PROVE  SurvivalInv'
<1>1. op' = NoOp /\ pc' = "idle" /\ acked' = acked /\ limbo' = LimboAfter(op)
  BY DEF ReturnErr
<1>2. Readable' = Readable /\ DOMAIN op'.recs = {} /\ op'.recs = <<>>
  BY <1>1, SameLog DEF NoOp
<1>3. \A id \in RecordId : Current(id) \subseteq Current(id)'
  BY <1>1, CurrentAfterErr
<1>4. RunningInv' /\ FrameInv'
  BY <1>1, OverInv DEF SurvivalInv
<1>5. CounterInv'
  BY <1>1, <1>2, LimboCounted DEF SurvivalInv, CounterInv
<1>6. TableInv' /\ View' = View
  BY SameTables DEF SurvivalInv
<1>7. ViewInv'
  BY <1>2, <1>3, <1>6, SameViewInv DEF SurvivalInv
<1>8. LogInv'
  BY <1>1, <1>3, SameKept, SameLogInv DEF SurvivalInv
<1> QED BY <1>4, <1>5, <1>6, <1>7, <1>8 DEF SurvivalInv

(* A torn append, which replay does not read.                              *)
LEMMA AppendFailsSurvives ==
  ASSUME TypeInv, SurvivalInv, AppendFails
  PROVE  SurvivalInv'
<1> DEFINE r == op.recs[op.next]
<1>0. Numbers /\ Readable \subseteq DOMAIN log
  BY TypeNumbers, ReadableInLog DEF TypeInv
<1>1. /\ synced' = synced /\ files' = files /\ onDisk' = onDisk
      /\ memtable' = memtable /\ sstables' = sstables /\ nextSst' = nextSst
      /\ seq' = seq /\ pc = "append" /\ pc' = "idle" /\ op.next <= Len(op.recs)
      /\ acked' = acked /\ limbo' = LimboAfter(op) /\ op' = NoOp /\ ReturnErr
  BY DEF AppendFails, TearFrame, ReturnErr, memVars
<1>2. PICK w \in 0..(FrameWords(r) - 1) :
         log' = IF w = 0 THEN log ELSE Append(log, [rec |-> r, words |-> w])
  BY DEF AppendFails, TearFrame
<1>3. CASE w = 0
  BY <1>1, <1>2, <1>3, ErrSurvives
<1>4. CASE w # 0
  <2> DEFINE f == [rec |-> r, words |-> w]
  <2>1. log' = Append(log, f) /\ f.rec = r
    BY <1>2, <1>4
  <2> HIDE DEF f
  <2>2. \A id \in RecordId : Current(id) \subseteq Current(id)'
    BY <1>1, CurrentAfterErr
  <2>3. /\ LogInv'
        /\ \A i \in Readable' : 0 < log'[i].rec.seq
        /\ \A i, j \in Readable' : i < j => log'[i].rec.seq < log'[j].rec.seq
    BY <1>1, <2>1, <2>2, LogGrowsSurvives DEF r
  <2>4. DOMAIN op'.recs = {} /\ op'.recs = <<>> /\ op'.kind = "none"
    BY <1>1 DEF NoOp
  <2>5. RunningInv'
    BY <1>1, <2>4 DEF RunningInv
  <2>6. FrameInv'
    BY <1>1, <2>3, <2>4 DEF FrameInv
  <2>7. CounterInv'
    <3>1. \A i \in Readable' : \/ i \in Readable /\ log'[i] = log[i]
                               \/ i = Len(log) + 1 /\ log'[i] = f
      BY <1>1, <2>1, GrowingLog DEF TypeInv, TypeOK
    <3>2. op.next \in DOMAIN op.recs
      <4>1. op.next \in Nat \ {0}
        BY DEF TypeInv, TypeOK, Op
      <4> QED BY <1>0, <1>1, <4>1 DEF Numbers
    <3>3. \A i \in Readable' : log'[i].rec.seq <= seq
      BY <1>1, <2>1, <3>1, <3>2 DEF SurvivalInv, CounterInv
    <3>4. \A x \in UNION limbo' : x.seq <= seq
      BY <1>1, LimboCounted DEF SurvivalInv
    <3> QED BY <1>1, <2>4, <3>3, <3>4 DEF SurvivalInv, CounterInv
  <2>8. TableInv' /\ View' = View
    BY <1>1, SameTables DEF SurvivalInv
  <2>9. ViewInv'
    BY <1>1, <2>2, <2>4, <2>8, SameViewInv DEF SurvivalInv
  <2> QED BY <2>3, <2>5, <2>6, <2>7, <2>8, <2>9 DEF SurvivalInv
<1> QED BY <1>3, <1>4

(* With Ok: the frames of the write that returns are in the log, and every *)
(* earlier one of its ids is superseded.                                   *)
LEMMA OkKeepsFrames ==
  ASSUME TypeInv, SurvivalInv, log' = log, synced' = synced,
         op' = NoOp, acked' = AckedAfter(op), limbo' = limbo,
         pc \in {"apply", "flush"} \/ op.recs = <<>>
  PROVE  \A i \in Readable : Clean(log[i].rec.id) /\ Kept(i) => Kept(i)'
<1> SUFFICES ASSUME NEW i \in Readable, Clean(log[i].rec.id), Kept(i) PROVE Kept(i)'
  OBVIOUS
<1> DEFINE id == log[i].rec.id
           w == Winner(op.recs, id)
<1>0. Numbers /\ Readable \subseteq DOMAIN log
  BY TypeNumbers, ReadableInLog DEF TypeInv
<1>1. /\ id \in RecordId /\ log[i].rec.seq \in Nat
      /\ Readable' = Readable /\ TypeOK /\ RunningInv /\ FrameInv
  BY <1>0, SameLog DEF Numbers, TypeInv, SurvivalInv
<1>2. CASE Writes(op.recs, id) = {}
  <2>1. Current(id) \subseteq Current(id)'
    BY <1>1, <1>2, CurrentAfterOk
  <2> QED BY <1>1, <2>1 DEF Kept
<1>3. CASE Writes(op.recs, id) # {}
  <2>1. /\ w \in DOMAIN op.recs /\ op.recs[w].id = id
        /\ \A k \in Writes(op.recs, id) :
              k = w \/ (k < w /\ op.recs[k].seq < op.recs[w].seq)
    BY <1>1, <1>3, RunningWinner
  <2>2. SlotOf(op.recs[w]) \in Current(id)'
    BY <1>1, <1>3, CurrentAfterOk
  <2> HIDE DEF w
  <2>3. PICK j \in DOMAIN log : j <= synced /\ Whole(log[j]) /\ log[j].rec = op.recs[w]
    BY <1>1, <2>1 DEF FrameInv
  <2>4. j \in Readable
    BY <1>1, <2>1, <2>3, CleanFrame DEF TypeOK
  <2>5. CASE log[i].rec.seq < op.recs[w].seq
    BY <1>1, <2>1, <2>3, <2>4, <2>5 DEF Kept
  <2>6. ASSUME NEW k \in DOMAIN op.recs, log[i].rec = op.recs[k]
        PROVE  Kept(i)'
    <3>1. k \in Writes(op.recs, id)
      BY <2>6 DEF Writes
    <3>2. CASE k = w
      BY <2>2, <2>6, <3>2 DEF Kept
    <3> QED BY <2>1, <2>5, <2>6, <3>1, <3>2
  <2> QED BY <1>1, <2>1, <2>5, <2>6 DEF FrameInv
<1> QED BY <1>2, <1>3

(* The counter stays ahead of what is acknowledged.                        *)
LEMMA AckedCounted ==
  ASSUME TypeInv, RunningInv, CounterInv, pc # "down", NEW id \in RecordId
  PROVE  AckedAfter(op)[id].seq <= seq
<1>1. AckedAfter(op)[id] = IF Writes(op.recs, id) = {}
                           THEN acked[id] ELSE SlotOf(op.recs[Winner(op.recs, id)])
  BY AckedAfterIs DEF TypeInv
<1>2. CASE Writes(op.recs, id) = {}
  BY <1>1, <1>2 DEF CounterInv
<1>3. CASE Writes(op.recs, id) # {}
  <2>1. Winner(op.recs, id) \in DOMAIN op.recs
    BY <1>3, RunningWinner DEF TypeInv
  <2> QED BY <1>1, <1>3, <2>1 DEF CounterInv, SlotOf
<1> QED BY <1>2, <1>3

(* Nothing changes on the disk or in memory.                               *)
LEMMA OkSurvives ==
  ASSUME TypeInv, SurvivalInv, pc # "down", pc \notin {"append", "apply"},
         pc = "flush" \/ op.recs = <<>>,
         log' = log, synced' = synced, files' = files, onDisk' = onDisk,
         memtable' = memtable, sstables' = sstables, nextSst' = nextSst,
         seq' = seq, ReturnOk
  PROVE  SurvivalInv'
<1>1. op' = NoOp /\ pc' = "idle" /\ acked' = AckedAfter(op) /\ limbo' = limbo
  BY DEF ReturnOk
<1>2. Readable' = Readable /\ DOMAIN op'.recs = {} /\ op'.recs = <<>>
  BY <1>1, SameLog DEF NoOp
<1>4. RunningInv' /\ FrameInv'
  BY <1>1, OverInv DEF SurvivalInv
<1>5. CounterInv'
  BY <1>1, <1>2, AckedCounted DEF SurvivalInv, CounterInv
<1>6. TableInv' /\ View' = View
  BY SameTables DEF SurvivalInv
<1>7. ViewInv'
  <2>1. ASSUME NEW id \in RecordId PROVE View[id] \in Current(id)'
    <3>1. CASE Writes(op.recs, id) = {}
      BY <1>1, <3>1, CurrentAfterOk DEF SurvivalInv, ViewInv, TypeInv
    <3>2. CASE Writes(op.recs, id) # {}
      BY <1>1, <3>2, CurrentAfterOk DEF SurvivalInv, ViewInv, TypeInv
    <3> QED BY <3>1, <3>2
  <2> QED BY <1>2, <1>6, <2>1 DEF ViewInv, Writes
<1>8. LogInv'
  BY <1>1, OkKeepsFrames, SameLogInv DEF SurvivalInv
<1> QED BY <1>4, <1>5, <1>6, <1>7, <1>8 DEF SurvivalInv

-----------------------------------------------------------------------------
(* The sync makes every frame of the running write count.                  *)
LEMMA SyncSurvives ==
  ASSUME TypeInv, SurvivalInv, Sync
  PROVE  SurvivalInv'
<1>0. Numbers /\ Readable \subseteq DOMAIN log
  BY TypeNumbers, ReadableInLog DEF TypeInv
<1>1. /\ log' = log /\ synced' = Len(log) /\ files' = files /\ onDisk' = onDisk
      /\ memtable' = memtable /\ sstables' = sstables /\ nextSst' = nextSst
      /\ seq' = seq /\ pc = "append" /\ pc' = "apply" /\ op' = op
      /\ op.next > Len(op.recs) /\ acked' = acked /\ limbo' = limbo
  BY DEF Sync, SyncData, Goto, memVars, obsVars
<1>2. Readable' = Readable /\ Buried' = Buried
  BY <1>1 DEF Readable, Buried, Whole, FrameWords
<1>3. /\ \A i \in DOMAIN log : i <= synced'
      /\ \A i : i <= synced /\ i \in DOMAIN log => i <= synced'
  BY <1>0, <1>1 DEF Numbers
<1>4. \A id : Clean(id)' => Clean(id)
  BY <1>1, <1>2, <1>3 DEF Clean, Buried
<1>5. \A id \in RecordId : Current(id) \subseteq Current(id)'
  BY <1>1 DEF Current, LimboAfter
<1>6. RunningInv' /\ CounterInv'
  BY <1>1, <1>2 DEF SurvivalInv, RunningInv, CounterInv
<1>7. FrameInv'
  <2>1. /\ \A i \in Readable : 0 < log[i].rec.seq
        /\ \A i, j \in Readable : i < j => log[i].rec.seq < log[j].rec.seq
    BY DEF SurvivalInv, FrameInv
  <2>2. \A i \in Readable :
          \/ \E k \in DOMAIN op.recs : k < op.next /\ log[i].rec = op.recs[k]
          \/ \A k \in DOMAIN op.recs : log[i].rec.seq < op.recs[k].seq
    BY DEF SurvivalInv, FrameInv
  <2>3. ASSUME NEW k \in DOMAIN op.recs
        PROVE  \E i \in DOMAIN log : i <= synced' /\ Whole(log[i]) /\ log[i].rec = op.recs[k]
    <3>1. k < op.next
      BY <1>0, <1>1 DEF Numbers
    <3>2. PICK i \in DOMAIN log : Whole(log[i]) /\ log[i].rec = op.recs[k]
      BY <1>1, <3>1 DEF SurvivalInv, FrameInv
    <3> QED BY <1>3, <3>2
  <2>4. \A k \in DOMAIN op.recs :
          \E i \in DOMAIN log : i <= synced' /\ Whole(log[i])' /\ log[i].rec = op.recs[k]
    BY <1>1, <2>3 DEF Whole, FrameWords
  <2> QED BY <1>1, <1>2, <2>1, <2>2, <2>4 DEF FrameInv
<1>8. TableInv' /\ View' = View
  BY <1>1, SameTables DEF SurvivalInv
<1>9. ViewInv'
  BY <1>1, <1>5, <1>8, SameViewInv DEF SurvivalInv
<1>10. LogInv'
  <2>1. \A i \in Readable : log[i].rec.id \in RecordId
    BY <1>0 DEF Numbers
  <2>2. \A i \in Readable : Kept(i) => Kept(i)'
    BY <1>0, <1>1, <1>2, <1>3, <1>5, <2>1 DEF Kept
  <2>3. \A id : Replayable(id) => Replayable(id)'
    BY <1>0, <1>1, <1>2, <1>3 DEF Replayable
  <2>4. \A i \in Readable : Clean(log[i].rec.id) => Kept(i)
    BY DEF SurvivalInv, LogInv
  <2>5. \A i \in Readable : Clean(log[i].rec.id)' => Clean(log[i].rec.id)
    BY <1>1, <1>2, <1>3 DEF Clean, Buried
  <2>6. \A id \in RecordId : Clean(id) /\ Present(memtable, id) => Replayable(id)
    BY <1>1 DEF SurvivalInv, LogInv
  <2>7. \A id \in RecordId : Clean(id)' /\ Present(memtable, id)' => Replayable(id)'
    BY <1>1, <1>4, <2>3, <2>6 DEF Present
  <2> QED BY <1>1, <1>2, <2>2, <2>4, <2>5, <2>7 DEF LogInv
<1> QED BY <1>6, <1>7, <1>8, <1>9, <1>10 DEF SurvivalInv

-----------------------------------------------------------------------------
(* The write becomes visible. *)

(* Reading past the memtable. *)
LEMMA ViewIsMemOrTables ==
  ASSUME TypeInv, NEW id \in RecordId
  PROVE  /\ View[id] = IF Present(memtable, id)
                       THEN memtable[id] ELSE Compacted[id]
         /\ Compacted = Merge(TablesOf(sstables))
<1>1. sstables \in Seq(Reader) /\ memtable \in Layer
  BY DEF TypeInv, TypeOK
<1>2. Compacted = Merge(TablesOf(sstables))
  BY DEF Compacted, TablesOf
<1> QED BY <1>1, <1>2, ViewIs DEF View, Levels

LEMMA NextViewIs ==
  ASSUME TypeInv', NEW id \in RecordId
  PROVE  View'[id] = IF Present(memtable', id) THEN memtable'[id] ELSE Compacted'[id]
<1>1. sstables' \in Seq(Reader) /\ memtable' \in Layer
  BY DEF TypeInv, TypeOK
<1>2. Compacted' = Merge(TablesOf(sstables'))
  BY DEF Compacted, TablesOf
<1> QED BY <1>1, <1>2, ViewIs DEF View, Levels

(* What the running write leaves of an id is current while it runs.        *)
LEMMA RunningCurrent ==
  ASSUME TypeInv, RunningInv, NEW id \in RecordId, Writes(op.recs, id) # {}
  PROVE  SlotOf(op.recs[Winner(op.recs, id)]) \in Current(id)
<1> DEFINE r == op.recs[Winner(op.recs, id)]
<1>1. Winner(op.recs, id) \in DOMAIN op.recs /\ r.id = id
  BY RunningWinner DEF TypeInv
<1>2. op.kind = "write"
  BY <1>1 DEF RunningInv
<1>3. acked[id].seq < r.seq /\ acked[id].seq \in Nat /\ r.seq \in Nat
  BY <1>1, TypeNumbers DEF RunningInv, TypeInv, Numbers
<1>4. r \in {op.recs[k] : k \in DOMAIN op.recs}
  BY <1>1
<1> HIDE DEF r
<1>5. r \in UNION LimboAfter(op) /\ r.seq > acked[id].seq
  BY <1>2, <1>3, <1>4 DEF LimboAfter
<1> QED BY <1>1, <1>5 DEF Current, r

(* A write once applied is what readers of its ids see.                    *)
LEMMA AppliedView ==
  ASSUME TypeInv, TypeInv', RunningInv, Apply, NEW id \in RecordId
  PROVE  LET w == Winner(op.recs, id)
         IN  IF Writes(op.recs, id) = {}
             THEN memtable'[id] = memtable[id] /\ View'[id] = View[id]
             ELSE /\ w \in DOMAIN op.recs /\ op.recs[w].id = id
                  /\ memtable'[id] = SlotOf(op.recs[w])
                  /\ View'[id] = SlotOf(op.recs[w])
                  /\ Present(memtable', id)
<1>0. Numbers /\ TypeOK /\ memtable \in Layer
  BY TypeNumbers DEF TypeInv, TypeOK
<1>1. /\ sstables' = sstables /\ pc = "apply" /\ memtable' = InsertAll(memtable, op.recs)
      /\ Compacted' = Compacted
  BY DEF Apply, Compacted
<1>2. CASE Writes(op.recs, id) = {}
  <2>1. memtable'[id] = memtable[id]
    BY <1>1, <1>2 DEF InsertAll
  <2> QED BY <1>1, <1>2, <2>1, ViewIsMemOrTables, NextViewIs DEF Present
<1>3. CASE Writes(op.recs, id) # {}
  <2> DEFINE w == Winner(op.recs, id)
  <2>1. w \in DOMAIN op.recs /\ op.recs[w].id = id
    BY <1>0, <1>3, RunningWinner
  <2>2. memtable[id].seq < op.recs[w].seq
    BY <1>1, <2>1 DEF RunningInv
  <2>3. memtable'[id] = SlotOf(op.recs[w])
    BY <1>0, <1>1, <1>3, <2>2, RunningWinner
  <2>4. Present(memtable', id)
    BY <1>0, <2>1, <2>2, <2>3 DEF Present, SlotOf, Numbers
  <2>5. View'[id] = SlotOf(op.recs[w])
    BY <2>3, <2>4, NextViewIs
  <2> QED BY <1>3, <2>1, <2>3, <2>4, <2>5
<1> QED BY <1>2, <1>3

(* The write becomes visible and, if no flush follows, is acknowledged.    *)
LEMMA ApplySurvives ==
  ASSUME TypeInv, TypeInv', SurvivalInv, Apply
  PROVE  SurvivalInv'
<1>0. Numbers /\ Readable \subseteq DOMAIN log /\ TypeOK /\ memtable \in Layer
  BY TypeNumbers, ReadableInLog DEF TypeInv, TypeOK
<1>1. /\ log' = log /\ synced' = synced /\ files' = files /\ onDisk' = onDisk
      /\ sstables' = sstables /\ nextSst' = nextSst /\ seq' = seq /\ limbo' = limbo
      /\ pc = "apply" /\ memtable' = InsertAll(memtable, op.recs)
      /\ \/ pc' = "flush" /\ op' = op /\ acked' = acked
         \/ pc' = "idle" /\ op' = NoOp /\ acked' = AckedAfter(op)
  BY DEF Apply, Goto, ReturnOk, diskVars, walVars, obsVars
<1>2. RunningInv /\ CounterInv /\ FrameInv /\ TableInv /\ ViewInv /\ LogInv
  BY DEF SurvivalInv
<1>3. /\ Readable' = Readable /\ Buried' = Buried
      /\ \A id : (Clean(id)' <=> Clean(id)) /\ (Replayable(id)' <=> Replayable(id))
      /\ Compacted' = Compacted
  BY <1>1, SameLog DEF Clean, Replayable, Compacted
<1>4. ASSUME NEW id \in RecordId, Writes(op.recs, id) = {}
      PROVE  memtable'[id] = memtable[id] /\ View'[id] = View[id]
  BY <1>2, <1>4, AppliedView
<1>5. ASSUME NEW id \in RecordId, Writes(op.recs, id) # {}
      PROVE  LET w == Winner(op.recs, id)
             IN  /\ w \in DOMAIN op.recs /\ op.recs[w].id = id
                 /\ memtable'[id] = SlotOf(op.recs[w]) /\ View'[id] = SlotOf(op.recs[w])
                 /\ Present(memtable', id)
  BY <1>2, <1>5, AppliedView
<1>6. \A id \in RecordId : Present(memtable, id) => Present(memtable', id)
  BY <1>4, <1>5 DEF Present
<1>7. \A id \in RecordId : memtable'[id].seq <= seq
  <2> TAKE id \in RecordId
  <2>1. CASE Writes(op.recs, id) = {}
    BY <1>1, <1>2, <1>4, <2>1 DEF CounterInv
  <2>2. CASE Writes(op.recs, id) # {}
    <3>1. PICK w \in DOMAIN op.recs : memtable'[id] = SlotOf(op.recs[w])
      BY <1>5, <2>2
    <3>2. op.recs[w].seq <= seq
      BY <1>1, <1>2 DEF CounterInv
    <3> QED BY <3>1, <3>2 DEF SlotOf
  <2> QED BY <2>1, <2>2
<1>8. RunningInv'
  <2>1. CASE pc' = "flush" /\ op' = op /\ acked' = acked
    BY <1>1, <1>2, <2>1 DEF RunningInv
  <2>2. CASE pc' = "idle" /\ op' = NoOp
    BY <1>1, <1>2, <2>2, OverInv
  <2> QED BY <1>1, <2>1, <2>2
<1>9. CounterInv'
  <2>1. \A id \in RecordId : acked'[id].seq <= seq
    BY <1>0, <1>1, <1>2, AckedCounted DEF CounterInv
  <2>2. \A k \in DOMAIN op'.recs : op'.recs[k].seq <= seq
    BY <1>1, <1>2 DEF CounterInv, NoOp
  <2> QED BY <1>1, <1>2, <1>3, <1>7, <2>1, <2>2 DEF CounterInv
<1>10. FrameInv'
  <2>1. CASE pc' = "flush" /\ op' = op
    <3>1. \A k \in DOMAIN op.recs :
            \E i \in DOMAIN log : i <= synced /\ Whole(log[i]) /\ log[i].rec = op.recs[k]
      BY <1>1, <1>2 DEF FrameInv
    <3>2. \A k \in DOMAIN op.recs :
            \E i \in DOMAIN log : i <= synced /\ Whole(log[i])' /\ log[i].rec = op.recs[k]
      BY <1>1, <3>1 DEF Whole, FrameWords
    <3> QED BY <1>1, <1>2, <1>3, <2>1, <3>2 DEF FrameInv
  <2>2. CASE pc' = "idle" /\ op' = NoOp
    BY <1>1, <1>2, <2>2, OverInv
  <2> QED BY <1>1, <2>1, <2>2
<1>11. TableInv'
  BY <1>1, <1>2, <1>3, <1>6 DEF TableInv, Present
<1>12. ViewInv'
  <2> SUFFICES ASSUME NEW id \in RecordId
               PROVE  /\ View'[id] \in Current(id)'
                      /\ pc' \notin {"append", "apply"} /\ Writes(op'.recs, id) # {} =>
                            View'[id] = SlotOf(op'.recs[Winner(op'.recs, id)])
    BY DEF ViewInv
  <2>1. View[id] \in Current(id)
    BY <1>1, <1>2 DEF ViewInv
  <2>2. CASE pc' = "flush" /\ op' = op /\ acked' = acked
    <3>1. Current(id)' = Current(id)
      BY <1>1, <2>2 DEF Current, LimboAfter
    <3> QED BY <1>2, <1>4, <1>5, <2>1, <2>2, <3>1, RunningCurrent
  <2>3. CASE pc' = "idle" /\ op' = NoOp /\ acked' = AckedAfter(op)
    <3>1. View'[id] \in Current(id)'
      BY <1>0, <1>1, <1>2, <1>4, <1>5, <2>1, <2>3, CurrentAfterOk
    <3> QED BY <2>3, <3>1 DEF NoOp, Writes
  <2> QED BY <1>1, <2>2, <2>3
<1>13. LogInv'
  <2>1. \A i \in Readable : Clean(log[i].rec.id) /\ Kept(i) => Kept(i)'
    <3>1. CASE pc' = "flush" /\ op' = op /\ acked' = acked
      <4>1. \A id \in RecordId : Current(id) \subseteq Current(id)'
        BY <1>1, <3>1 DEF Current, LimboAfter
      <4> QED BY <1>1, <4>1, SameKept
    <3>2. CASE pc' = "idle" /\ op' = NoOp /\ acked' = AckedAfter(op)
      BY <1>1, <3>2, OkKeepsFrames
    <3> QED BY <1>1, <3>1, <3>2
  <2>2. ASSUME NEW id \in RecordId, Clean(id), Present(memtable', id) PROVE Replayable(id)
    <3>1. CASE Writes(op.recs, id) = {}
      BY <1>1, <1>2, <1>4, <2>2, <3>1 DEF LogInv, Present
    <3>2. CASE Writes(op.recs, id) # {}
      <4>1. PICK k \in DOMAIN op.recs : op.recs[k].id = id
        BY <3>2 DEF Writes
      <4>2. PICK j \in DOMAIN log : j <= synced /\ Whole(log[j]) /\ log[j].rec = op.recs[k]
        BY <1>1, <1>2 DEF FrameInv
      <4>3. j \in Readable
        BY <1>0, <2>2, <4>1, <4>2, CleanFrame DEF TypeOK
      <4> QED BY <4>1, <4>2, <4>3 DEF Replayable
    <3> QED BY <3>1, <3>2
  <2>3. \A i \in Readable : Clean(log[i].rec.id) => Kept(i)
    BY <1>2 DEF LogInv
  <2>4. \A id \in RecordId : Clean(id)' /\ Present(memtable, id)' => Replayable(id)'
    BY <1>3, <2>2 DEF Present
  <2>5. \A i \in Readable : Clean(log[i].rec.id)' => Clean(log[i].rec.id)
    BY <1>1, <1>3 DEF Clean
  <2> QED BY <1>1, <1>3, <2>1, <2>3, <2>4, <2>5 DEF LogInv
<1> QED BY <1>8, <1>9, <1>10, <1>11, <1>12, <1>13 DEF SurvivalInv

-----------------------------------------------------------------------------
(* Flush and compaction move records between memory and disk. *)

(* A step of theirs disturbs nothing but the tables.                       *)
LEMMA MaintainingSurvives ==
  ASSUME TypeInv, SurvivalInv, log' = log, synced' = synced,
         seq' = seq, acked' = acked, limbo' = limbo,
         op'.kind = op.kind, op'.recs = op.recs, op'.next = op.next,
         memtable' = memtable \/ memtable' = EmptyLayer,
         \/ pc \in {"flush", "install"} /\ pc' \in {"install", "walclear"}
         \/ pc \in {"merge", "swap", "remove"} /\ pc' \in {"swap", "remove"},
         \A id \in RecordId : View'[id] = View[id], TableInv'
  PROVE  SurvivalInv'
<1>1. Readable' = Readable
  BY SameLog
<1>2. \A id \in RecordId : ~Present(EmptyLayer, id) /\ EmptyLayer[id].seq = 0
  BY DEF Present, EmptyLayer, Absent
<1>3. LimboAfter(op)' = LimboAfter(op)
  BY DEF LimboAfter
<1>4. \A id \in RecordId : Current(id) \subseteq Current(id)'
  BY <1>3, CurrentGrows
<1>5. RunningInv'
  BY DEF SurvivalInv, RunningInv
<1>6. CounterInv'
  <2>1. \A id \in RecordId : memtable'[id].seq <= seq
    <3>1. seq \in Nat
      BY TypeNumbers DEF TypeInv, Numbers
    <3> QED BY <1>2, <3>1 DEF SurvivalInv, CounterInv
  <2> QED BY <1>1, <2>1 DEF SurvivalInv, CounterInv
<1>7. FrameInv'
  <2>1. pc \in {"flush", "install"} => \A k \in DOMAIN op.recs :
          \E i \in DOMAIN log : i <= synced /\ Whole(log[i]) /\ log[i].rec = op.recs[k]
    BY DEF SurvivalInv, FrameInv
  <2>2. pc \in {"flush", "install"} => \A k \in DOMAIN op.recs :
          \E i \in DOMAIN log : i <= synced /\ Whole(log[i])' /\ log[i].rec = op.recs[k]
    BY <2>1 DEF Whole, FrameWords
  <2> QED BY <1>1, <2>2 DEF SurvivalInv, FrameInv
<1>8. ViewInv'
  BY <1>4, SameViewInv DEF SurvivalInv
<1>9. LogInv'
  BY <1>2, <1>4, SameKept, SameLogInv DEF SurvivalInv
<1> QED BY <1>5, <1>6, <1>7, <1>8, <1>9 DEF SurvivalInv

(* The file a flush writes holds the memtable, which is still there.       *)
LEMMA FlushWriteSurvives ==
  ASSUME TypeInv, SurvivalInv, FlushWrite, \A id \in RecordId : View'[id] = View[id]
  PROVE  SurvivalInv'
<1>1. /\ log' = log /\ synced' = synced /\ memtable' = memtable
      /\ sstables' = sstables /\ nextSst' = nextSst /\ seq' = seq /\ op' = op
      /\ acked' = acked /\ limbo' = limbo /\ pc = "flush" /\ pc' = "install"
      /\ onDisk' = onDisk \cup {nextSst} /\ files' = [files EXCEPT ![nextSst] = memtable]
  BY DEF FlushWrite, WriteSst, Goto, obsVars, memVars, walVars
<1>2. \A n \in onDisk' : files'[n] = IF n = nextSst THEN memtable ELSE files[n]
  <2>1. files \in [SstId -> Layer] /\ onDisk \subseteq SstId
    BY DEF TypeInv, TypeOK
  <2>2. nextSst \in SstId
    BY DEF FlushWrite, WriteSst, TypeInv, TypeOK, SstId
  <2> QED BY <1>1, <2>1, <2>2
<1>3. Compacted' = Compacted
  BY <1>1 DEF Compacted
<1>4. TableInv'
  BY <1>1, <1>2, <1>3 DEF SurvivalInv, TableInv, Present
<1> QED BY <1>1, <1>4, MaintainingSurvives

(* The flushed table takes the memtable's place on top of the others.      *)
LEMMA InstallSurvives ==
  ASSUME TypeInv, TypeInv', EngineInv, SurvivalInv, Install,
         \A id \in RecordId : View'[id] = View[id]
  PROVE  SurvivalInv'
<1>0. Numbers
  BY TypeNumbers DEF TypeInv
<1> DEFINE new == [name |-> nextSst, recs |-> memtable]
           top == Len(sstables) + 1
<1>1. /\ log' = log /\ synced' = synced /\ files' = files /\ onDisk' = onDisk
      /\ seq' = seq /\ op' = op /\ acked' = acked /\ limbo' = limbo
      /\ pc = "install" /\ pc' = "walclear"
      /\ nextSst' = nextSst + 1 /\ memtable' = EmptyLayer
      /\ files[nextSst] = memtable /\ sstables' = Append(sstables, new)
  BY DEF Install, Goto, obsVars, diskVars, walVars, EngineInv, StepInv
<1>2. /\ \A i \in DOMAIN sstables : i \in DOMAIN sstables' /\ sstables'[i] = sstables[i]
      /\ top \in DOMAIN sstables' /\ sstables'[top] = new
  BY <1>0, <1>1 DEF Numbers, TypeInv, TypeOK
<1>3. new.name = nextSst /\ new.recs = memtable
  OBVIOUS
<1> HIDE DEF new, top
<1>4. \A id \in RecordId : ~Present(memtable', id)
  BY <1>1 DEF Present, EmptyLayer, Absent
<1>5. \A id \in RecordId :
        Compacted'[id] = IF Present(memtable, id) THEN memtable[id] ELSE Compacted[id]
  BY <1>4, NextViewIs, ViewIsMemOrTables
<1>6. TableInv'
  <2> SUFFICES ASSUME NEW n \in onDisk, NEW id \in RecordId, Present(files[n], id)
               PROVE  \/ files[n][id] = Compacted'[id]
                      \/ \E i \in DOMAIN sstables' :
                            n < sstables'[i].name /\ Present(sstables'[i].recs, id)
    BY <1>1 DEF TableInv, Present
  <2>1. CASE Present(memtable, id)
    <3>1. n = nextSst \/ n < nextSst
      BY <1>0, <1>1 DEF EngineInv, NameInv, Numbers, SstId
    <3> QED BY <1>1, <1>2, <1>3, <1>5, <2>1, <3>1
  <2>2. CASE ~Present(memtable, id)
    <3>1. \/ files[n][id] = Compacted[id]
          \/ \E i \in DOMAIN sstables :
                n < sstables[i].name /\ Present(sstables[i].recs, id)
      BY <1>1, <2>2 DEF SurvivalInv, TableInv
    <3> QED BY <1>2, <1>5, <2>2, <3>1
  <2> QED BY <2>1, <2>2
<1> QED BY <1>1, <1>6, MaintainingSurvives

(* The file a compaction writes holds what the open tables merge to.       *)
LEMMA MergeTablesSurvives ==
  ASSUME TypeInv, EngineInv, SurvivalInv, MergeTables,
         \A id \in RecordId : View'[id] = View[id]
  PROVE  SurvivalInv'
<1>1. /\ log' = log /\ synced' = synced /\ memtable' = memtable
      /\ sstables' = sstables /\ nextSst' = nextSst + 1 /\ seq' = seq /\ op' = op
      /\ acked' = acked /\ limbo' = limbo /\ pc = "merge" /\ pc' = "swap"
      /\ onDisk' = onDisk \cup {nextSst} /\ files' = [files EXCEPT ![nextSst] = Compacted]
  BY DEF MergeTables, WriteSst, Goto, obsVars, walVars
<1>2. \A n \in onDisk' : files'[n] = IF n = nextSst THEN Compacted ELSE files[n]
  <2>1. files \in [SstId -> Layer] /\ onDisk \subseteq SstId
    BY DEF TypeInv, TypeOK
  <2>2. nextSst \in SstId
    BY DEF MergeTables, WriteSst, TypeInv, TypeOK, SstId
  <2> QED BY <1>1, <2>1, <2>2
<1>3. Compacted' = Compacted
  BY <1>1 DEF Compacted
<1>4. \A id \in RecordId : ~Present(memtable, id)
  BY <1>1 DEF EngineInv, StepInv
<1>5. TableInv'
  BY <1>1, <1>2, <1>3, <1>4 DEF SurvivalInv, TableInv, Present
<1> QED BY <1>1, <1>5, MaintainingSurvives

(* The merged table takes the place of those it was merged from.           *)
LEMMA SwapSurvives ==
  ASSUME TypeInv, TypeInv', EngineInv, SurvivalInv, Swap,
         \A id \in RecordId : View'[id] = View[id]
  PROVE  SurvivalInv'
<1>0. Numbers
  BY TypeNumbers DEF TypeInv
<1> DEFINE new == [name |-> nextSst - 1, recs |-> Compacted]
<1>1. /\ log' = log /\ synced' = synced /\ files' = files /\ onDisk' = onDisk
      /\ memtable' = memtable /\ nextSst' = nextSst /\ seq' = seq
      /\ acked' = acked /\ limbo' = limbo /\ pc = "swap" /\ pc' = "remove"
      /\ sstables' = <<new>>
      /\ \A i \in DOMAIN sstables : sstables[i].name < nextSst - 1
      /\ \A id \in RecordId : ~Present(memtable, id)
  BY DEF Swap, Goto, obsVars, diskVars, walVars, EngineInv, StepInv, NameInv
<1>2. op'.kind = op.kind /\ op'.recs = op.recs /\ op'.next = op.next
  BY DEF Swap, TypeInv, TypeOK, Op
<1>3. 1 \in DOMAIN sstables' /\ sstables'[1] = new
      /\ new.name = nextSst - 1 /\ new.recs = Compacted
  BY <1>1
<1> HIDE DEF new
<1>4. \A id \in RecordId : Compacted'[id] = Compacted[id]
  BY <1>1, NextViewIs, ViewIsMemOrTables
<1>5. ASSUME NEW i \in DOMAIN sstables, NEW id \in RecordId,
             Present(sstables[i].recs, id)
      PROVE  Present(Compacted, id)
  <2> DEFINE tables == TablesOf(sstables)
  <2>1. /\ sstables \in Seq(Reader) /\ i \in 1..Len(sstables)
        /\ Len(sstables) \in Nat /\ tables \in [1..Len(sstables) -> Layer]
        /\ tables[i] = sstables[i].recs
    BY <1>0, TablesStack DEF TypeInv, TypeOK, Numbers, TablesOf
  <2>2. Compacted = Merge(tables)
    BY DEF Compacted, TablesOf
  <2> HIDE DEF tables
  <2>3. \/ \A j \in 1..Len(sstables) : ~Present(tables[j], id)
        \/ \E j \in 1..Len(sstables) :
              Present(tables[j], id) /\ Merge(tables)[id] = tables[j][id]
    BY <2>1, MergeSlot
  <2> QED BY <1>5, <2>1, <2>2, <2>3 DEF Present
<1>6. TableInv'
  <2> SUFFICES ASSUME NEW n \in onDisk, NEW id \in RecordId, Present(files[n], id)
               PROVE  \/ files[n][id] = Compacted'[id]
                      \/ n < sstables'[1].name /\ Present(sstables'[1].recs, id)
    BY <1>1, <1>3 DEF TableInv, Present
  <2>1. CASE files[n][id] = Compacted[id]
    BY <1>4, <2>1
  <2>2. ASSUME NEW i \in DOMAIN sstables, n < sstables[i].name,
               Present(sstables[i].recs, id)
        PROVE  n < nextSst - 1 /\ Present(Compacted, id)
    <3>1. n \in Nat /\ sstables[i].name \in Nat /\ nextSst \in Nat
      BY <1>0 DEF Numbers, SstId
    <3> QED BY <1>1, <1>5, <2>2, <3>1
  <2> QED BY <1>1, <1>3, <2>1, <2>2 DEF SurvivalInv, TableInv
<1> QED BY <1>1, <1>2, <1>6, MaintainingSurvives

(* A file that is removed, or that its removal leaves behind, is not one   *)
(* of the open tables.                                                     *)
LEMMA RemoveSurvives ==
  ASSUME TypeInv, SurvivalInv, RemoveOld \/ RemoveFails,
         \A id \in RecordId : View'[id] = View[id]
  PROVE  SurvivalInv'
<1>1. /\ log' = log /\ synced' = synced /\ memtable' = memtable
      /\ sstables' = sstables /\ nextSst' = nextSst /\ seq' = seq
      /\ acked' = acked /\ limbo' = limbo /\ pc = "remove" /\ pc' = "remove"
      /\ op' = [op EXCEPT !.doomed = Tail(op.doomed)]
  BY DEF RemoveOld, RemoveFails, Goto, obsVars, diskVars, walVars, memVars
<1>2. op'.kind = op.kind /\ op'.recs = op.recs /\ op'.next = op.next
  BY <1>1 DEF TypeInv, TypeOK, Op
<1>3. \A n \in onDisk' : n \in onDisk /\ files'[n] = files[n]
  <2>1. CASE RemoveOld
    BY <2>1 DEF RemoveOld, TypeInv, TypeOK
  <2>2. CASE RemoveFails
    BY <2>2 DEF RemoveFails, diskVars
  <2> QED BY <2>1, <2>2
<1>4. Compacted' = Compacted
  BY <1>1 DEF Compacted
<1>5. TableInv'
  BY <1>1, <1>3, <1>4 DEF SurvivalInv, TableInv, Present
<1> QED BY <1>1, <1>2, <1>5, MaintainingSurvives

(* The log is cleared once the table holds all the memtable did.           *)
LEMMA WalClearSurvives ==
  ASSUME TypeInv, EngineInv, SurvivalInv, WalClear
  PROVE  SurvivalInv'
<1>1. /\ log' = <<>> /\ synced' = 0 /\ files' = files /\ onDisk' = onDisk
      /\ memtable' = memtable /\ sstables' = sstables /\ nextSst' = nextSst
      /\ seq' = seq /\ limbo' = limbo /\ pc = "walclear"
      /\ \/ pc' = "merge" /\ op.kind = "compact" /\ op' = op /\ acked' = acked
         \/ pc' = "idle" /\ op' = NoOp /\ acked' = AckedAfter(op)
  BY DEF WalClear, Clear, AfterFlush, Goto, ReturnOk, obsVars, memVars
<1>2. Readable' = {}
  BY <1>1 DEF Readable
<1>3. RunningInv /\ CounterInv /\ TableInv /\ ViewInv /\ TypeOK
  BY DEF SurvivalInv, TypeInv
<1>4. op'.recs = <<>> /\ DOMAIN op'.recs = {}
  BY <1>1, <1>3 DEF RunningInv, NoOp
<1>5. \A id \in RecordId : ~Present(memtable, id)
  BY <1>1 DEF EngineInv, StepInv
<1>6. RunningInv'
  BY <1>1, <1>3, <1>4 DEF RunningInv, NoOp
<1>7. CounterInv'
  <2>1. \A id \in RecordId : acked'[id].seq <= seq
    BY <1>1, <1>3, AckedCounted DEF CounterInv
  <2> QED BY <1>1, <1>2, <1>3, <1>4, <2>1 DEF CounterInv
<1>8. FrameInv'
  BY <1>1, <1>2, <1>4 DEF FrameInv
<1>9. TableInv' /\ View' = View
  BY <1>1, <1>3, SameTables
<1>10. ViewInv'
  <2>1. ASSUME NEW id \in RecordId PROVE View[id] \in Current(id)'
    <3>1. View[id] \in Current(id)
      BY <1>1, <1>3 DEF ViewInv
    <3>2. CASE pc' = "merge" /\ op' = op /\ acked' = acked
      BY <1>1, <3>1, <3>2 DEF Current, LimboAfter
    <3>3. CASE pc' = "idle" /\ Writes(op.recs, id) = {}
      BY <1>1, <1>3, <3>1, <3>3, CurrentAfterOk
    <3>4. CASE pc' = "idle" /\ Writes(op.recs, id) # {}
      BY <1>1, <1>3, <3>4, CurrentAfterOk DEF ViewInv
    <3> QED BY <1>1, <3>2, <3>3, <3>4
  <2> QED BY <1>4, <1>9, <2>1 DEF ViewInv, Writes
<1>11. LogInv'
  BY <1>1, <1>2, <1>5 DEF LogInv, Present
<1> QED BY <1>6, <1>7, <1>8, <1>9, <1>10, <1>11 DEF SurvivalInv

-----------------------------------------------------------------------------
(* Crash and recovery. *)

(* Of an id the memtable does not hold, the files of the running engine,   *)
(* in name order, answer what its tables do: what a failed flush or an     *)
(* unfinished compaction left lying about changes nothing.                 *)
LEMMA FilesAnswerAsTables ==
  ASSUME MaxSst < NameLimit, TypeInv, NameInv, TableInv, pc # "down",
         NEW id \in RecordId, ~Present(memtable, id)
  PROVE  FileSlot(id) = Compacted[id]
<1>0. Numbers
  BY TypeNumbers DEF TypeInv
<1>1. \A i \in DOMAIN sstables :
        /\ sstables[i].name \in onDisk /\ sstables[i].name \in SstId
        /\ files[sstables[i].name] = sstables[i].recs
  BY <1>0 DEF NameInv, ReadersOnDisk, Numbers
<1>2. CASE FileSlot(id) = Absent /\ \A n \in onDisk : ~Present(files[n], id)
  <2> DEFINE tables == TablesOf(sstables)
  <2>1. /\ Len(sstables) \in Nat /\ tables \in [1..Len(sstables) -> Layer]
        /\ DOMAIN sstables = 1..Len(sstables)
        /\ \A i \in DOMAIN sstables : tables[i] = sstables[i].recs
    BY TablesStack DEF TypeInv, TypeOK, TablesOf
  <2>2. Compacted = Merge(tables)
    BY DEF Compacted, TablesOf
  <2> HIDE DEF tables
  <2>3. \A i \in 1..Len(sstables) : ~Present(tables[i], id)
    BY <1>1, <1>2, <2>1
  <2> QED BY <1>2, <2>1, <2>2, <2>3, MergeSlot
<1>3. ASSUME NEW n \in onDisk, Present(files[n], id), FileSlot(id) = files[n][id],
             \A m \in onDisk : Present(files[m], id) => m = n \/ NameLess(m, n)
      PROVE  FileSlot(id) = Compacted[id]
  <2>1. ASSUME NEW i \in DOMAIN sstables, n < sstables[i].name,
               Present(sstables[i].recs, id)
        PROVE  FALSE
    <3>1. /\ n \in SstId /\ n \in Nat /\ sstables[i].name \in Nat
          /\ sstables[i].name = n \/ NameLess(sstables[i].name, n)
      BY <1>0, <1>1, <1>3, <2>1 DEF Numbers, SstId
    <3>2. sstables[i].name = n \/ sstables[i].name < n
      BY <1>1, <3>1, NamesInOrder
    <3> QED BY <2>1, <3>1, <3>2
  <2> QED BY <1>3, <2>1 DEF TableInv
<1> QED BY <1>2, <1>3, FileSlotIs DEF TypeInv

(* A crash loses nothing current: what it takes from the log was not       *)
(* synced, and what only memory held was in the log.                       *)
LEMMA CrashSurvives ==
  ASSUME MaxSst < NameLimit, TypeInv, EngineInv, SurvivalInv, Crash
  PROVE  SurvivalInv'
<1>0. Numbers /\ Readable \subseteq DOMAIN log
  BY TypeNumbers, ReadableInLog DEF TypeInv
<1>1. /\ files' = files /\ onDisk' = onDisk /\ op' = NoOp /\ acked' = acked
      /\ limbo' = LimboAfter(op) /\ pc # "down" /\ pc' = "down" /\ LoseUnsynced
  BY DEF Crash
<1>2. /\ \A i \in Readable' : i \in Readable /\ log'[i].rec = log[i].rec
      /\ \A i \in Readable : i <= synced =>
            i \in Readable' /\ log'[i] = log[i] /\ i <= synced'
      /\ \A i \in Buried : i <= synced =>
            i \in Buried' /\ i <= synced' /\ log'[i] = log[i]
  <2>1. /\ \A i \in Readable' : i \in Readable /\ log'[i].rec = log[i].rec
        /\ \A i \in Readable : i <= synced => i \in Readable' /\ log'[i] = log[i]
        /\ synced' = Len(log') /\ Len(log') \in Nat /\ DOMAIN log' = 1..Len(log')
        /\ \A i \in Buried : i <= synced =>
              i \in Buried' /\ i <= synced' /\ log'[i] = log[i]
    BY <1>1, CrashedLog DEF TypeInv, TypeOK
  <2>2. \A i \in Readable' : i <= synced'
    BY <2>1 DEF Readable, Whole
  <2> QED BY <2>1, <2>2
<1>3. \A id \in RecordId : Current(id)' = Current(id)
  BY <1>1, CurrentAfterErr
<1>4. \A id : Clean(id)' => Clean(id)
  BY <1>2 DEF Clean
<1>5. \A id : Replayable(id) => Replayable(id)'
  BY <1>2 DEF Replayable
<1>6. DOMAIN op'.recs = {} /\ op'.recs = <<>> /\ op'.kind = "none"
  BY <1>1 DEF NoOp
<1>7. RunningInv' /\ CounterInv' /\ TableInv' /\ ViewInv'
  BY <1>1, <1>6 DEF RunningInv, CounterInv, TableInv, ViewInv
<1>8. FrameInv'
  <2>1. /\ \A i \in Readable' : 0 < log'[i].rec.seq
        /\ \A i, j \in Readable' : i < j => log'[i].rec.seq < log'[j].rec.seq
    BY <1>2 DEF SurvivalInv, FrameInv
  <2> QED BY <1>1, <1>6, <2>1 DEF FrameInv
<1>9. ASSUME NEW i \in Readable', Clean(log[i].rec.id)' PROVE Kept(i)'
  <2>1. i \in Readable /\ log'[i].rec = log[i].rec
    BY <1>2
  <2>2. Clean(log'[i].rec.id)
    BY <1>4, <1>9, <2>1 DEF Clean
  <2>3. Kept(i) /\ log[i].rec.id \in RecordId
    BY <1>0, <2>1, <2>2 DEF SurvivalInv, LogInv, Numbers
  <2> QED BY <1>2, <1>3, <2>1, <2>3 DEF Kept
<1>10. ASSUME NEW id \in RecordId, Clean(id)'
       PROVE  Replayable(id)' \/ FileSlot(id)' \in Current(id)'
  <2>1. CASE Replayable(id)
    BY <1>5, <2>1
  <2>2. CASE ~Replayable(id)
    <3>1. ~Present(memtable, id)
      BY <1>1, <1>4, <1>10, <2>2 DEF SurvivalInv, LogInv
    <3>2. View[id] = FileSlot(id)
      BY <1>1, <3>1, ViewIsMemOrTables, FilesAnswerAsTables DEF SurvivalInv, EngineInv
    <3>3. FileSlot(id)' = FileSlot(id)
      BY <1>1 DEF FileSlot, Present
    <3> QED BY <1>1, <1>3, <3>2, <3>3 DEF SurvivalInv, ViewInv
  <2> QED BY <2>1, <2>2
<1>11. LogInv'
  BY <1>1, <1>9, <1>10 DEF LogInv
<1> QED BY <1>7, <1>8, <1>11 DEF SurvivalInv

(* open() makes what it finds the new state of every id: the log's record  *)
(* where replay yields one, else the one of the last file that has one.    *)
LEMMA OpenSurvives ==
  ASSUME MaxSst < NameLimit, TypeInv, TypeInv', EngineInv, SurvivalInv, Open
  PROVE  SurvivalInv'
<1>0. Numbers /\ Readable \subseteq DOMAIN log /\ TypeOK
  BY TypeNumbers, ReadableInLog DEF TypeInv
<1>1. /\ log' = log /\ synced' = synced /\ files' = files /\ onDisk' = onDisk
      /\ op' = op /\ pc = "down" /\ pc' = "idle" /\ memtable' = Replayed
      /\ seq' = Newest(SeqsOnDisk \cup {0}) /\ acked' = Recovered /\ limbo' = {}
  BY DEF Open, diskVars, walVars
<1>2. op' = NoOp /\ synced = Len(log) /\ DOMAIN op'.recs = {} /\ op'.recs = <<>>
  <2>1. op = NoOp /\ synced = Len(log)
    BY <1>1 DEF EngineInv, StepInv
  <2> QED BY <1>1, <2>1 DEF NoOp
<1>3. Readable' = Readable
  BY <1>1, SameLog
<1>4. RunningInv'
  BY <1>1, <1>2 DEF RunningInv, NoOp
<1>5. CounterInv'
  <2>1. seq' \in Nat /\ \A s \in SeqsOnDisk : s <= seq'
    BY <1>0, <1>1, SeqsOnDiskType DEF SeqNo
  <2>2. \A i \in Readable : log[i].rec.seq <= seq'
    BY <2>1 DEF SeqsOnDisk
  <2>3. ASSUME NEW id \in RecordId
        PROVE  Replayed[id].seq <= seq' /\ FileSlot(id).seq <= seq'
    <3>1. Replayed[id].seq <= seq'
      BY <1>0, <2>1, <2>2, <2>3, ReplayedIs
    <3>2. \A n \in onDisk : files[n][id].seq <= seq'
      BY <2>1 DEF SeqsOnDisk
    <3>3. FileSlot(id).seq <= seq'
      BY <1>0, <2>1, <3>2, FileSlotIs DEF Absent
    <3> QED BY <3>1, <3>3
  <2>4. \A id \in RecordId : memtable'[id].seq <= seq' /\ acked'[id].seq <= seq'
    BY <1>1, <2>3 DEF Recovered
  <2> QED BY <1>1, <1>2, <1>3, <2>2, <2>4 DEF CounterInv
<1>6. FrameInv'
  BY <1>1, <1>2, <1>3 DEF SurvivalInv, FrameInv
<1>7. PICK o \in [1..Cardinality(onDisk) -> onDisk] :
         /\ Cardinality(onDisk) \in Nat
         /\ DOMAIN sstables' = DOMAIN o /\ DOMAIN o = 1..Cardinality(onDisk)
         /\ \A i \in DOMAIN o : /\ sstables'[i].name = o[i]
                               /\ sstables'[i].recs = files[o[i]]
                               /\ o[i] \in onDisk /\ o[i] \in SstId
         /\ \A n \in onDisk : \E i \in DOMAIN o : o[i] = n
         /\ \A i, j \in DOMAIN o : i < j => o[i] < o[j]
  BY LoadedTables
<1>8. ASSUME NEW id \in RecordId
      PROVE  \/ Compacted'[id] = Absent /\ \A n \in onDisk : ~Present(files[n], id)
             \/ \E j \in DOMAIN o : /\ Present(files[o[j]], id)
                                    /\ Compacted'[id] = files[o[j]][id]
                                    /\ \A i \in DOMAIN o :
                                         Present(files[o[i]], id) => i = j \/ i < j
  <2> DEFINE N == Cardinality(onDisk)
             tables == TablesOf(sstables')
  <2>1. tables \in [1..N -> Layer] /\ \A i \in 1..N : tables[i] = files[o[i]]
    <3>1. files \in [SstId -> Layer]
      BY <1>0 DEF TypeOK
    <3> QED BY <1>7, <3>1 DEF TablesOf
  <2>2. Compacted' = Merge(tables)
    BY DEF Compacted, TablesOf
  <2> HIDE DEF tables
  <2>3. \/ /\ Compacted'[id] = Absent
           /\ \A i \in 1..N : ~Present(tables[i], id)
        \/ \E j \in 1..N : /\ Present(tables[j], id)
                           /\ Compacted'[id] = tables[j][id]
                           /\ \A i \in 1..N : Present(tables[i], id) => i <= j
    BY <1>7, <2>1, <2>2, MergeSlot
  <2>4. CASE Compacted'[id] = Absent /\ \A i \in 1..N : ~Present(tables[i], id)
    BY <1>7, <2>1, <2>4
  <2>5. ASSUME NEW j \in 1..N, Present(tables[j], id), Compacted'[id] = tables[j][id],
               \A i \in 1..N : Present(tables[i], id) => i <= j
        PROVE  /\ Present(files[o[j]], id) /\ Compacted'[id] = files[o[j]][id]
               /\ \A i \in DOMAIN o : Present(files[o[i]], id) => i = j \/ i < j
    BY <1>7, <2>1, <2>5
  <2> QED BY <1>7, <2>3, <2>4, <2>5
<1>9. TableInv'
  <2> SUFFICES ASSUME NEW n \in onDisk, NEW id \in RecordId, Present(files[n], id)
               PROVE  \/ files[n][id] = Compacted'[id]
                      \/ \E i \in DOMAIN sstables' :
                            n < sstables'[i].name /\ Present(sstables'[i].recs, id)
    BY <1>1 DEF TableInv, Present
  <2>1. PICK j \in DOMAIN o : /\ Present(files[o[j]], id)
                              /\ Compacted'[id] = files[o[j]][id]
                              /\ \A i \in DOMAIN o :
                                   Present(files[o[i]], id) => i = j \/ i < j
    BY <1>8
  <2>2. PICK k \in DOMAIN o : o[k] = n
    BY <1>7
  <2> QED BY <1>7, <2>1, <2>2
<1>10. ASSUME NEW id \in RecordId PROVE Compacted'[id] = FileSlot(id)
  <2>1. CASE Compacted'[id] = Absent /\ \A n \in onDisk : ~Present(files[n], id)
    BY <1>0, <2>1, FileSlotIs
  <2>2. ASSUME NEW j \in DOMAIN o, Present(files[o[j]], id),
               Compacted'[id] = files[o[j]][id],
               \A i \in DOMAIN o : Present(files[o[i]], id) => i = j \/ i < j
        PROVE  Compacted'[id] = FileSlot(id)
    <3>1. PICK n \in onDisk : /\ Present(files[n], id) /\ FileSlot(id) = files[n][id]
                              /\ \A m \in onDisk :
                                   Present(files[m], id) => m = n \/ NameLess(m, n)
      BY <1>0, <1>7, <2>2, FileSlotIs
    <3>2. PICK k \in DOMAIN o : o[k] = n
      BY <1>7
    <3>3. CASE k < j
      <4>1. o[k] < o[j] /\ (o[j] = n \/ NameLess(o[j], n))
        BY <1>7, <2>2, <3>1, <3>3
      <4>2. o[j] = n \/ o[j] < n
        BY <1>7, <3>2, <4>1, NamesInOrder
      <4>3. o[j] \in Nat /\ o[k] \in Nat
        BY <1>7 DEF SstId
      <4> QED BY <3>2, <4>1, <4>2, <4>3
    <3> QED BY <2>2, <3>1, <3>2, <3>3
  <2> QED BY <1>8, <2>1, <2>2
<1>11. \A id \in RecordId : View'[id] = Recovered[id]
  BY <1>1, <1>10, NextViewIs DEF Recovered
<1>12. \A id \in RecordId : Recovered[id] \in Current(id)'
  BY <1>1 DEF Current
<1>13. ViewInv'
  BY <1>2, <1>11, <1>12 DEF ViewInv, Writes
<1>14. ASSUME NEW id \in RecordId, Present(Replayed, id)
       PROVE  \E j \in Readable : /\ log[j].rec.id = id /\ j <= synced
                                  /\ SlotOf(log[j].rec) \in Current(id)'
                                  /\ \A i \in Readable : log[i].rec.id = id =>
                                        i = j \/ log[i].rec.seq < log[j].rec.seq
  <2>1. PICK j \in Readable : /\ log[j].rec.id = id
                              /\ Replayed[id] = SlotOf(log[j].rec)
                              /\ Replayed[id].seq = log[j].rec.seq
    BY <1>0, <1>14, ReplayedIs DEF Present
  <2>2. SlotOf(log[j].rec) \in Current(id)'
    BY <1>12, <1>14, <2>1 DEF Recovered
  <2>3. j \in Nat /\ j <= synced
    BY <1>0, <1>2 DEF Numbers
  <2>4. ASSUME NEW i \in Readable, log[i].rec.id = id
        PROVE  i = j \/ log[i].rec.seq < log[j].rec.seq
    <3>1. log[i].rec.seq <= log[j].rec.seq
      BY <1>0, <2>1, <2>4, ReplayedIs
    <3>2. CASE j < i
      <4>1. log[j].rec.seq < log[i].rec.seq
        BY <3>2 DEF SurvivalInv, FrameInv
      <4> QED BY <1>0, <3>1, <4>1 DEF Numbers
    <3>3. CASE i < j
      BY <3>3 DEF SurvivalInv, FrameInv
    <3> QED BY <1>0, <3>2, <3>3 DEF Numbers
  <2> QED BY <2>1, <2>2, <2>3, <2>4
<1>15. LogInv'
  <2>1. ASSUME NEW i \in Readable PROVE Kept(i)'
    <3>1. log[i].rec.id \in RecordId /\ Present(Replayed, log[i].rec.id)
      <4>1. log[i].rec.id \in RecordId /\ log[i].rec.seq \in Nat /\ log[i].rec.seq > 0
        BY <1>0 DEF SurvivalInv, FrameInv, Numbers
      <4> QED BY <1>0, <4>1, ReplayedIs DEF Present
    <3>2. PICK id \in RecordId : id = log[i].rec.id
      BY <3>1
    <3>3. PICK j \in Readable : /\ log[j].rec.id = id /\ j <= synced
                                /\ SlotOf(log[j].rec) \in Current(id)'
                                /\ \A k \in Readable : log[k].rec.id = id =>
                                      k = j \/ log[k].rec.seq < log[j].rec.seq
      BY <1>14, <3>1, <3>2
    <3>4. CASE i = j
      BY <1>1, <3>2, <3>3, <3>4 DEF Kept, Current
    <3>5. CASE log[i].rec.seq < log[j].rec.seq
      BY <1>1, <1>3, <3>2, <3>3, <3>5 DEF Kept
    <3> QED BY <3>2, <3>3, <3>4, <3>5
  <2>2. ASSUME NEW id \in RecordId, Present(Replayed, id) PROVE Replayable(id)'
    BY <1>1, <1>3, <1>14, <2>2 DEF Replayable
  <2> QED BY <1>1, <1>3, <2>1, <2>2 DEF LogInv, Present
<1> QED BY <1>4, <1>5, <1>6, <1>9, <1>13, <1>15 DEF SurvivalInv

-----------------------------------------------------------------------------
(* SurvivalInv is inductive. *)

LEMMA SurvivalInit == Init => SurvivalInv
<1> SUFFICES ASSUME Init PROVE SurvivalInv
  OBVIOUS
<1>1. /\ log = <<>> /\ synced = 0 /\ onDisk = {} /\ pc = "down"
      /\ op = NoOp /\ acked = EmptyLayer /\ limbo = {}
  BY DEF Init, WalInit
<1>2. DOMAIN op.recs = {} /\ op.recs = <<>> /\ op.kind = "none" /\ Readable = {}
  BY <1>1 DEF NoOp, Readable
<1>3. \A id \in RecordId : FileSlot(id) = Absent /\ Absent \in Current(id)
  BY <1>1 DEF FileSlot, Current, EmptyLayer
<1> QED BY <1>1, <1>2, <1>3
        DEF SurvivalInv, RunningInv, CounterInv, FrameInv, TableInv, ViewInv, LogInv

LEMMA SurvivalStutter ==
  ASSUME SurvivalInv, UNCHANGED vars
  PROVE  SurvivalInv'
<1>1. /\ log' = log /\ synced' = synced /\ files' = files /\ onDisk' = onDisk
      /\ memtable' = memtable /\ sstables' = sstables /\ nextSst' = nextSst
      /\ seq' = seq /\ acked' = acked /\ limbo' = limbo /\ pc' = pc /\ op' = op
  BY DEF vars, obsVars, diskVars, walVars, memVars
<1>2. Readable' = Readable /\ Buried' = Buried
  BY <1>1, SameLog
<1>3. RunningInv' /\ CounterInv'
  BY <1>1, <1>2 DEF SurvivalInv, RunningInv, CounterInv
<1>4. FrameInv'
  BY <1>1, <1>2 DEF SurvivalInv, FrameInv, Whole, FrameWords
<1>5. TableInv'
  BY <1>1, SameTables DEF SurvivalInv, TableInv
<1>6. \A id : Current(id)' = Current(id) /\ (Clean(id)' <=> Clean(id))
              /\ (Replayable(id)' <=> Replayable(id)) /\ FileSlot(id)' = FileSlot(id)
  BY <1>1, <1>2 DEF Current, LimboAfter, Clean, Replayable, FileSlot, Present
<1>7. ViewInv'
  BY <1>1, <1>6, SameTables DEF SurvivalInv, ViewInv
<1>8. \A i : Kept(i)' <=> Kept(i)
  BY <1>1, <1>2, <1>6 DEF Kept
<1>9. LogInv'
  BY <1>1, <1>2, <1>6, <1>8 DEF SurvivalInv, LogInv, Present
<1> QED BY <1>3, <1>4, <1>5, <1>7, <1>9 DEF SurvivalInv

LEMMA SurvivalWriteStep ==
  ASSUME TypeInv, TypeInv', SurvivalInv, Write \/ WriteStep
  PROVE  SurvivalInv'
<1>1. CASE Write
  <2>1. PICK recs \in Seq(Record) :
           BeginWrite(recs) /\ \A k \in DOMAIN recs : recs[k].seq = seq + k
    BY <1>1, WriteBegins DEF TypeInv
  <2> QED BY <2>1, BeginWriteSurvives
<1>2. CASE SyncFails
  BY <1>2, ErrSurvives DEF SyncFails, diskVars, walVars, memVars
<1> QED BY <1>1, <1>2, AppendFrameSurvives, AppendFailsSurvives, SyncSurvives,
           ApplySurvives DEF WriteStep

LEMMA SurvivalFlushStep ==
  ASSUME TypeInv, TypeInv', EngineInv, SurvivalInv, Flush \/ Compact \/ FlushStep
  PROVE  SurvivalInv'
<1>1. ASSUME NEW kind \in {"flush", "compact"}, Begin(kind) PROVE SurvivalInv'
  <2>1. op = NoOp /\ pc = "idle"
    BY <1>1 DEF Begin, SurvivalInv, RunningInv
  <2>2. op' = [kind |-> kind, recs |-> <<>>, next |-> 1, doomed |-> <<>>]
    BY <1>1 DEF Begin, NoOp
  <2>3. op.kind # "write" /\ op'.kind \in {"flush", "compact"} /\ op'.recs = <<>>
    BY <2>1, <2>2 DEF NoOp
  <2> QED BY <1>1, <2>1, <2>3, PassingSurvives
          DEF Begin, Goto, diskVars, walVars, memVars, obsVars
<1>2. CASE FlushNothing
  <2>1. CASE op.kind = "compact"
    BY <1>2, <2>1, PassingSurvives DEF FlushNothing, AfterFlush, Goto, diskVars, walVars,
       memVars, obsVars, SurvivalInv, RunningInv
  <2>2. CASE op.kind # "compact"
    BY <1>2, <2>2, OkSurvives DEF FlushNothing, AfterFlush, diskVars, walVars, memVars
  <2> QED BY <2>1, <2>2
<1>3. CASE FlushWriteFails \/ InstallFails \/ WalClearFails
  BY <1>3, ErrSurvives
     DEF FlushWriteFails, InstallFails, WalClearFails, diskVars, walVars, memVars
<1>4. CASE FlushWrite
  <2>1. \A id \in RecordId : View'[id] = View[id]
    BY <1>4, MaintenanceView DEF FlushWrite, Goto, Maintaining, Next, FlushStep
  <2> QED BY <1>4, <2>1, FlushWriteSurvives
<1>5. CASE Install
  <2>1. \A id \in RecordId : View'[id] = View[id]
    BY <1>5, MaintenanceView DEF Install, Goto, Maintaining, Next, FlushStep
  <2> QED BY <1>5, <2>1, InstallSurvives
<1>6. CASE WalClear
  BY <1>6, WalClearSurvives
<1> QED BY <1>1, <1>2, <1>3, <1>4, <1>5, <1>6 DEF Flush, Compact, FlushStep

LEMMA SurvivalCompactStep ==
  ASSUME TypeInv, TypeInv', EngineInv, SurvivalInv, CompactStep
  PROVE  SurvivalInv'
<1>1. CASE NothingToMerge \/ CompactDone
  <2>1. op.recs = <<>>
    BY <1>1 DEF NothingToMerge, CompactDone, SurvivalInv, RunningInv
  <2> QED BY <1>1, <2>1, OkSurvives
          DEF NothingToMerge, CompactDone, diskVars, walVars, memVars
<1>2. CASE MergeFails \/ SwapFails
  BY <1>2, ErrSurvives DEF MergeFails, SwapFails, diskVars, walVars, memVars
<1>3. CASE MergeTables \/ Swap \/ RemoveOld \/ RemoveFails
  <2>1. Maintaining /\ pc' # "down"
    BY <1>3 DEF MergeTables, Swap, RemoveOld, RemoveFails, Goto, Maintaining
  <2>2. \A id \in RecordId : View'[id] = View[id]
    BY <2>1, MaintenanceView DEF Next
  <2> QED BY <1>3, <2>2, MergeTablesSurvives, SwapSurvives, RemoveSurvives
<1> QED BY <1>1, <1>2, <1>3 DEF CompactStep

(* No step leaves SurvivalInv.                                             *)
LEMMA SurvivalStep ==
  ASSUME MaxSst < NameLimit, TypeInv, TypeInv', EngineInv, SurvivalInv, [Next]_vars
  PROVE  SurvivalInv'
BY SurvivalStutter, SurvivalWriteStep, SurvivalFlushStep, SurvivalCompactStep,
   CrashSurvives, OpenSurvives DEF Next, Restart, Read, OpenFails

(* FullInv is what every reachable state satisfies: the engine's tables,   *)
(* files, log and memtable agree on what an id's last write is, through    *)
(* every failure and crash.                                                *)
THEOREM FullInvariant ==
  ASSUME MaxSst < NameLimit
  PROVE  Spec => []FullInv
<1>1. Init => TypeInv /\ EngineInv /\ SurvivalInv
  BY TypeInit, InvInit, SurvivalInit
<1>2. TypeInv /\ EngineInv /\ SurvivalInv /\ [Next]_vars =>
        TypeInv' /\ EngineInv' /\ SurvivalInv'
  BY TypeStep, InvStep, SurvivalStep
<1>3. TypeInv /\ EngineInv /\ SurvivalInv => FullInv
  BY DEF FullInv, TypeInv
<1> QED BY <1>1, <1>2, <1>3, PTL DEF Spec

-----------------------------------------------------------------------------
(* What readers and the next open() find. *)

(* A read returns the last acknowledged write of the id or a later one,    *)
(* whatever flush, compaction or failed operation came in between.         *)
THEOREM ReadsAlwaysSeeAcked ==
  ASSUME MaxSst < NameLimit
  PROVE  Spec => []ReadsSeeAcked
<1>1. GetMatchesScan /\ FullInv => ReadsSeeAcked
  <2> SUFFICES ASSUME GetMatchesScan, FullInv, pc # "down", NEW id \in RecordId
               PROVE  Seen(Get(id)) \in Survivors(id)
    BY DEF ReadsSeeAcked
  <2>1. Get(id) = View[id] /\ View[id] \in Current(id)
    BY DEF GetMatchesScan, FullInv, SurvivalInv, ViewInv
  <2> QED BY <2>1 DEF Survivors
<1> QED BY <1>1, GetAlwaysMatchesScan, FullInvariant, PTL

(* If the process died now and open() succeeded, it would bring back every *)
(* id as its last acknowledged write or a later one, except an id with a   *)
(* record behind a torn frame.                                             *)
LEMMA RecoveredIsCurrent ==
  ASSUME MaxSst < NameLimit, TypeInv, EngineInv, SurvivalInv,
         NEW id \in RecordId, Clean(id)
  PROVE  Recovered[id] \in Current(id)
<1>0. Numbers /\ Readable \subseteq DOMAIN log /\ TypeOK
  BY TypeNumbers, ReadableInLog DEF TypeInv
<1>1. CASE Present(Replayed, id)
  <2>1. PICK i \in Readable : /\ log[i].rec.id = id
                              /\ Replayed[id] = SlotOf(log[i].rec)
                              /\ Replayed[id].seq = log[i].rec.seq
    BY <1>0, <1>1, ReplayedIs DEF Present
  <2>2. Kept(i)
    BY <2>1 DEF SurvivalInv, LogInv
  <2>3. ASSUME NEW j \in Readable, log[j].rec.id = id,
               log[i].rec.seq < log[j].rec.seq
        PROVE  FALSE
    <3>1. log[j].rec.seq <= log[i].rec.seq
      BY <1>0, <2>1, <2>3, ReplayedIs
    <3> QED BY <1>0, <2>3, <3>1 DEF Numbers
  <2>4. SlotOf(log[i].rec) \in Current(id)
    BY <2>1, <2>2, <2>3 DEF Kept
  <2> QED BY <1>1, <2>1, <2>4 DEF Recovered
<1>2. CASE ~Present(Replayed, id)
  <2>1. Recovered[id] = FileSlot(id)
    BY <1>2 DEF Recovered
  <2>2. ~Replayable(id)
    <3> SUFFICES ASSUME NEW i \in Readable, log[i].rec.id = id PROVE FALSE
      BY DEF Replayable
    <3>1. 0 < log[i].rec.seq /\ log[i].rec.seq <= Replayed[id].seq
      BY <1>0, ReplayedIs DEF SurvivalInv, FrameInv
    <3>2. Replayed[id].seq \in Nat /\ log[i].rec.seq \in Nat
      BY <1>0, ReplayedIs DEF Numbers
    <3> QED BY <1>2, <3>1, <3>2 DEF Present
  <2>3. CASE pc = "down"
    BY <2>1, <2>2, <2>3 DEF SurvivalInv, LogInv
  <2>4. CASE pc # "down"
    <3>1. ~Present(memtable, id)
      BY <2>2, <2>4 DEF SurvivalInv, LogInv
    <3>2. View[id] = FileSlot(id)
      BY <2>4, <3>1, ViewIsMemOrTables, FilesAnswerAsTables DEF SurvivalInv, EngineInv
    <3> QED BY <2>1, <2>4, <3>2 DEF SurvivalInv, ViewInv
  <2> QED BY <2>3, <2>4
<1> QED BY <1>1, <1>2

(* No crash and no failed operation takes an acknowledged write away, but  *)
(* for one of an id that has a record behind a torn frame.                 *)
THEOREM AckedAlwaysSurvives ==
  ASSUME MaxSst < NameLimit
  PROVE  Spec => []AckedSurvives
<1>1. TypeInv /\ EngineInv /\ FullInv => AckedSurvives
  <2> SUFFICES ASSUME TypeInv, EngineInv, FullInv, NEW id \in RecordId,
                      ~ \E i \in Buried : log[i].rec.id = id
               PROVE  Seen(Recovered[id]) \in Survivors(id)
    BY DEF AckedSurvives
  <2>1. Clean(id)
    BY DEF Clean
  <2> QED BY <2>1, RecoveredIsCurrent DEF FullInv, Survivors
<1> QED BY <1>1, EngineInvariant, FullInvariant, PTL

-----------------------------------------------------------------------------
(* The engine implements the abstract store.                               *)

(* The abstract store's variables, as the refinement mapping has them.     *)
Up == pc # "down"
Safe == [id \in RecordId |-> Seen(acked[id])]
Pending == [i \in DOMAIN op.recs |-> WriteFrom(op.recs[i])]
Unsettled == {WriteFrom(r) : r \in {x \in UNION limbo : x.seq > acked[x.id].seq}}

(* The abstract store's steps in those terms.                              *)
LEMMA StoreStep ==
  ASSUME \/ /\ Up' = Up /\ Visible' = Visible /\ Safe' = Safe
            /\ Pending' = Pending /\ Unsettled' = Unsettled
         \/ /\ Up /\ Pending = <<>> /\ Pending' \in Seq(KV!WriteOf)
            /\ Up' = Up /\ Visible' = Visible /\ Safe' = Safe /\ Unsettled' = Unsettled
         \/ /\ Up /\ Visible' = KV!Update(Visible, Pending)
            /\ Up' = Up /\ Safe' = Safe /\ Pending' = Pending /\ Unsettled' = Unsettled
         \/ /\ Up /\ Visible' = KV!Update(Visible, Pending)
            /\ Safe' = KV!Update(Safe, Pending)
            /\ Unsettled' = {w \in Unsettled : \A v \in KV!WritesIn(Pending) : v.id # w.id}
            /\ Pending' = <<>> /\ Up' = Up
         \/ /\ Up /\ Unsettled' = Unsettled \cup KV!WritesIn(Pending)
            /\ Pending' = <<>> /\ Up' = Up /\ Visible' = Visible /\ Safe' = Safe
         \/ /\ Up /\ ~Up' /\ Visible' = [id \in RecordId |-> Absent]
            /\ Unsettled' = Unsettled \cup KV!WritesIn(Pending)
            /\ Pending' = <<>> /\ Safe' = Safe
         \/ /\ ~Up /\ Up' /\ Visible' \in [RecordId -> Slot]
            /\ \/ Buried # {}
               \/ \A id \in RecordId :
                     Visible'[id] \in {Safe[id]} \cup
                        {w.value : w \in {x \in Unsettled : x.id = id}}
            /\ Safe' = Visible' /\ Unsettled' = {} /\ Pending' = Pending
  PROVE  KV!Next
<1>1. (Buried # {})' \in BOOLEAN
  OBVIOUS
<1> QED BY <1>1 DEF KV!Next, KV!Start, KV!TakeEffect, KV!ReturnOk, KV!ReturnErr,
                    KV!Crash, KV!Recover, Up, Safe, Pending, Unsettled

(* Applying the running write to a map sets each id it writes to what the  *)
(* last of its records of that id says.                                    *)
LEMMA UpdateSlot ==
  ASSUME TypeInv, RunningInv, NEW m, NEW id \in RecordId
  PROVE  KV!Update(m, Pending)[id] =
            IF Writes(op.recs, id) = {} THEN m[id]
            ELSE Seen(SlotOf(op.recs[Winner(op.recs, id)]))
<1> DEFINE w == Winner(op.recs, id)
           W == Writes(op.recs, id)
           S == {i \in DOMAIN Pending : Pending[i].id = id}
           last == CHOOSE i \in S : \A j \in S : j <= i
<1>0. Numbers
  BY TypeNumbers DEF TypeInv
<1>1. /\ S = W
      /\ \A i \in W : Pending[i].value = Seen(SlotOf(op.recs[i]))
  BY DEF Pending, WriteFrom, Writes
<1>2. KV!Update(m, Pending)[id] = IF S = {} THEN m[id] ELSE Pending[last].value
  BY DEF KV!Update
<1> HIDE DEF S
<1>3. ASSUME W # {} PROVE last = w /\ w \in W
  <2>1. w \in W /\ \A k \in W : k = w \/ k < w
    BY <1>3, RunningWinner DEF TypeInv, Writes
  <2>2. \A k \in W : k \in Nat
    BY <1>0 DEF Writes, Numbers
  <2> HIDE DEF w, W
  <2>3. \A j \in W : j <= w
    BY <2>1, <2>2
  <2>4. last \in W /\ \A j \in W : j <= last
    BY <1>1, <2>1, <2>3
  <2> QED BY <2>1, <2>2, <2>4
<1> QED BY <1>1, <1>2, <1>3

LEMMA UpdateIs ==
  ASSUME TypeInv, RunningInv, NEW m
  PROVE  KV!Update(m, Pending) =
            [id \in RecordId |->
               IF Writes(op.recs, id) = {} THEN m[id]
               ELSE Seen(SlotOf(op.recs[Winner(op.recs, id)]))]
<1>1. KV!Update(m, Pending) = [id \in RecordId |-> KV!Update(m, Pending)[id]]
  BY DEF KV!Update
<1> QED BY <1>1, UpdateSlot

(* No running write, nothing pending. *)
LEMMA NothingPending == op.recs = <<>> => Pending = <<>>
BY DEF Pending

(* An operation that returns Err or is cut off leaves its writes unsettled. *)
LEMMA CutShort ==
  ASSUME TypeInv, RunningInv, limbo' = LimboAfter(op), acked' = acked, op' = NoOp
  PROVE  /\ Unsettled' = Unsettled \cup KV!WritesIn(Pending)
         /\ Pending' = <<>> /\ Safe' = Safe
<1>0. Numbers
  BY TypeNumbers DEF TypeInv
<1>1. Pending' = <<>>
  BY DEF Pending, NoOp
<1>2. Safe' = Safe
  BY DEF Safe
<1>3. KV!WritesIn(Pending) = {WriteFrom(op.recs[i]) : i \in DOMAIN op.recs}
  BY DEF KV!WritesIn, Pending
<1>4. \A k \in DOMAIN op.recs : op.recs[k].seq > acked[op.recs[k].id].seq
  BY <1>0 DEF RunningInv, Numbers
<1>5. \A x : x \in UNION limbo' <=>
               x \in UNION limbo \/ \E k \in DOMAIN op.recs : x = op.recs[k]
  <2>1. CASE op.kind = "write"
    <3> DEFINE written == {op.recs[i] : i \in DOMAIN op.recs}
    <3>1. limbo' = limbo \cup {written}
      BY <2>1 DEF LimboAfter
    <3>2. \A x : x \in written <=> \E k \in DOMAIN op.recs : x = op.recs[k]
      OBVIOUS
    <3> HIDE DEF written
    <3> QED BY <3>1, <3>2
  <2>2. CASE op.kind # "write"
    BY <2>2 DEF LimboAfter, RunningInv
  <2> QED BY <2>1, <2>2
<1>6. Unsettled' = {WriteFrom(r) : r \in {x \in UNION limbo' : x.seq > acked[x.id].seq}}
  BY DEF Unsettled, WriteFrom
<1> QED BY <1>1, <1>2, <1>3, <1>4, <1>5, <1>6 DEF Unsettled

(* One that returns Ok settles them, and those it replaces.                *)
LEMMA Settle ==
  ASSUME TypeInv, RunningInv, limbo' = limbo, acked' = AckedAfter(op), op' = NoOp
  PROVE  /\ Safe' = KV!Update(Safe, Pending)
         /\ Unsettled' = {w \in Unsettled : \A v \in KV!WritesIn(Pending) : v.id # w.id}
         /\ Pending' = <<>>
<1>0. Numbers
  BY TypeNumbers DEF TypeInv
<1>1. Pending' = <<>>
  BY DEF Pending, NoOp
<1>2. \A id \in RecordId :
        acked'[id] = IF Writes(op.recs, id) = {} THEN acked[id]
                     ELSE SlotOf(op.recs[Winner(op.recs, id)])
  BY AckedAfterIs DEF TypeInv
<1>3. Safe' = KV!Update(Safe, Pending)
  BY <1>2, UpdateIs DEF Safe
<1>4. ASSUME NEW x \in UNION limbo
      PROVE  /\ x.id \in RecordId /\ WriteFrom(x).id = x.id
             /\ x.seq > acked'[x.id].seq <=>
                  x.seq > acked[x.id].seq /\ Writes(op.recs, x.id) = {}
  <2>1. x.id \in RecordId /\ x.seq \in Nat
    BY DEF TypeInv, TypeOK, Record, SeqNo
  <2>2. CASE Writes(op.recs, x.id) = {}
    BY <1>2, <2>1, <2>2 DEF WriteFrom
  <2>3. CASE Writes(op.recs, x.id) # {}
    <3> DEFINE w == Winner(op.recs, x.id)
    <3>1. w \in DOMAIN op.recs
      BY <2>1, <2>3, RunningWinner DEF TypeInv
    <3>2. acked'[x.id] = SlotOf(op.recs[w])
      BY <1>2, <2>1, <2>3
    <3> HIDE DEF w
    <3>3. x.seq < op.recs[w].seq /\ op.recs[w].seq \in Nat
      BY <1>0, <3>1 DEF RunningInv, Numbers
    <3> QED BY <2>1, <2>3, <3>2, <3>3 DEF WriteFrom, SlotOf
  <2> QED BY <2>2, <2>3
<1>5. ASSUME NEW x \in UNION limbo
      PROVE  Writes(op.recs, x.id) = {} <=>
                \A v \in KV!WritesIn(Pending) : v.id # WriteFrom(x).id
  <2>1. KV!WritesIn(Pending) = {WriteFrom(op.recs[i]) : i \in DOMAIN op.recs}
    BY DEF KV!WritesIn, Pending
  <2>2. \A v \in KV!WritesIn(Pending) : \E i \in DOMAIN op.recs : v.id = op.recs[i].id
    BY <2>1 DEF WriteFrom
  <2>3. ASSUME NEW i \in DOMAIN op.recs
        PROVE  \E v \in KV!WritesIn(Pending) : v.id = op.recs[i].id
    <3>1. WriteFrom(op.recs[i]) \in KV!WritesIn(Pending)
      BY <2>1
    <3>2. WriteFrom(op.recs[i]).id = op.recs[i].id
      BY DEF WriteFrom
    <3> QED BY <3>1, <3>2
  <2> QED BY <1>4, <2>2, <2>3 DEF Writes
<1>6. Unsettled' = {WriteFrom(r) : r \in {x \in UNION limbo : x.seq > acked'[x.id].seq}}
  BY DEF Unsettled, WriteFrom
<1>7. Unsettled' = {w \in Unsettled : \A v \in KV!WritesIn(Pending) : v.id # w.id}
  <2>1. \A w : w \in Unsettled <=>
                 \E x \in UNION limbo : x.seq > acked[x.id].seq /\ w = WriteFrom(x)
    BY DEF Unsettled
  <2>2. \A w : w \in Unsettled' <=>
                 \E x \in UNION limbo : x.seq > acked'[x.id].seq /\ w = WriteFrom(x)
    BY <1>6
  <2>3. \A w : w \in Unsettled' <=>
                 w \in Unsettled /\ \A v \in KV!WritesIn(Pending) : v.id # w.id
    <3> TAKE w
    <3>1. ASSUME NEW x \in UNION limbo, w = WriteFrom(x)
          PROVE  x.seq > acked'[x.id].seq <=>
                    /\ x.seq > acked[x.id].seq
                    /\ \A v \in KV!WritesIn(Pending) : v.id # w.id
      BY <1>4, <1>5, <3>1
    <3>2. w \in Unsettled' =>
            w \in Unsettled /\ \A v \in KV!WritesIn(Pending) : v.id # w.id
      BY <2>1, <2>2, <3>1
    <3>3. w \in Unsettled /\ (\A v \in KV!WritesIn(Pending) : v.id # w.id) =>
            w \in Unsettled'
      BY <2>1, <2>2, <3>1
    <3> QED BY <3>2, <3>3
  <2> QED BY <2>3
<1> QED BY <1>1, <1>3, <1>7

(* A step that readers, callers and restarts cannot tell from none.        *)
LEMMA HiddenStep ==
  ASSUME pc # "down", pc' # "down", \A id \in RecordId : View'[id] = View[id],
         acked' = acked, limbo' = limbo, op'.recs = op.recs
  PROVE  KV!Next
<1>1. Visible' = Visible /\ Up' = Up
  BY DEF Visible, Up
<1>2. Safe' = Safe /\ Unsettled' = Unsettled /\ Pending' = Pending
  BY DEF Safe, Unsettled, Pending, WriteFrom
<1> QED BY <1>1, <1>2, StoreStep

(* A step that returns Err. *)
LEMMA ErrStep ==
  ASSUME TypeInv, RunningInv, pc # "down", ReturnErr,
         memtable' = memtable, sstables' = sstables
  PROVE  KV!Next
<1>1. /\ op' = NoOp /\ pc' = "idle" /\ acked' = acked /\ limbo' = LimboAfter(op)
  BY DEF ReturnErr
<1>2. View' = View
  BY DEF View, Levels
<1>3. Visible' = Visible /\ Up' = Up /\ Up
  BY <1>1, <1>2 DEF Visible, Up
<1> QED BY <1>1, <1>3, CutShort, StoreStep

(* A step that makes the running write visible, returns Ok for one that    *)
(* already is, or both.                                                    *)
LEMMA EffectStep ==
  ASSUME TypeInv, RunningInv, pc # "down", pc' # "down", limbo' = limbo,
         \/ op' = op /\ acked' = acked
         \/ op' = NoOp /\ acked' = AckedAfter(op),
         \A id \in RecordId :
            View'[id] = IF Writes(op.recs, id) = {} THEN View[id]
                        ELSE SlotOf(op.recs[Winner(op.recs, id)])
  PROVE  KV!Next
<1>1. Visible' = KV!Update(Visible, Pending) /\ Up' = Up /\ Up
  BY UpdateIs DEF Visible, Up
<1>2. CASE op' = op /\ acked' = acked
  <2>1. Safe' = Safe /\ Unsettled' = Unsettled /\ Pending' = Pending
    BY <1>2 DEF Safe, Unsettled, Pending, WriteFrom
  <2> QED BY <1>1, <2>1, StoreStep
<1>3. CASE op' = NoOp /\ acked' = AckedAfter(op)
  BY <1>1, <1>3, Settle, StoreStep
<1> QED BY <1>2, <1>3

(* A return with Ok long after the write was applied. *)
LEMMA OkStep ==
  ASSUME TypeInv, SurvivalInv, pc \notin {"down", "append", "apply"}, ReturnOk,
         memtable' = memtable, sstables' = sstables
  PROVE  KV!Next
<1>1. op' = NoOp /\ pc' = "idle" /\ acked' = AckedAfter(op) /\ limbo' = limbo
  BY DEF ReturnOk
<1>2. View' = View
  BY DEF View, Levels
<1>3. \A id \in RecordId :
        View'[id] = IF Writes(op.recs, id) = {} THEN View[id]
                    ELSE SlotOf(op.recs[Winner(op.recs, id)])
  BY <1>2 DEF SurvivalInv, ViewInv
<1> QED BY <1>1, <1>3, EffectStep DEF SurvivalInv

(* A write starts.                                                         *)
LEMMA StartStep ==
  ASSUME TypeInv, SurvivalInv, Write
  PROVE  KV!Next
<1>1. PICK recs \in Seq(Record) : BeginWrite(recs)
  BY WriteBegins DEF TypeInv
<1>2. /\ memtable' = memtable /\ sstables' = sstables /\ acked' = acked
      /\ limbo' = limbo /\ pc = "idle" /\ pc' = "append" /\ op = NoOp
  BY <1>1 DEF BeginWrite, Goto, obsVars, SurvivalInv, RunningInv
<1>3. op'.recs = recs
  BY <1>1 DEF BeginWrite, NoOp
<1>4. View' = View
  BY <1>2 DEF View, Levels
<1>5. Up /\ Up' = Up /\ Visible' = Visible
  BY <1>2, <1>4 DEF Up, Visible
<1>6. Safe' = Safe /\ Unsettled' = Unsettled
  BY <1>2 DEF Safe, Unsettled, WriteFrom
<1>7. Pending = <<>>
  BY <1>2, NothingPending DEF NoOp
<1>8. Pending' \in Seq(KV!WriteOf)
  <2>1. Pending' = [i \in DOMAIN recs |-> WriteFrom(recs[i])]
    BY <1>3 DEF Pending, WriteFrom
  <2>2. ASSUME NEW r \in Record PROVE WriteFrom(r) \in KV!WriteOf
    BY LayersAssumption DEF WriteFrom, KV!WriteOf, Seen, SlotOf, Absent, Slot, SeqNo, Record
  <2>3. DOMAIN recs = 1..Len(recs) /\ Len(recs) \in Nat
        /\ \A i \in DOMAIN recs : recs[i] \in Record
    OBVIOUS
  <2>4. Pending' \in [1..Len(recs) -> KV!WriteOf]
    BY <2>1, <2>2, <2>3
  <2> QED BY <2>3, <2>4
<1> QED BY <1>5, <1>6, <1>7, <1>8, StoreStep

(* The steps of a write. *)
LEMMA WriteStepStep ==
  ASSUME TypeInv, TypeInv', SurvivalInv, WriteStep
  PROVE  KV!Next
<1>1. RunningInv
  BY DEF SurvivalInv
<1>2. CASE AppendFrame \/ Sync
  <2>1. /\ memtable' = memtable /\ sstables' = sstables /\ acked' = acked
        /\ limbo' = limbo /\ pc = "append" /\ pc' # "down"
    BY <1>2 DEF AppendFrame, Sync, Goto, obsVars, memVars
  <2>2. op'.recs = op.recs
    BY <1>2 DEF AppendFrame, Sync, TypeInv, TypeOK, Op
  <2>3. View' = View
    BY <2>1 DEF View, Levels
  <2> QED BY <2>1, <2>2, <2>3, HiddenStep
<1>3. CASE AppendFails \/ SyncFails
  BY <1>1, <1>3, ErrStep DEF AppendFails, SyncFails, memVars
<1>4. CASE Apply
  <2>1. /\ pc # "down" /\ pc' # "down" /\ limbo' = limbo
        /\ \/ op' = op /\ acked' = acked
           \/ op' = NoOp /\ acked' = AckedAfter(op)
    BY <1>4 DEF Apply, Goto, ReturnOk, obsVars
  <2>2. \A id \in RecordId :
          View'[id] = IF Writes(op.recs, id) = {} THEN View[id]
                      ELSE SlotOf(op.recs[Winner(op.recs, id)])
    BY <1>1, <1>4, AppliedView
  <2> QED BY <1>1, <2>1, <2>2, EffectStep
<1> QED BY <1>2, <1>3, <1>4 DEF WriteStep

(* The steps of a flush or compaction. *)
LEMMA MaintenanceStep ==
  ASSUME TypeInv, TypeInv', EngineInv, SurvivalInv,
         Flush \/ Compact \/ FlushStep \/ CompactStep
  PROVE  KV!Next
<1>1. RunningInv
  BY DEF SurvivalInv
<1>2. CASE Flush \/ Compact
  <2>1. /\ memtable' = memtable /\ sstables' = sstables /\ acked' = acked
        /\ limbo' = limbo /\ pc = "idle" /\ pc' = "flush" /\ op = NoOp
    BY <1>1, <1>2 DEF Flush, Compact, Begin, Goto, obsVars, memVars, RunningInv
  <2>2. op'.recs = op.recs
    BY <1>2, <2>1 DEF Flush, Compact, Begin, NoOp
  <2>3. View' = View
    BY <2>1 DEF View, Levels
  <2> QED BY <2>1, <2>2, <2>3, HiddenStep
<1>3. CASE FlushNothing \/ WalClear
  <2>1. CASE op.kind = "compact"
    <3>1. /\ memtable' = memtable /\ sstables' = sstables /\ acked' = acked
          /\ limbo' = limbo /\ op' = op /\ pc # "down" /\ pc' # "down"
      BY <1>3, <2>1 DEF FlushNothing, WalClear, AfterFlush, Goto, obsVars, memVars
    <3>2. View' = View
      BY <3>1 DEF View, Levels
    <3> QED BY <3>1, <3>2, HiddenStep
  <2>2. CASE op.kind # "compact"
    BY <1>3, <2>2, OkStep DEF FlushNothing, WalClear, AfterFlush, memVars
  <2> QED BY <2>1, <2>2
<1>4. CASE NothingToMerge \/ CompactDone
  BY <1>4, OkStep DEF NothingToMerge, CompactDone, memVars
<1>5. CASE FlushWriteFails \/ InstallFails \/ WalClearFails \/ MergeFails \/ SwapFails
  BY <1>1, <1>5, ErrStep
     DEF FlushWriteFails, InstallFails, WalClearFails, MergeFails, SwapFails, memVars
<1>6. CASE FlushWrite \/ Install \/ MergeTables \/ Swap \/ RemoveOld \/ RemoveFails
  <2>1. /\ acked' = acked /\ limbo' = limbo /\ Maintaining /\ pc # "down" /\ pc' # "down"
    BY <1>6 DEF FlushWrite, Install, MergeTables, Swap, RemoveOld, RemoveFails,
                Goto, obsVars, Maintaining
  <2>2. op'.recs = op.recs
    BY <1>6 DEF FlushWrite, Install, MergeTables, Swap, RemoveOld, RemoveFails,
                TypeInv, TypeOK, Op
  <2>3. \A id \in RecordId : View'[id] = View[id]
    BY <2>1, MaintenanceView DEF Next
  <2> QED BY <2>1, <2>2, <2>3, HiddenStep
<1> QED BY <1>2, <1>3, <1>4, <1>5, <1>6 DEF FlushStep, CompactStep

(* A crash. *)
LEMMA CrashStep ==
  ASSUME TypeInv, SurvivalInv, Crash
  PROVE  KV!Next
<1>1. pc # "down" /\ pc' = "down" /\ op' = NoOp /\ limbo' = LimboAfter(op) /\ acked' = acked
  BY DEF Crash
<1>2. Up /\ ~Up' /\ Visible' = [id \in RecordId |-> Absent]
  BY <1>1 DEF Up, Visible, EmptyLayer
<1> QED BY <1>1, <1>2, CutShort, StoreStep DEF SurvivalInv

(* An open() finds the safe or an unsettled write of every id, unless the  *)
(* log holds frames behind a torn one.                                     *)
LEMMA OpenStep ==
  ASSUME MaxSst < NameLimit, TypeInv, EngineInv, SurvivalInv, SurvivalInv', Open
  PROVE  KV!Next
<1>1. /\ pc = "down" /\ pc' = "idle" /\ acked' = Recovered /\ limbo' = {} /\ op' = op
      /\ op = NoOp
  BY DEF Open, EngineInv, StepInv
<1>2. ~Up /\ Up'
  BY <1>1 DEF Up
<1>3. \A id \in RecordId : View'[id] = Recovered[id]
  <2> TAKE id \in RecordId
  <2>1. View'[id] \in Current(id)'
    BY <1>1 DEF SurvivalInv, ViewInv
  <2>2. LimboAfter(op)' = {}
    BY <1>1 DEF LimboAfter, NoOp
  <2> QED BY <1>1, <2>1, <2>2 DEF Current
<1>4. Visible' = [id \in RecordId |-> Seen(Recovered[id])]
  BY <1>1, <1>3 DEF Visible
<1>5. Safe' = Visible'
  BY <1>1, <1>4 DEF Safe
<1>6. Visible' \in [RecordId -> Slot]
  <2>1. Recovered \in [RecordId -> Slot]
    BY RecoveredType DEF TypeInv, Layer
  <2>2. \A slot \in Slot : Seen(slot) \in Slot
    BY LayersAssumption DEF Seen, Absent, Slot, SeqNo
  <2> QED BY <1>4, <2>1, <2>2
<1>7. Unsettled' = {} /\ Pending' = Pending
  BY <1>1 DEF Unsettled, Pending, WriteFrom
<1>8. ASSUME Buried = {}, NEW id \in RecordId
      PROVE  Visible'[id] \in {Safe[id]} \cup
                {w.value : w \in {x \in Unsettled : x.id = id}}
  <2>1. Recovered[id] \in Current(id)
    BY <1>8, RecoveredIsCurrent DEF Clean
  <2>2. LimboAfter(op) = limbo
    BY <1>1 DEF LimboAfter, NoOp
  <2>3. CASE Recovered[id] = acked[id]
    BY <1>4, <2>3 DEF Safe
  <2>4. ASSUME NEW r \in UNION limbo, r.id = id, r.seq > acked[id].seq,
               Recovered[id] = SlotOf(r)
        PROVE  Visible'[id] \in {w.value : w \in {x \in Unsettled : x.id = id}}
    <3>1. WriteFrom(r) \in Unsettled
      BY <2>4 DEF Unsettled
    <3>2. WriteFrom(r).id = id /\ WriteFrom(r).value = Visible'[id]
      BY <1>4, <2>4 DEF WriteFrom
    <3> QED BY <3>1, <3>2
  <2> QED BY <2>1, <2>2, <2>3, <2>4 DEF Current
<1> QED BY <1>2, <1>5, <1>6, <1>7, <1>8, StoreStep

(* Every behaviour of the engine is one of the abstract store: writes take *)
(* effect once and as a whole while it runs, flush and compaction are      *)
(* invisible, and a restart brings back, of every id, the last             *)
(* acknowledged write or a later unsettled one unless the log is damaged.  *)
THEOREM EngineRefinesKV ==
  ASSUME MaxSst < NameLimit
  PROVE  Spec => EngineImplementsKV
<1>1. Init => KV!Init
  <2> SUFFICES ASSUME Init PROVE KV!Init
    OBVIOUS
  <2>1. /\ log = <<>> /\ pc = "down" /\ op = NoOp /\ acked = EmptyLayer /\ limbo = {}
    BY DEF Init, WalInit
  <2>2. Visible = [id \in RecordId |-> Absent] /\ Safe = Visible /\ ~Up
    BY <2>1 DEF Visible, Safe, Up, EmptyLayer, Seen
  <2>3. Pending = <<>> /\ Unsettled = {}
    BY <2>1, NothingPending DEF NoOp, Unsettled
  <2>4. (Buried # {}) = FALSE
    BY <2>1 DEF Buried
  <2> QED BY <2>2, <2>3, <2>4 DEF KV!Init, Safe, Up, Pending, Unsettled
<1>2. TypeInv /\ EngineInv /\ SurvivalInv /\ [Next]_vars => KV!Next
  <2> SUFFICES ASSUME TypeInv, EngineInv, SurvivalInv, [Next]_vars
               PROVE  KV!Next
    OBVIOUS
  <2>1. TypeInv' /\ SurvivalInv'
    BY TypeStep, SurvivalStep
  <2>2. CASE UNCHANGED vars \/ Read \/ OpenFails
    <3>1. /\ pc' = pc /\ op' = op /\ acked' = acked /\ limbo' = limbo
          /\ memtable' = memtable /\ sstables' = sstables
      BY <2>2 DEF Read, OpenFails, vars, obsVars, memVars
    <3>2. View' = View
      BY <3>1 DEF View, Levels
    <3>3. Up' = Up /\ Visible' = Visible
      BY <3>1, <3>2 DEF Up, Visible
    <3>4. Safe' = Safe /\ Pending' = Pending /\ Unsettled' = Unsettled
      BY <3>1 DEF Safe, Pending, Unsettled, WriteFrom
    <3> QED BY <3>3, <3>4, StoreStep
  <2>3. CASE Write
    BY <2>3, StartStep
  <2>4. CASE WriteStep
    BY <2>1, <2>4, WriteStepStep
  <2>5. CASE Flush \/ FlushStep \/ Compact \/ CompactStep
    BY <2>1, <2>5, MaintenanceStep
  <2>6. CASE Crash \/ Open
    BY <2>1, <2>6, CrashStep, OpenStep
  <2> QED BY <2>2, <2>3, <2>4, <2>5, <2>6 DEF Next, Restart
<1>3. Init => TypeInv /\ EngineInv /\ SurvivalInv
  BY TypeInit, InvInit, SurvivalInit
<1>4. TypeInv /\ EngineInv /\ SurvivalInv /\ [Next]_vars =>
        TypeInv' /\ EngineInv' /\ SurvivalInv'
  BY TypeStep, InvStep, SurvivalStep
<1> QED BY <1>1, <1>2, <1>3, <1>4, PTL DEF Spec, EngineImplementsKV, KV!Spec
=============================================================================
