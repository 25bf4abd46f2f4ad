-------------------------------- MODULE Wal --------------------------------
(***************************************************************************)
(* The write-ahead log of src/wal.rs: a file of frames                     *)
(*     [ length ][ payload ][ crc32 ]                                      *)
(* written by three write_all calls and made durable by one sync_data.     *)
(*                                                                         *)
(* The file is a sequence of frames, each with the number of words of it   *)
(* that reached the file: one word for the length, one for the crc, and a  *)
(* payload of two words for a record with a vector, one for a tombstone,   *)
(* whose vector and metadata are empty.  A frame with fewer words than its *)
(* size is torn.  Nothing ever truncates a torn frame away: replay() only  *)
(* reads, and open() appends after it.                                     *)
(***************************************************************************)
EXTENDS Layers

VARIABLES
    log,        \* the frames in wal.log, in file order
    synced      \* how many of them the last sync_data covered

walVars == <<log, synced>>

FrameWords(r) == IF r.deleted THEN 3 ELSE 4

Frame == [rec : Record, words : 1..4]

Whole(f) == f.words = FrameWords(f.rec)

WalTypeOK ==
    /\ log \in Seq(Frame)
    /\ \A i \in DOMAIN log : log[i].words <= FrameWords(log[i].rec)
    /\ synced \in 0..Len(log)

WalInit == log = <<>> /\ synced = 0

-----------------------------------------------------------------------------
(* write_frame: the three write_all calls all succeed.                     *)
WriteFrame(r) ==
    /\ log' = Append(log, [rec |-> r, words |-> FrameWords(r)])
    /\ UNCHANGED synced

(* write_frame gives up part-way (disk full, I/O error): whatever was      *)
(* written stays in the file.                                              *)
TearFrame(r) ==
    /\ \E w \in 0..(FrameWords(r) - 1) :
          log' = IF w = 0 THEN log ELSE Append(log, [rec |-> r, words |-> w])
    /\ UNCHANGED synced

(* Mutant: append returns without sync_data. *)
NoSync == UNCHANGED <<log, synced>>

SyncData == synced' = Len(log) /\ UNCHANGED log

Clear == log' = <<>> /\ synced' = 0

(* A crash: what sync_data covered is on the disk, and of what was written *)
(* after it some prefix is, cut anywhere.  What survives is then as good   *)
(* as synced.                                                              *)
LoseUnsynced ==
    /\ \/ \E n \in synced..Len(log) : log' = SubSeq(log, 1, n)
       \/ \E n \in (synced + 1)..Len(log) : \E w \in 1..log[n].words :
             log' = Append(SubSeq(log, 1, n - 1), [log[n] EXCEPT !.words = w])
    /\ synced' = Len(log')

-----------------------------------------------------------------------------
(* replay() yields the frames before the first torn one, in file order.    *)
Readable == {i \in DOMAIN log : \A j \in 1..i : Whole(log[j])}

Torn == \E i \in DOMAIN log : ~Whole(log[i])

(* Frames the file holds behind a torn one: replay never reaches them.     *)
Buried == {i \in DOMAIN log : \E j \in 1..(i - 1) : ~Whole(log[j])}

(* At a torn frame replay reads a length and then as many bytes as that    *)
(* frame lacks from the frames behind it.  If the file ends first it stops *)
(* quietly; otherwise the crc cannot match and it returns                  *)
(* WalError::Checksum.                                                     *)
FirstTorn == Cardinality(Readable) + 1

WordsFrom(i) == {p \in (i..Len(log)) \X (1..4) : p[2] <= log[p[1]].words}

ReplayFails ==
    /\ Torn
    /\ Cardinality(WordsFrom(FirstTorn)) >= FrameWords(log[FirstTorn].rec)

Replayed ==
    InsertAll(EmptyLayer, [i \in Readable |-> log[i].rec])
=============================================================================
