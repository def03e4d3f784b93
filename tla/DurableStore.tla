---------------------------- MODULE DurableStore ----------------------------
(***************************************************************************)
(* The durable half of one cache.Store: the writer goroutine and its       *)
(* write-ahead log, the sharded memory, the background and the final       *)
(* snapshot, process crash, power loss and recovery.                       *)
(*                                                                         *)
(* Data is abstracted as follows.  A value is identified by the sequence   *)
(* of the record that wrote it.  Every record has size one, so SegmentSize,*)
(* SnapshotThreshold and the capacity of a shard count records or entries. *)
(* A segment file is the sequence of its cells; an incomplete record at    *)
(* the end of a file is the cell Torn.  Temporary files are not            *)
(* represented: Open removes them and nothing reads them.                  *)
(***************************************************************************)
EXTENDS Naturals, Sequences, FiniteSets, FiniteSetsExt

CONSTANTS
  Keys,              \* the keys callers use
  Requests,          \* the writes callers issue
  Hash,              \* hashKey, a function from Keys to Nat
  Options,           \* pairs of a shard count (WithShards) and a capacity of one shard
  SegmentSize,       \* WithSegmentSize, in records
  SnapshotThreshold, \* WithSnapshotThreshold, in records
  MaxSequence,       \* maxSequence
  MaxBatch,          \* bound on the requests drained into one batch
  MaxTime,           \* bound on the clock
  Faults             \* what may go wrong

ShardCounts == {option[1] : option \in Options}
Time == 0..MaxTime
Sequence == 0..MaxSequence

Request == [op : {"set"}, key : Keys, deadline : Time]
             \cup [op : {"delete"}, key : Keys, deadline : {0}]

(* A failing WAL write, WAL or directory sync, file creation or removal in *)
(* the writer; any error of a snapshot; the process or the machine dying.  *)
FaultKinds == {"write", "sync", "roll", "snapshot", "crash", "power"}

ASSUME ConstantsAssumption ==
  /\ IsFiniteSet(Keys) /\ Keys # {}
  /\ Hash \in [Keys -> Nat]
  /\ Options \subseteq (Nat \ {0}) \X (Nat \ {0}) /\ Options # {}
  /\ SegmentSize \in Nat
  /\ SnapshotThreshold \in Nat \ {0}
  /\ MaxSequence \in Nat \ {0}
  /\ MaxBatch \in Nat \ {0}
  /\ MaxTime \in Nat
  /\ Requests \subseteq Request /\ Faults \subseteq FaultKinds

VARIABLES
  \* the directory
  segments,           \* segment name (first sequence) -> [cells, synced]
  snapshots,          \* snapshot name (lowest sequence) -> [shards, cover, image]
  stable,             \* the snapshots a power loss cannot take away
  \* the process
  status,             \* "down", "up" or "refused" (Open returned an error)
  shards,             \* options.shards
  capacity,           \* shard.capacity
  entries,            \* shard.entries of all the shards together
  evictionGeneration,
  logSequence,        \* the sequence published under the shard lock
  latched,            \* stats.lastError # nil
  \* the writer goroutine
  pc,                 \* where runWriter is
  current,            \* log.file, by name
  seq,                \* log.seq
  bytesSinceSnapshot,
  batch,              \* requests of the batch not yet written
  pending,            \* records written and not yet applied
  \* the snapshot in progress
  snapPC, snapMode, snapGeneration, snapThrough, snapNext, snapCover, snapImage,
  \* the environment and what callers were told
  now,                \* the clock
  history,            \* every record the log ever held, by sequence
  acked,              \* the last sequence whose caller got nil
  promised            \* the last acked sequence a successful fsync covered

disk == <<segments, snapshots, stable>>
memory == <<entries, evictionGeneration, logSequence>>
config == <<shards, capacity>>
writer == <<pc, current, seq, bytesSinceSnapshot, batch, pending>>
snap == <<snapPC, snapMode, snapGeneration, snapThrough, snapNext, snapCover, snapImage>>
callers == <<history, acked, promised>>
vars == <<disk, status, config, memory, latched, writer, snap, now, callers>>

-----------------------------------------------------------------------------
(* Requests, records, entries.                                             *)

Cell == [op : {"set", "delete", "torn"}, key : Keys, deadline : Time, seq : Sequence]
Entry == [seq : Sequence, deadline : Time]
Image == [Keys -> Entry]
Segment == [cells : Seq(Cell), synced : Nat]
Snapshot == UNION {[shards : {n}, cover : [0..(n - 1) -> Sequence], image : Image] : n \in ShardCounts}

NoEntry == [seq |-> 0, deadline |-> 0]
NoImage == [k \in Keys |-> NoEntry]
Torn == [op |-> "torn", key |-> CHOOSE k \in Keys : TRUE, deadline |-> 0, seq |-> 0]
NewSegment == [cells |-> <<>>, synced |-> 0]

ShardOf(k, n) == Hash[k] % n
deadlinePassed(e) == e.deadline # 0 /\ now >= e.deadline
Live(e) == IF deadlinePassed(e) THEN NoEntry ELSE e
RecordOf(r, n) == [op |-> r.op, key |-> r.key, deadline |-> r.deadline, seq |-> n]
EntryOf(c) == IF c.op = "set" THEN [seq |-> c.seq, deadline |-> c.deadline] ELSE NoEntry

(* What the first n records of the history leave under key k.              *)
Latest(k, n) ==
  LET writes == {i \in 1..n : history[i].key = k}
  IN  IF writes = {} THEN NoEntry ELSE EntryOf(history[Max(writes)])

(* f with x mapped to v, whether or not x was in its domain.               *)
Put(f, x, v) == [y \in DOMAIN f \cup {x} |-> IF y = x THEN v ELSE f[y]]

-----------------------------------------------------------------------------
(* Recovery: what the files say.  An absent snapshot is one that covers    *)
(* nothing.                                                                *)

NoSnapshot == [shards |-> 1, cover |-> [i \in 0..0 |-> 0], image |-> NoImage]
loadSnapshot == IF DOMAIN snapshots = {} THEN NoSnapshot ELSE snapshots[Max(DOMAIN snapshots)]

Lowest(s) == Min(Range(s.cover))
Highest(s) == Max(Range(s.cover))
SnapshotLoads(s) == \A k \in Keys : s.image[k].seq <= s.cover[ShardOf(k, s.shards)]

FirstRequired(s) == IF Lowest(s) = MaxSequence THEN Lowest(s) ELSE Lowest(s) + 1
StartSegment(s) == Max({f \in DOMAIN segments : f <= FirstRequired(s)})
ReplayFiles(s, through) ==
  LET start == StartSegment(s) IN {f \in DOMAIN segments : start <= f /\ f <= through}

(* The scan of one file meets no damage: every record carries the sequence *)
(* its place requires, and an incomplete record ends the final file.  A    *)
(* record past the boundary stops the scan.                                *)
recoverSegment(f, final, through) ==
  LET cells == segments[f].cells
  IN  \A i \in DOMAIN cells :
        \/ cells[i].op # "torn" /\ cells[i].seq = f + i - 1
        \/ cells[i].op = "torn" /\ final /\ i = Len(cells)
        \/ \E j \in 1..(i - 1) : cells[j].seq > through

(* No sequence is missing between one file and the next.                   *)
Chained(s, through) ==
  \A f \in ReplayFiles(s, through) \ {StartSegment(s)} :
    \/ segments[f].cells = <<>>
    \/ \E g \in ReplayFiles(s, through) : g < f /\ g + Len(segments[g].cells) = f

Replayed(s, through) ==
  {c \in UNION {Range(segments[f].cells) : f \in ReplayFiles(s, through)} :
     c.op # "torn" /\ c.seq <= through}
LastReplayed(s, through) ==
  Max({StartSegment(s) - 1} \cup {c.seq : c \in Replayed(s, through)})

CutoffMutant(s, n, k) == IF s.shards = n THEN s.cover[ShardOf(k, n)] ELSE Highest(s)

Cutoff(s, n, k) == IF s.shards = n THEN s.cover[ShardOf(k, n)] ELSE Lowest(s)

ReplayImageMutant(s, n, through) ==
  [k \in Keys |->
     LET later == {c \in Replayed(s, through) :
                     c.key = k /\ c.seq > Cutoff(s, n, k) /\ ~deadlinePassed(c)}
     IN  IF later = {} THEN s.image[k]
         ELSE EntryOf(CHOOSE c \in later : \A d \in later : d.seq <= c.seq)]

(* Replay applies the records past the snapshot in order, so the last one  *)
(* of a key decides.                                                       *)
ReplayImage(s, n, through) ==
  LET replayed == Replayed(s, through)
  IN  [k \in Keys |->
         LET later == {c \in replayed : c.key = k /\ c.seq > Cutoff(s, n, k)}
         IN  IF later = {} THEN s.image[k]
             ELSE EntryOf(CHOOSE c \in later : \A d \in later : d.seq <= c.seq)]

LastSegment == Max(DOMAIN segments)

(* recoverLog reads through the end of the last file, whose torn tail it   *)
(* cuts off.                                                               *)
ScansLog(s) ==
  /\ Min(DOMAIN segments) <= FirstRequired(s)
  /\ \A f \in ReplayFiles(s, MaxSequence) : recoverSegment(f, f = LastSegment, MaxSequence)
  /\ Chained(s, MaxSequence)

CanRecoverMutant ==
  LET s == loadSnapshot
  IN  /\ SnapshotLoads(s)
      /\ IF DOMAIN segments = {}
         THEN Lowest(s) = Highest(s) /\ Highest(s) # MaxSequence
         ELSE ScansLog(s)

(* recoverLog succeeds; the sequence and the image it recovers.            *)
CanRecover ==
  LET s == loadSnapshot
  IN  /\ SnapshotLoads(s)
      /\ IF DOMAIN segments = {}
         THEN Lowest(s) = Highest(s) /\ Highest(s) # MaxSequence
         ELSE ScansLog(s) /\ LastReplayed(s, MaxSequence) >= Highest(s)
RecoveredSequence ==
  IF DOMAIN segments = {} THEN Highest(loadSnapshot) ELSE LastReplayed(loadSnapshot, MaxSequence)
RecoveredImage(n) ==
  IF DOMAIN segments = {} THEN loadSnapshot.image ELSE ReplayImage(loadSnapshot, n, MaxSequence)

(* recoverDurableImage succeeds, and the image it rebuilds.                *)
CoveredBySnapshot(through) ==
  /\ Highest(loadSnapshot) = through
  /\ \A f \in DOMAIN segments : f > through
CanRebuild(through) ==
  LET s == loadSnapshot
  IN  /\ SnapshotLoads(s) /\ Highest(s) <= through
      /\ \/ DOMAIN snapshots # {} /\ CoveredBySnapshot(through)
         \/ /\ DOMAIN segments # {}
            /\ Min(DOMAIN segments) <= FirstRequired(s)
            /\ \A f \in ReplayFiles(s, through) : recoverSegment(f, FALSE, through)
            /\ Chained(s, through)
            /\ LastReplayed(s, through) = through
RebuiltImageMutant(n, through) ==
  IF DOMAIN snapshots # {} /\ CoveredBySnapshot(through)
  THEN loadSnapshot.image ELSE ReplayImage([loadSnapshot EXCEPT !.image = NoImage], n, through)

RebuiltImage(n, through) ==
  IF DOMAIN snapshots # {} /\ CoveredBySnapshot(through)
  THEN loadSnapshot.image ELSE ReplayImage(loadSnapshot, n, through)

-----------------------------------------------------------------------------
(* Opening a directory.                                                    *)

Init ==
  /\ segments = <<>> /\ snapshots = <<>> /\ stable = <<>>
  /\ status = "down"
  /\ shards = 1 /\ capacity = 1
  /\ entries = NoImage /\ evictionGeneration = 0 /\ logSequence = 0
  /\ latched = FALSE
  /\ pc = "idle" /\ current = 0 /\ seq = 0 /\ bytesSinceSnapshot = 0
  /\ batch = <<>> /\ pending = <<>>
  /\ snapPC = "idle" /\ snapMode = "memory" /\ snapGeneration = 0 /\ snapThrough = 0
  /\ snapNext = 0 /\ snapCover = <<>> /\ snapImage = NoImage
  /\ now = 0
  /\ history = <<>> /\ acked = 0 /\ promised = 0

(* The goroutines of a process are gone.                                   *)
ProcessEnds ==
  /\ status' = "down"
  /\ shards' = 1 /\ capacity' = 1
  /\ entries' = NoImage /\ evictionGeneration' = 0 /\ logSequence' = 0
  /\ latched' = FALSE
  /\ pc' = "idle" /\ current' = 0 /\ seq' = 0 /\ bytesSinceSnapshot' = 0
  /\ batch' = <<>> /\ pending' = <<>>
  /\ snapPC' = "idle" /\ snapMode' = "memory" /\ snapGeneration' = 0 /\ snapThrough' = 0
  /\ snapNext' = 0 /\ snapCover' = <<>> /\ snapImage' = NoImage

ShardKeys(i, n) == {k \in Keys : ShardOf(k, n) = i}
Present(image) == {k \in Keys : image[k] # NoEntry}
Without(image, gone) == [k \in Keys |-> IF k \in gone THEN NoEntry ELSE image[k]]

(* gone is what evictToCapacityLocked removes from shard i: the least      *)
(* recently used entries until the shard fits, any of the candidates       *)
(* because reads reorder the list at will.                                 *)
Evicts(image, i, n, c, candidates, gone) ==
  LET held == Present(image) \cap ShardKeys(i, n)
  IN  /\ gone \subseteq held \cap candidates
      /\ Cardinality(held \ gone) = Min({c, Cardinality(held)})

(* The torn tail of the last file is cut off.                              *)
Whole(cells) == \A i \in DOMAIN cells : cells[i].op # "torn"
WithoutTorn(segment) ==
  LET whole == IF Whole(segment.cells) THEN Len(segment.cells) ELSE Len(segment.cells) - 1
  IN  [cells |-> SubSeq(segment.cells, 1, whole), synced |-> Min({segment.synced, whole})]

(* Open: recoverLog, then enforceRecoveredState on every shard, then the   *)
(* goroutines start.  A directory without a segment gets its first one.    *)
Open(n, c) ==
  /\ status = "down" /\ CanRecover
  /\ LET expired == {k \in Keys : deadlinePassed(RecoveredImage(n)[k])}
         image == Without(RecoveredImage(n), expired)
     IN  \E gone \in SUBSET Keys :
           /\ \A i \in 0..(n - 1) : Evicts(image, i, n, c, Keys, gone \cap ShardKeys(i, n))
           /\ entries' = Without(image, gone)
           /\ evictionGeneration' = Cardinality(gone)
  /\ IF DOMAIN segments = {}
     THEN /\ segments' = Put(segments, RecoveredSequence + 1, NewSegment)
          /\ stable' = snapshots
          /\ current' = RecoveredSequence + 1
     ELSE /\ segments' = Put(segments, LastSegment, WithoutTorn(segments[LastSegment]))
          /\ stable' = stable
          /\ current' = LastSegment
  /\ logSequence' = RecoveredSequence /\ seq' = RecoveredSequence
  /\ status' = "up" /\ shards' = n /\ capacity' = c
  /\ UNCHANGED <<snapshots, latched, pc, bytesSinceSnapshot, batch, pending, snap, now, callers>>

(* The first segment is installed and the directory sync after it fails.   *)
OpenFailsAfterInstall ==
  /\ "roll" \in Faults
  /\ status = "down" /\ CanRecover /\ DOMAIN segments = {}
  /\ segments' = Put(segments, RecoveredSequence + 1, NewSegment)
  /\ UNCHANGED <<snapshots, stable, status, config, memory, latched, writer, snap, now, callers>>

(* recoverLog returns an error.  When that is the last one it can return, a*)
(* log that ends before the snapshot does, the torn tail is cut off by     *)
(* then; else the directory stays as it is.                                *)
OpenRefused ==
  /\ status = "down" /\ ~CanRecover
  /\ status' = "refused"
  /\ segments' = IF SnapshotLoads(loadSnapshot) /\ DOMAIN segments # {} /\ ScansLog(loadSnapshot)
                 THEN Put(segments, LastSegment, WithoutTorn(segments[LastSegment])) ELSE segments
  /\ UNCHANGED <<snapshots, stable, config, memory, latched, writer, snap, now, callers>>

-----------------------------------------------------------------------------
(* The writer goroutine: one batch at a time, written in chunks that end   *)
(* at a segment boundary, each record applied and answered in turn.        *)

FailBatchMutant == latched' = latched /\ batch' = <<>> /\ pc' = "check"

(* The store latches and every request not yet written gets the error.     *)
FailBatch == latched' = TRUE /\ batch' = <<>> /\ pc' = "check"

DrainWritesMutant ==
  /\ status = "up" /\ pc = "idle"
  /\ \E n \in 1..MaxBatch : batch' \in [1..n -> Requests]
  /\ pc' = "write"
  /\ UNCHANGED <<disk, status, config, memory, latched, current, seq, bytesSinceSnapshot,
                 pending, snap, now, callers>>

DrainWrites ==
  /\ status = "up" /\ pc = "idle" /\ ~latched
  /\ \E n \in 1..MaxBatch : batch' \in [1..n -> Requests]
  /\ pc' = "write"
  /\ UNCHANGED <<disk, status, config, memory, latched, current, seq, bytesSinceSnapshot,
                 pending, snap, now, callers>>

SequenceExhaustedMutant ==
  /\ pc = "write" /\ seq > MaxSequence
  /\ FailBatch
  /\ UNCHANGED <<disk, status, config, memory, current, seq, bytesSinceSnapshot, pending,
                 snap, now, callers>>

SequenceExhausted ==
  /\ pc = "write" /\ seq = MaxSequence
  /\ FailBatch
  /\ UNCHANGED <<disk, status, config, memory, current, seq, bytesSinceSnapshot, pending,
                 snap, now, callers>>

CurrentCells == segments[current].cells
NeedsRoll == CurrentCells # <<>> /\ Len(CurrentCells) + 1 > SegmentSize

Synced(f) == Put(segments, f, [cells |-> segments[f].cells, synced |-> Len(segments[f].cells)])
Appended(cells) ==
  Put(segments, current, [segments[current] EXCEPT !.cells = @ \o cells])

rollSegmentMutant ==
  /\ segments' = Put(segments, seq + 1, NewSegment)
  /\ stable' = snapshots
  /\ current' = seq + 1

(* rollSegment: sync and close the current file, install the next one.     *)
rollSegment ==
  /\ segments' = Put(Synced(current), seq + 1, NewSegment)
  /\ stable' = snapshots
  /\ current' = seq + 1

(* rollSegment failed: at the sync, before the rename, or after it.        *)
rollSegmentFails ==
  /\ segments' \in {segments, Synced(current), Put(Synced(current), seq + 1, NewSegment)}
  /\ UNCHANGED <<stable, current>>

RollForWrite ==
  /\ pc = "write" /\ seq # MaxSequence /\ NeedsRoll
  /\ rollSegment
  /\ UNCHANGED <<snapshots, status, config, memory, latched, pc, seq, bytesSinceSnapshot,
                 batch, pending, snap, now, callers>>

RollForWriteFails ==
  /\ "roll" \in Faults
  /\ pc = "write" /\ seq # MaxSequence /\ NeedsRoll
  /\ rollSegmentFails
  /\ FailBatch
  /\ UNCHANGED <<snapshots, status, config, memory, seq, bytesSinceSnapshot, pending,
                 snap, now, callers>>

ChunkLengthMutant ==
  Max({m \in 1..Len(batch) : m = 1 \/ Len(CurrentCells) + m - 1 <= SegmentSize})

ChunkLength ==
  Max({m \in 1..Min({Len(batch), MaxSequence - seq}) :
         m = 1 \/ Len(CurrentCells) + m - 1 <= SegmentSize})
Chunk == [i \in 1..ChunkLength |-> RecordOf(batch[i], seq + i)]
CanWrite == pc = "write" /\ seq # MaxSequence /\ ~NeedsRoll

WriteRecords ==
  /\ CanWrite
  /\ segments' = Appended(Chunk)
  /\ history' = history \o Chunk
  /\ pending' = Chunk
  /\ batch' = SubSeq(batch, ChunkLength + 1, Len(batch))
  /\ bytesSinceSnapshot' = bytesSinceSnapshot + ChunkLength
  /\ pc' = "apply"
  /\ UNCHANGED <<snapshots, stable, status, config, memory, latched, current, seq, snap, now,
                 acked, promised>>

(* A write that stopped early left p whole records and perhaps a fragment. *)
PartialWrite(p, torn) ==
  /\ segments' = Appended(SubSeq(Chunk, 1, p) \o (IF torn THEN <<Torn>> ELSE <<>>))
  /\ history' = history \o SubSeq(Chunk, 1, p)

WriteFails ==
  /\ "write" \in Faults
  /\ CanWrite
  /\ \E p \in 0..(ChunkLength - 1), torn \in BOOLEAN : PartialWrite(p, torn)
  /\ FailBatch
  /\ UNCHANGED <<snapshots, stable, status, config, memory, current, seq, bytesSinceSnapshot,
                 pending, snap, now, acked, promised>>

AfterApply ==
  /\ pending' = Tail(pending)
  /\ pc' = CASE Len(pending) > 1 -> "apply"
             [] Len(pending) = 1 /\ batch # <<>> -> "write"
             [] OTHER -> "check"
  /\ seq' = Head(pending).seq /\ logSequence' = Head(pending).seq
  /\ acked' = Head(pending).seq
  /\ UNCHANGED <<disk, status, config, latched, current, bytesSinceSnapshot, batch, snap, now,
                 history, promised>>

(* installSnapshot holds the eviction interlock of the store it images; a  *)
(* rebuilt image belongs to a store of its own.                            *)
InterlockHeld == snapMode = "memory" /\ snapPC \in {"renamed", "remove", "prune"}

applySetExpiredMutant ==
  /\ pc = "apply" /\ Head(pending).op = "set"
  /\ LET k == Head(pending).key
         image == [entries EXCEPT ![k] = EntryOf(Head(pending))]
     IN  IF deadlinePassed(image[k])
         THEN UNCHANGED <<entries, evictionGeneration>>
         ELSE \E gone \in SUBSET Keys :
                LET evicted == {v \in gone : ~deadlinePassed(image[v])}
                IN  /\ Evicts(image, ShardOf(k, shards), shards, capacity, Keys \ {k}, gone)
                    /\ evicted # {} => ~InterlockHeld
                    /\ entries' = Without(image, gone)
                    /\ evictionGeneration' = evictionGeneration + Cardinality(evicted)
  /\ AfterApply

applySetUncountedMutant ==
  /\ pc = "apply" /\ Head(pending).op = "set"
  /\ LET k == Head(pending).key
         image == [entries EXCEPT ![k] = EntryOf(Head(pending))]
     IN  \E gone \in SUBSET Keys :
           /\ Evicts(image, ShardOf(k, shards), shards, capacity, Keys \ {k}, gone)
           /\ entries' = Without(image, gone)
  /\ UNCHANGED evictionGeneration
  /\ AfterApply

applySet ==
  /\ pc = "apply" /\ Head(pending).op = "set"
  /\ LET k == Head(pending).key
         image == [entries EXCEPT ![k] = EntryOf(Head(pending))]
     IN  IF deadlinePassed(image[k])
         THEN entries' = Without(image, {k}) /\ UNCHANGED evictionGeneration
         ELSE \E gone \in SUBSET Keys :
                LET evicted == {v \in gone : ~deadlinePassed(image[v])}
                IN  /\ Evicts(image, ShardOf(k, shards), shards, capacity, Keys \ {k}, gone)
                    /\ evicted # {} => ~InterlockHeld
                    /\ entries' = Without(image, gone)
                    /\ evictionGeneration' = evictionGeneration + Cardinality(evicted)
  /\ AfterApply

applyDelete ==
  /\ pc = "apply" /\ Head(pending).op = "delete"
  /\ entries' = Without(entries, {Head(pending).key})
  /\ UNCHANGED evictionGeneration
  /\ AfterApply

-----------------------------------------------------------------------------
(* After the batch: startSnapshot.                                         *)

SnapshotDue == pc = "check" /\ bytesSinceSnapshot >= SnapshotThreshold /\ ~latched /\ snapPC = "idle"

NoSnapshotDue ==
  /\ pc = "check" /\ ~SnapshotDue
  /\ pc' = "idle"
  /\ UNCHANGED <<disk, status, config, memory, latched, current, seq, bytesSinceSnapshot,
                 batch, pending, snap, now, callers>>

(* An image of memory, one shard at a time, of the eviction generation     *)
(* read first.                                                             *)
BeginCapture ==
  /\ snapPC' = "capture" /\ snapMode' = "memory"
  /\ snapGeneration' = evictionGeneration /\ snapThrough' = 0 /\ snapNext' = 0
  /\ snapCover' = [i \in 0..(shards - 1) |-> 0] /\ snapImage' = NoImage

(* An image rebuilt from the log through log.seq.                          *)
BeginRebuild ==
  /\ snapPC' = "rebuild" /\ snapMode' = "durable"
  /\ snapGeneration' = evictionGeneration /\ snapThrough' = seq /\ snapNext' = 0
  /\ snapCover' = [i \in 0..(shards - 1) |-> seq] /\ snapImage' = NoImage

StartMemorySnapshotMutant ==
  /\ SnapshotDue
  /\ BeginCapture
  /\ bytesSinceSnapshot' = 0 /\ pc' = "idle"
  /\ UNCHANGED <<disk, status, config, memory, latched, current, seq, batch, pending, now, callers>>

StartMemorySnapshot ==
  /\ SnapshotDue /\ evictionGeneration = 0
  /\ BeginCapture
  /\ bytesSinceSnapshot' = 0 /\ pc' = "idle"
  /\ UNCHANGED <<disk, status, config, memory, latched, current, seq, batch, pending, now, callers>>

StartDurableSnapshot ==
  /\ SnapshotDue /\ evictionGeneration # 0 /\ seq # MaxSequence
  /\ rollSegment
  /\ BeginRebuild
  /\ bytesSinceSnapshot' = 0 /\ pc' = "idle"
  /\ UNCHANGED <<snapshots, status, config, memory, latched, seq, batch, pending, now, callers>>

DurableSnapshotAborts ==
  /\ SnapshotDue /\ evictionGeneration # 0
  /\ IF seq = MaxSequence
     THEN UNCHANGED <<segments, stable, current, latched>>
     ELSE "roll" \in Faults /\ rollSegmentFails /\ latched' = TRUE
  /\ pc' = "idle"
  /\ UNCHANGED <<snapshots, status, config, memory, seq, bytesSinceSnapshot, batch, pending,
                 snap, now, callers>>

-----------------------------------------------------------------------------
(* The snapshot: automatic ones run in a goroutine of their own, the final *)
(* one inside Close.                                                       *)

SnapshotOnly == UNCHANGED <<status, config, memory, latched, writer, now, callers>>

(* One shard under its read lock: the published sequence and the entries.  *)
CaptureShard ==
  /\ snapPC = "capture"
  /\ snapCover' = [snapCover EXCEPT ![snapNext] = logSequence]
  /\ snapImage' = [k \in Keys |-> IF ShardOf(k, shards) = snapNext THEN entries[k] ELSE snapImage[k]]
  /\ snapNext' = snapNext + 1
  /\ snapPC' = IF snapNext + 1 = shards THEN "ready" ELSE "capture"
  /\ UNCHANGED <<disk, snapMode, snapGeneration, snapThrough>>
  /\ SnapshotOnly

RebuildImage ==
  /\ snapPC = "rebuild" /\ CanRebuild(snapThrough)
  /\ snapImage' = RebuiltImage(shards, snapThrough)
  /\ snapPC' = "ready"
  /\ UNCHANGED <<disk, snapMode, snapGeneration, snapThrough, snapNext, snapCover>>
  /\ SnapshotOnly

(* The snapshot ends: an error of the file system, a rebuild that found a  *)
(* gap, or an eviction since the image was begun.  Its temporary file goes.*)
SnapshotEnds ==
  /\ snapPC' = "idle" /\ snapMode' = "memory" /\ snapGeneration' = 0 /\ snapThrough' = 0
  /\ snapNext' = 0 /\ snapCover' = <<>> /\ snapImage' = NoImage

SnapshotFails ==
  /\ snapPC # "idle"
  /\ "snapshot" \in Faults \/ (snapPC = "rebuild" /\ ~CanRebuild(snapThrough))
  /\ SnapshotEnds
  /\ UNCHANGED disk
  /\ SnapshotOnly

Overtaken == snapMode = "memory" /\ evictionGeneration # snapGeneration

DiscardSnapshot ==
  /\ snapPC = "ready" /\ Overtaken
  /\ SnapshotEnds
  /\ UNCHANGED disk
  /\ SnapshotOnly

SnapName == Min(Range(snapCover))

RenameSnapshotMutant ==
  /\ snapPC = "ready" /\ ~Overtaken
  /\ snapshots' = Put(snapshots, SnapName, [shards |-> shards, cover |-> snapCover, image |-> snapImage])
  /\ snapPC' = "remove"
  /\ UNCHANGED <<segments, stable, snapMode, snapGeneration, snapThrough, snapNext, snapCover, snapImage>>
  /\ SnapshotOnly

RenameSnapshot ==
  /\ snapPC = "ready" /\ ~Overtaken
  /\ snapshots' = Put(snapshots, SnapName, [shards |-> shards, cover |-> snapCover, image |-> snapImage])
  /\ snapPC' = "renamed"
  /\ UNCHANGED <<segments, stable, snapMode, snapGeneration, snapThrough, snapNext, snapCover, snapImage>>
  /\ SnapshotOnly

SyncDirectory ==
  /\ snapPC = "renamed"
  /\ stable' = snapshots
  /\ snapPC' = "remove"
  /\ UNCHANGED <<segments, snapshots, snapMode, snapGeneration, snapThrough, snapNext, snapCover, snapImage>>
  /\ SnapshotOnly

removeOtherSnapshotsMutant ==
  /\ snapPC = "remove"
  /\ DOMAIN snapshots = {SnapName}
  /\ snapPC' = "prune"
  /\ UNCHANGED <<disk, snapMode, snapGeneration, snapThrough, snapNext, snapCover, snapImage>>
  /\ SnapshotOnly

(* One file at a time: a crash or an error may come between any two.       *)
removeOtherSnapshots ==
  /\ snapPC = "remove"
  /\ LET others == DOMAIN snapshots \ {SnapName}
     IN  IF others = {}
         THEN snapPC' = "prune" /\ UNCHANGED snapshots
         ELSE snapshots' = Restrict(snapshots, DOMAIN snapshots \ {Min(others)}) /\ UNCHANGED snapPC
  /\ UNCHANGED <<segments, stable, snapMode, snapGeneration, snapThrough, snapNext, snapCover, snapImage>>
  /\ SnapshotOnly

(* A segment goes when the next one starts at or before the sequence the   *)
(* snapshot is named for; the last one always stays.                       *)
Superseded(lowest) == {f \in DOMAIN segments : \E g \in DOMAIN segments : f < g /\ g <= lowest}

deleteSegmentsBefore ==
  /\ snapPC = "prune" /\ Superseded(SnapName) # {}
  /\ segments' = Restrict(segments, DOMAIN segments \ {Min(Superseded(SnapName))})
  /\ UNCHANGED <<snapshots, stable, snap>>
  /\ SnapshotOnly

SnapshotInstalled ==
  /\ snapPC = "prune" /\ Superseded(SnapName) = {}
  /\ SnapshotEnds
  /\ UNCHANGED disk
  /\ SnapshotOnly

-----------------------------------------------------------------------------
(* The flush ticker, Sync and Close.                                       *)

FsyncMutant ==
  /\ status = "up" /\ pc = "idle" /\ ~latched
  /\ promised' = acked
  /\ UNCHANGED <<disk, status, config, memory, latched, writer, snap, now, history, acked>>

Fsync ==
  /\ status = "up" /\ pc = "idle" /\ ~latched
  /\ segments' = Synced(current)
  /\ promised' = acked
  /\ UNCHANGED <<snapshots, stable, status, config, memory, latched, writer, snap, now,
                 history, acked>>

FsyncFails ==
  /\ "sync" \in Faults
  /\ status = "up" /\ pc = "idle" /\ ~latched
  /\ latched' = TRUE
  /\ UNCHANGED <<disk, status, config, memory, writer, snap, now, callers>>

(* Close reaches the writer: one more sync, whether or not it succeeds.    *)
(* After a roll that failed the file may be closed, and the sync sure to   *)
(* fail: that roll had synced it and latched, so nothing changes.          *)
CloseRequest ==
  /\ status = "up" /\ pc = "idle"
  /\ \/ /\ segments' = Synced(current)
        /\ promised' = IF latched THEN promised ELSE acked
        /\ UNCHANGED latched
     \/ "sync" \in Faults /\ latched' = TRUE /\ UNCHANGED <<segments, promised>>
  /\ pc' = "closing"
  /\ UNCHANGED <<snapshots, stable, status, config, memory, current, seq, bytesSinceSnapshot,
                 batch, pending, snap, now, history, acked>>

FinalSnapshotMutant ==
  /\ pc = "closing" /\ snapPC = "idle" /\ ~latched
  /\ IF evictionGeneration = 0 THEN BeginCapture ELSE BeginRebuild
  /\ pc' = "final"
  /\ UNCHANGED <<disk, status, config, memory, latched, current, seq, bytesSinceSnapshot,
                 batch, pending, now, callers>>

(* snapshotWG.Wait, then writeFinalSnapshot.                               *)
FinalSnapshot ==
  /\ pc = "closing" /\ snapPC = "idle"
  /\ IF evictionGeneration = 0 THEN BeginCapture ELSE BeginRebuild
  /\ pc' = "final"
  /\ UNCHANGED <<disk, status, config, memory, latched, current, seq, bytesSinceSnapshot,
                 batch, pending, now, callers>>

CloseDone ==
  /\ pc = "final" /\ snapPC = "idle"
  /\ ProcessEnds
  /\ UNCHANGED <<disk, now, callers>>

-----------------------------------------------------------------------------
(* The environment.                                                        *)

Tick ==
  /\ now < MaxTime
  /\ now' = now + 1
  /\ UNCHANGED <<disk, status, config, memory, latched, writer, snap, callers>>

(* A read or the sweep meets an entry whose deadline has passed.           *)
Reclaim(k) ==
  /\ status = "up" /\ entries[k] # NoEntry /\ deadlinePassed(entries[k])
  /\ entries' = Without(entries, {k})
  /\ UNCHANGED <<disk, status, config, evictionGeneration, logSequence, latched, writer, snap,
                 now, callers>>

(* The process dies; what it wrote stays in the page cache.                *)
Crash ==
  /\ "crash" \in Faults
  /\ status = "up"
  /\ \/ UNCHANGED <<segments, history>>
     \/ /\ CanWrite
        /\ \E p \in 0..ChunkLength, torn \in BOOLEAN :
             /\ torn => p < ChunkLength
             /\ PartialWrite(p, torn)
  /\ ProcessEnds
  /\ UNCHANGED <<snapshots, stable, now, acked, promised>>

(* The machine dies: cells that were not synced survive up to some point,  *)
(* and the snapshot directory may be the one last synced.                  *)
Unsynced == {f \in DOMAIN segments : segments[f].synced < Len(segments[f].cells)}

PowerLoss ==
  /\ "power" \in Faults
  /\ status \in {"up", "down"}
  /\ \E keep \in [Unsynced -> Sequence], torn \in BOOLEAN :
       /\ \A f \in Unsynced : segments[f].synced <= keep[f] /\ keep[f] <= Len(segments[f].cells)
       /\ segments' =
            [f \in DOMAIN segments |->
               IF f \notin Unsynced THEN segments[f]
               ELSE [cells |-> SubSeq(segments[f].cells, 1, keep[f])
                                 \o (IF torn /\ keep[f] < Len(segments[f].cells) THEN <<Torn>> ELSE <<>>),
                     synced |-> segments[f].synced]]
       /\ history' = SubSeq(history, 1,
                            Min({Len(history)} \cup {f + keep[f] - 1 : f \in Unsynced}))
  /\ snapshots' \in {snapshots, stable}
  /\ stable' = snapshots'
  /\ acked' = Min({acked, Len(history')})
  /\ ProcessEnds
  /\ UNCHANGED <<now, promised>>

-----------------------------------------------------------------------------
WriterStep ==
  \/ SequenceExhausted \/ RollForWrite \/ RollForWriteFails \/ WriteRecords \/ WriteFails
  \/ applySet \/ applyDelete
  \/ NoSnapshotDue \/ StartMemorySnapshot \/ StartDurableSnapshot \/ DurableSnapshotAborts
  \/ FinalSnapshot \/ CloseDone

SnapshotStep ==
  \/ CaptureShard \/ RebuildImage \/ SnapshotFails \/ DiscardSnapshot \/ RenameSnapshot
  \/ SyncDirectory \/ removeOtherSnapshots \/ deleteSegmentsBefore \/ SnapshotInstalled

Next ==
  \/ \E option \in Options : Open(option[1], option[2])
  \/ OpenFailsAfterInstall \/ OpenRefused
  \/ DrainWrites \/ Fsync \/ FsyncFails \/ CloseRequest
  \/ WriterStep \/ SnapshotStep
  \/ Tick \/ Crash \/ PowerLoss
  \/ \E k \in Keys : Reclaim(k)

Spec == Init /\ [][Next]_vars

(* The writer and the snapshot goroutine keep running while they can.      *)
FairSpec == Spec /\ WF_vars(WriterStep) /\ WF_vars(SnapshotStep)

(* And the select of runWriter does not ignore the flush ticker for ever.  *)
FlushSpec == FairSpec /\ SF_vars(Fsync)

-----------------------------------------------------------------------------
(* Properties.                                                             *)

DiskTypeOK ==
  /\ DOMAIN segments \subseteq 1..(MaxSequence + 1)
  /\ segments \in [DOMAIN segments -> Segment]
  /\ DOMAIN snapshots \subseteq Sequence /\ snapshots \in [DOMAIN snapshots -> Snapshot]
  /\ DOMAIN stable \subseteq Sequence /\ stable \in [DOMAIN stable -> Snapshot]
  /\ \A f \in DOMAIN segments : segments[f].synced <= Len(segments[f].cells)

ProcessTypeOK ==
  /\ status \in {"down", "up", "refused"}
  /\ shards \in Nat \ {0} /\ capacity \in Nat \ {0}
  /\ status = "up" => shards \in ShardCounts
  /\ entries \in Image /\ evictionGeneration \in Nat /\ logSequence \in Sequence
  /\ latched \in BOOLEAN
  /\ pc \in {"idle", "write", "apply", "check", "closing", "final"}
  /\ current \in 0..(MaxSequence + 1) /\ seq \in Sequence
  /\ bytesSinceSnapshot \in Nat
  /\ batch \in Seq(Requests) /\ pending \in Seq(Cell)

SnapshotTypeOK ==
  /\ snapPC \in {"idle", "capture", "rebuild", "ready", "renamed", "remove", "prune"}
  /\ snapMode \in {"memory", "durable"}
  /\ snapGeneration \in Nat /\ snapThrough \in Sequence /\ snapNext \in Nat
  /\ snapPC # "idle" => snapCover \in [0..(shards - 1) -> Sequence]
  /\ snapImage \in Image

CallersTypeOK ==
  /\ now \in Time
  /\ history \in Seq(Cell)
  /\ acked \in Sequence /\ promised \in Sequence

(* Every variable stays in its type.                                       *)
TypeOK == DiskTypeOK /\ ProcessTypeOK /\ SnapshotTypeOK /\ CallersTypeOK

(* What recoverLog finds in the directory, whatever the shard count, is    *)
(* what the last record written for each key left there, up to entries     *)
(* that have expired.                                                      *)
RecoveryIsExact ==
  /\ RecoveredSequence = Len(history)
  /\ \A n \in ShardCounts :
       LET image == RecoveredImage(n)
       IN  \A k \in Keys : Live(image[k]) = Live(Latest(k, Len(history)))

(* If the process is killed now, Open succeeds with any shard count and    *)
(* recovers exactly the records written: nothing acknowledged is missing,  *)
(* nothing deleted comes back, and evicted entries do.                     *)
CrashRecoverable ==
  /\ status # "refused"
  /\ CanRecover /\ RecoveryIsExact
  /\ acked <= Len(history)

(* A read sees the last applied write of its key or, once something has    *)
(* been evicted, possibly nothing; never an older value.                   *)
ReadsAreCurrent ==
  status = "up" =>
    \A k \in Keys :
      \/ Live(entries[k]) = Live(Latest(k, logSequence))
      \/ entries[k] = NoEntry /\ evictionGeneration # 0

(* A snapshot holds, for each of its shards, exactly what the log left     *)
(* there at the sequence its header records for that shard, up to entries  *)
(* that have expired.                                                      *)
SnapshotTruthful(s) ==
  \A k \in Keys :
    /\ s.cover[ShardOf(k, s.shards)] <= Len(history)
    /\ Live(s.image[k]) = Live(Latest(k, s.cover[ShardOf(k, s.shards)]))

(* Every snapshot that installSnapshot has renamed into place is truthful, *)
(* although its shards were captured one by one beside the writer and the  *)
(* evictions.                                                              *)
InstalledSnapshotsTruthful == \A name \in DOMAIN snapshots : SnapshotTruthful(snapshots[name])

(* The records on stable storage: in the synced part of their segment, or  *)
(* covered by a snapshot that the directory holds for good.                *)
OnStableStorage ==
  {i \in 1..Len(history) :
     \/ \E f \in DOMAIN segments :
          /\ f <= i /\ i < f + segments[f].synced
          /\ segments[f].cells[i - f + 1] = history[i]
     \/ \E name \in DOMAIN stable : i <= name /\ name \in DOMAIN snapshots}

(* What a successful fsync (the ticker's, Sync's or Close's) covered is on *)
(* stable storage.  Sync only syncs the current file, so this rests on     *)
(* rollSegment having synced every earlier one.                            *)
SyncedIsStable == 1..promised \subseteq OnStableStorage

(* A latched store appends nothing and acknowledges nothing until it is    *)
(* reopened.                                                               *)
LatchedStoreIsSilent ==
  [][latched /\ latched' => UNCHANGED <<history, acked, promised>>]_vars

(* A segment is removed only when a snapshot that the directory holds for  *)
(* good covers, on every shard, each record in it (installSnapshot syncs   *)
(* the directory before deleteSegmentsBefore).                             *)
PruneOnlyCovered ==
  [][\A f \in DOMAIN segments \ DOMAIN segments' :
       \E name \in DOMAIN stable \cap DOMAIN snapshots :
         f + Len(segments[f].cells) - 1 <= Lowest(stable[name])]_vars

(* After a power loss, if Open accepts the directory then it recovers      *)
(* exactly the records that survived, never a mixture of a newer snapshot  *)
(* with an older log; and what a successful fsync covered has survived.    *)
PowerLossHonest ==
  /\ CanRecover => RecoveryIsExact
  /\ promised <= Len(history)

(* An acknowledged write reaches stable storage, by the flush ticker, a    *)
(* roll or a snapshot, unless the process ends or the store latches an     *)
(* error first: a latched store flushes nothing more before Close.         *)
AckedBecomesStable ==
  \A n \in 1..MaxSequence :
    (status = "up" /\ acked = n) ~> (n \in OnStableStorage \/ status # "up" \/ latched)

(* A snapshot that has begun ends, installed, discarded or failed.         *)
SnapshotTerminates == (snapPC # "idle") ~> (snapPC = "idle")

(* A drained batch is written and answered, also when its evictions must   *)
(* wait for the interlock an installing snapshot holds.                    *)
BatchAnswered == (pc = "write") ~> (pc = "idle")

(* A Close that reached the writer completes: it outwaits the background   *)
(* snapshot, then takes and finishes the final one.                        *)
CloseTerminates == (pc = "closing") ~> (status = "down")

-----------------------------------------------------------------------------
(* What the documentation says and the code does not do.                   *)

(* README.md:54, docs/adr/0001:7: a power loss costs at most one flush     *)
(* interval; in particular the directory still opens.                      *)
PowerLossRecoverable == status # "refused"
=============================================================================
