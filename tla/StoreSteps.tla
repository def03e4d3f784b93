----------------------------- MODULE StoreSteps -----------------------------
(***************************************************************************)
(* Every step of the writer, of a snapshot and of the lifecycle keeps the  *)
(* invariant: the segment files always form one chain of consecutive       *)
(* sequences that ends where the writer is.  A latched store is silent, and*)
(* a segment is only removed when a snapshot covers it.                    *)
(***************************************************************************)
EXTENDS StoreInvariant

-----------------------------------------------------------------------------
(* The steps of a snapshot.                                                *)

(* A snapshot that fails, is overtaken by an eviction or is done leaves    *)
(* the directory as it is.                                                 *)
LEMMA StepSnapshotEnds ==
  ASSUME Inv, SnapshotFails \/ DiscardSnapshot \/ SnapshotInstalled
  PROVE  Inv'
<1>1. SnapshotEnds /\ UNCHANGED disk /\ SnapshotOnly
  BY Zenon DEF SnapshotFails, DiscardSnapshot, SnapshotInstalled
<1>2. SnapshotTypeOK' /\ SnapInv'  BY Zenon, <1>1, EndedSnapshot
<1>3. DiskTypeOK' /\ ProcessTypeOK' /\ CallersTypeOK'  BY Zenon, <1>1, Kept DEF SnapshotOnly
<1>4. LogInv'  BY Zenon, <1>1, Kept DEF SnapshotOnly, disk, writer
<1>5. WriterInv'  BY Zenon, <1>1, Kept DEF SnapshotOnly, SnapshotEnds, writer, memory
<1> QED  BY Zenon, <1>2, <1>3, <1>4, <1>5 DEF Inv, TypeOK

(* A shard is captured at the published sequence, which the writer has     *)
(* applied.                                                                *)
LEMMA StepCaptureShard ==
  ASSUME Inv, CaptureShard
  PROVE  Inv'
<1>1. /\ snapPC = "capture" /\ snapPC' \in {"ready", "capture"} /\ SnapshotOnly /\ UNCHANGED disk
      /\ snapCover' = [snapCover EXCEPT ![snapNext] = logSequence]
      /\ UNCHANGED <<snapMode, snapGeneration, snapThrough>> /\ snapNext' = snapNext + 1
  BY Zenon DEF CaptureShard
<1>2. /\ entries \in Image /\ snapImage \in Image /\ snapCover \in [0..(shards - 1) -> Sequence]
      /\ logSequence \in Sequence /\ snapNext \in Nat
  BY Zenon, <1>1 DEF Inv, TypeOK, ProcessTypeOK, SnapshotTypeOK
<1>3. DiskTypeOK' /\ ProcessTypeOK' /\ CallersTypeOK'  BY Zenon, <1>1, Kept DEF SnapshotOnly
<1>4. LogInv'  BY Zenon, <1>1, Kept DEF SnapshotOnly, disk, writer
<1>5. WriterInv'  BY Zenon, <1>1, Kept DEF SnapshotOnly, writer, memory
<1>6. SnapshotTypeOK'
  <2>1. snapImage' \in Image  BY Zenon, <1>2 DEF CaptureShard, Image
  <2>2. snapCover' \in [0..(shards - 1) -> Sequence] /\ shards' = shards
    BY Zenon, <1>1, <1>2 DEF SnapshotOnly, config
  <2> QED  BY SMTT(30), <1>1, <1>2, <2>1, <2>2 DEF Inv, TypeOK, SnapshotTypeOK
<1>7. SnapInv'
  <2>1. logSequence = seq /\ seq \in Sequence
    BY Zenon, <1>1 DEF Inv, WriterInv, TypeOK, ProcessTypeOK
  <2>2. UNCHANGED <<shards, seq>>  BY Zenon, <1>1 DEF SnapshotOnly, config, writer
  <2>3. \A i \in 0..(shards - 1) : snapCover'[i] <= seq
    BY SMTT(30), <1>1, <1>2, <2>1 DEF Inv, SnapInv, Sequence
  <2> QED  BY Zenon, <1>1, <2>2, <2>3 DEF SnapInv
<1> QED  BY Zenon, <1>3, <1>4, <1>5, <1>6, <1>7 DEF Inv, TypeOK

(* recoverDurableImage gives an image.                                     *)
LEMMA StepRebuildImage ==
  ASSUME Inv, RebuildImage
  PROVE  Inv'
<1>1. /\ snapPC = "rebuild" /\ snapPC' = "ready" /\ SnapshotOnly /\ UNCHANGED disk
      /\ UNCHANGED <<snapMode, snapGeneration, snapThrough, snapNext, snapCover>>
      /\ CanRebuild(snapThrough) /\ snapImage' = RebuiltImage(shards, snapThrough)
  BY Zenon DEF RebuildImage
<1>2. DiskTypeOK' /\ ProcessTypeOK' /\ CallersTypeOK'  BY Zenon, <1>1, Kept DEF SnapshotOnly
<1>3. LogInv'  BY Zenon, <1>1, Kept DEF SnapshotOnly, disk, writer
<1>4. WriterInv'  BY Zenon, <1>1, Kept DEF SnapshotOnly, writer, memory
<1>5. SnapshotTypeOK'
  <2>1. TypeOK /\ snapThrough \in Sequence  BY Zenon DEF Inv, TypeOK, SnapshotTypeOK
  <2>2. loadSnapshot.image \in Image /\ Lowest(loadSnapshot) \in Sequence  BY Zenon, <2>1, LoadedSnapshot
  <2>3. snapImage' \in Image
    <3>1. CASE DOMAIN snapshots # {} /\ CoveredBySnapshot(snapThrough)
      BY Zenon, <1>1, <2>2, <3>1 DEF RebuiltImage
    <3>2. CASE ~(DOMAIN snapshots # {} /\ CoveredBySnapshot(snapThrough))
      <4>1. DOMAIN segments # {} /\ Min(DOMAIN segments) <= FirstRequired(loadSnapshot)
        BY Zenon, <1>1, <3>2 DEF CanRebuild
      <4> QED  BY ZenonT(30), <1>1, <2>1, <2>2, <3>2, <4>1, ReplayImageType DEF RebuiltImage
    <3> QED  BY Zenon, <3>1, <3>2
  <2> QED  BY Zenon, <1>1, <2>3 DEF Inv, TypeOK, SnapshotTypeOK, SnapshotOnly, config
<1>6. SnapInv'  BY Zenon, <1>1 DEF Inv, SnapInv, SnapshotOnly, config, writer
<1> QED  BY Zenon, <1>2, <1>3, <1>4, <1>5, <1>6 DEF Inv, TypeOK

(* The rename puts the snapshot under its name.                            *)
LEMMA StepRenameSnapshot ==
  ASSUME Inv, RenameSnapshot
  PROVE  Inv'
<1> DEFINE new == [shards |-> shards, cover |-> snapCover, image |-> snapImage]
<1>1. /\ snapPC = "ready" /\ snapPC' = "renamed" /\ SnapshotOnly
      /\ snapshots' = Put(snapshots, SnapName, new)
      /\ UNCHANGED <<segments, stable, snapMode, snapGeneration, snapThrough, snapNext, snapCover, snapImage>>
  BY Zenon DEF RenameSnapshot
<1>2. UNCHANGED <<status, shards, current, seq, pending, pc, latched, batch, logSequence>>
  BY Zenon, <1>1 DEF SnapshotOnly, config, writer, memory
<1>3. ProcessTypeOK' /\ CallersTypeOK'  BY Zenon, <1>1, Kept DEF SnapshotOnly
<1>4. LogInv'  BY Zenon, <1>1, <1>2, Kept
<1>5. WriterInv'  BY Zenon, <1>1, <1>2, Kept
<1>6. SnapshotTypeOK'  BY Zenon, <1>1, <1>2 DEF Inv, TypeOK, SnapshotTypeOK
<1>7. new \in Snapshot
  <2>1. shards \in ShardCounts
    BY Zenon, <1>1 DEF Inv, WriterInv, TypeOK, ProcessTypeOK
  <2>2. snapCover \in [0..(shards - 1) -> Sequence] /\ snapImage \in Image
    BY Zenon, <1>1 DEF Inv, TypeOK, SnapshotTypeOK
  <2> QED  BY <2>1, <2>2 DEF Snapshot
<1> HIDE DEF new
<1>8. /\ DOMAIN snapshots' = DOMAIN snapshots \cup {SnapName} /\ snapshots'[SnapName] = new
      /\ \A y \in DOMAIN snapshots : y # SnapName => snapshots'[y] = snapshots[y]
      /\ snapshots' = [y \in DOMAIN snapshots' |-> snapshots'[y]]
  BY Zenon, <1>1 DEF Put
<1>9. DiskTypeOK'
  <2>1. SnapName \in Sequence  BY Zenon, <1>1, SnapNameFacts
  <2>2. \A y \in DOMAIN snapshots' : snapshots'[y] \in Snapshot
    BY Zenon, <1>7, <1>8 DEF Inv, TypeOK, DiskTypeOK
  <2>3. DOMAIN snapshots' \subseteq Sequence /\ snapshots' \in [DOMAIN snapshots' -> Snapshot]
    BY Zenon, <1>8, <2>1, <2>2 DEF Inv, TypeOK, DiskTypeOK
  <2> QED  BY Zenon, <1>1, <2>3 DEF Inv, TypeOK, DiskTypeOK
<1>10. SnapInv'
  <2>1. SnapName' = SnapName /\ snapshots'[SnapName].cover = snapCover
    BY SMTT(30), <1>1, <1>8 DEF SnapName, new
  <2> QED  BY Zenon, <1>1, <1>2, <1>8, <2>1 DEF Inv, SnapInv
<1> QED  BY ZenonT(30), <1>3, <1>4, <1>5, <1>6, <1>9, <1>10 DEF Inv, TypeOK

(* The directory sync makes the renamed snapshot permanent.                *)
LEMMA StepSyncDirectory ==
  ASSUME Inv, SyncDirectory
  PROVE  Inv'
<1>1. /\ snapPC = "renamed" /\ snapPC' = "remove" /\ SnapshotOnly /\ stable' = snapshots
      /\ UNCHANGED <<segments, snapshots, snapMode, snapGeneration, snapThrough, snapNext, snapCover, snapImage>>
  BY Zenon DEF SyncDirectory
<1>2. UNCHANGED <<status, shards, current, seq, pending, pc, latched, batch, logSequence>>
  BY Zenon, <1>1 DEF SnapshotOnly, config, writer, memory
<1>3. ProcessTypeOK' /\ CallersTypeOK'  BY Zenon, <1>1, Kept DEF SnapshotOnly
<1>4. LogInv'  BY Zenon, <1>1, <1>2, Kept
<1>5. WriterInv'  BY Zenon, <1>1, <1>2, Kept
<1>6. SnapshotTypeOK'  BY Zenon, <1>1, <1>2 DEF Inv, TypeOK, SnapshotTypeOK
<1>7. DiskTypeOK'  BY Zenon, <1>1 DEF Inv, TypeOK, DiskTypeOK
<1>8. SnapInv'  BY ZenonT(30), <1>1, <1>2 DEF Inv, SnapInv, SnapName
<1> QED  BY Zenon, <1>3, <1>4, <1>5, <1>6, <1>7, <1>8 DEF Inv, TypeOK

(* Removing the other snapshots keeps this one.                            *)
LEMMA StepRemoveOtherSnapshots ==
  ASSUME Inv, removeOtherSnapshots
  PROVE  Inv'
<1>1. /\ snapPC = "remove" /\ snapPC' \in {"remove", "prune"} /\ SnapshotOnly
      /\ UNCHANGED <<segments, stable, snapMode, snapGeneration, snapThrough, snapNext, snapCover, snapImage>>
  BY Zenon DEF removeOtherSnapshots
<1>2. UNCHANGED <<status, shards, current, seq, pending, pc, latched, batch, logSequence>>
  BY Zenon, <1>1 DEF SnapshotOnly, config, writer, memory
<1>3. ProcessTypeOK' /\ CallersTypeOK'  BY Zenon, <1>1, Kept DEF SnapshotOnly
<1>4. LogInv'  BY Zenon, <1>1, <1>2, Kept
<1>5. WriterInv'  BY Zenon, <1>1, <1>2, Kept
<1>6. SnapshotTypeOK'  BY Zenon, <1>1, <1>2 DEF Inv, TypeOK, SnapshotTypeOK
<1>7. \/ UNCHANGED snapshots
      \/ \E y \in DOMAIN snapshots \ {SnapName} : snapshots' = Restrict(snapshots, DOMAIN snapshots \ {y})
  <2> DEFINE others == DOMAIN snapshots \ {SnapName}
  <2>1. others \subseteq Nat  BY SMTT(30), NoImageType DEF Inv, TypeOK, DiskTypeOK, Sequence
  <2>2. others # {} => Min(others) \in others
    <3> HIDE DEF others
    <3> QED  BY Zenon, <2>1, MinFacts
  <2> QED  BY Zenon, <2>2 DEF removeOtherSnapshots
<1>8. /\ SnapName \in DOMAIN snapshots => SnapName \in DOMAIN snapshots'
      /\ DOMAIN snapshots' \subseteq DOMAIN snapshots /\ snapshots' \in [DOMAIN snapshots' -> Snapshot]
      /\ \A y \in DOMAIN snapshots' : snapshots'[y] = snapshots[y]
  BY Zenon, <1>7 DEF Restrict, Inv, TypeOK, DiskTypeOK
<1>9. DiskTypeOK'  BY Zenon, <1>1, <1>8 DEF Inv, TypeOK, DiskTypeOK
<1>10. SnapInv'
  <2>1. SnapName' = SnapName  BY Zenon, <1>1 DEF SnapName
  <2> QED  BY Zenon, <1>1, <1>2, <1>8, <2>1 DEF Inv, SnapInv
<1> QED  BY Zenon, <1>3, <1>4, <1>5, <1>6, <1>9, <1>10 DEF Inv, TypeOK

(* Removing a superseded file keeps the chain and the writer's file.       *)
LEMMA StepDeleteSegmentsBefore ==
  ASSUME Inv, deleteSegmentsBefore
  PROVE  Inv'
<1> DEFINE m == Min(Superseded(SnapName))
<1>1. /\ snapPC = "prune" /\ Superseded(SnapName) # {} /\ SnapshotOnly
      /\ segments' = Restrict(segments, DOMAIN segments \ {m}) /\ UNCHANGED <<snapshots, stable, snap>>
  BY Zenon DEF deleteSegmentsBefore
<1>2. /\ m \in DOMAIN segments /\ m # current /\ \A y \in DOMAIN segments : m <= y
  BY Zenon, <1>1, FirstSuperseded
<1> HIDE DEF m
<1>3. UNCHANGED <<status, shards, current, seq, pending, pc, latched, batch, logSequence>>
  BY Zenon, <1>1 DEF SnapshotOnly, config, writer, memory
<1>4. ProcessTypeOK' /\ CallersTypeOK'  BY Zenon, <1>1, Kept DEF SnapshotOnly
<1>5. SnapshotTypeOK' /\ SnapInv' /\ WriterInv'  BY Zenon, <1>1, <1>3, Kept DEF snap
<1>6. Chain(segments')  BY Zenon, <1>1, <1>2, ChainDropsFirst DEF Inv, LogInv
<1>7. DiskTypeOK'  BY Zenon, <1>1, <1>6 DEF Inv, TypeOK, DiskTypeOK, Chain, SegmentsType
<1>8. LogInv'
  <2>1. /\ DOMAIN segments' = DOMAIN segments \ {m}
        /\ \A y \in DOMAIN segments' : segments'[y] = segments[y]
    BY Zenon, <1>1 DEF Restrict
  <2> QED  BY ZenonT(30), <1>2, <1>3, <1>6, <2>1 DEF Inv, LogInv, AtTheEnd
<1> QED  BY ZenonT(30), <1>4, <1>5, <1>7, <1>8 DEF Inv, TypeOK

-----------------------------------------------------------------------------
(* The steps of the writer.                                                *)

(* Appending numbered cells to the file the writer is at the end of.       *)
LEMMA AppendedFacts ==
  ASSUME Inv, CanWrite, NEW t \in Seq(Cell),
         \A i \in 1..Len(t) : \/ t[i].op # "torn" /\ t[i].seq = seq + i
                              \/ t[i].op = "torn" /\ i = Len(t)
  PROVE  /\ Chain(Appended(t)) /\ DOMAIN Appended(t) = DOMAIN segments
         /\ Appended(t)[current].cells = segments[current].cells \o t
<1> DEFINE old == segments[current]
           v == [old EXCEPT !.cells = @ \o t]
<1>1. /\ current \in DOMAIN segments /\ \A f \in DOMAIN segments : f <= current
      /\ Whole(old.cells) /\ current + Len(old.cells) = seq + 1
      /\ current \in Nat /\ seq \in Nat /\ old.cells \in Seq(Cell)
  BY WritingFacts, NoImageType DEF CanWrite, Sequence
<1>2. /\ old \in Segment /\ old.synced \in Nat /\ old.synced <= Len(old.cells)
      /\ Numbered(current, old.cells)
  BY Zenon, <1>1 DEF Inv, LogInv, Chain, SegmentsType, Segment
<1> DEFINE both == old.cells \o t
<1>3. /\ both \in Seq(Cell) /\ Len(old.cells) \in Nat /\ Len(t) \in Nat
      /\ Len(both) = Len(old.cells) + Len(t)
      /\ \A i \in 1..Len(old.cells) : both[i] = old.cells[i]
      /\ \A i \in 1..Len(t) : both[Len(old.cells) + i] = t[i]
  BY SMTT(30), <1>1, ConcatFacts
<1>4. v \in Segment /\ v.cells = both /\ v.synced = old.synced /\ v.synced <= Len(v.cells)
  <2>1. v.cells = both /\ v.synced = old.synced /\ v \in Segment  BY Zenon, <1>2, <1>3 DEF Segment
  <2> HIDE DEF v, both
  <2> QED  BY SMTT(30), <2>1, <1>2, <1>3
<1>5. Numbered(current, both)
  <2> HIDE DEF both
  <2> SUFFICES ASSUME NEW i \in 1..Len(both)
               PROVE  \/ both[i].op # "torn" /\ both[i].seq = current + i - 1
                      \/ both[i].op = "torn" /\ i = Len(both)
    BY Zenon DEF Numbered
  <2>1. CASE i <= Len(old.cells)
    <3>1. i \in 1..Len(old.cells) /\ both[i] = old.cells[i]  BY SMTT(30), <2>1, <1>3
    <3>2. old.cells[i].op # "torn"  BY <3>1, <1>1 DEF Whole
    <3> QED  BY Zenon, <3>1, <3>2, <1>2 DEF Numbered
  <2>2. CASE i > Len(old.cells)
    <3> DEFINE j == i - Len(old.cells)
    <3>1. j \in 1..Len(t) /\ i = Len(old.cells) + j /\ (j = Len(t) => i = Len(both))
      BY <2>2, <1>3
    <3>2. both[i] = t[j]  BY Zenon, <3>1, <1>3
    <3>3. seq + j = current + i - 1
      <4> DEFINE n == Len(old.cells)
      <4>1. current + n = seq + 1 /\ i = n + j  BY ZenonT(30), <1>1, <3>1
      <4>2. n \in Int /\ current \in Int /\ seq \in Int /\ i \in Int /\ j \in Int  BY SMTT(30), <1>1, <1>3, <3>1
      <4> HIDE DEF n, j
      <4>3. current = seq + 1 - n  BY SMTT(30), <4>1, <4>2
      <4> QED  BY SMTT(30), <4>1, <4>2, <4>3
    <3> HIDE DEF j
    <3> QED  BY Zenon, <3>1, <3>2, <3>3
  <2> QED  BY SMTT(30), <2>1, <2>2, <1>3
<1>6. Chain(Put(segments, current, v))
  <2> HIDE DEF v
  <2> QED  BY ZenonT(30), <1>1, <1>4, <1>5, ChainRewritesLast DEF Inv, LogInv
<1>7. Appended(t) = Put(segments, current, v)  BY Zenon DEF Appended
<1> QED  BY Zenon, <1>1, <1>4, <1>6, <1>7 DEF Put

(* WriteRecords: the chunk is in the file, numbered and pending.           *)
LEMMA StepWriteRecords ==
  ASSUME Inv, WriteRecords
  PROVE  Inv'
<1>1. /\ CanWrite /\ segments' = Appended(Chunk) /\ history' = history \o Chunk /\ pending' = Chunk
      /\ batch' = SubSeq(batch, ChunkLength + 1, Len(batch)) /\ pc' = "apply"
      /\ bytesSinceSnapshot' = bytesSinceSnapshot + ChunkLength
      /\ UNCHANGED <<snapshots, stable, status, config, memory, latched, current, seq, snap, now,
                     acked, promised>>
  BY Zenon DEF WriteRecords
<1>2. UNCHANGED <<shards, capacity, entries, evictionGeneration, logSequence, snapPC, snapCover>>
  BY Zenon, <1>1 DEF config, memory, snap
<1>3. /\ status = "up" /\ ~latched /\ batch # <<>> /\ pending = <<>>
      /\ current \in DOMAIN segments /\ \A f \in DOMAIN segments : f <= current
      /\ Whole(segments[current].cells) /\ current + Len(segments[current].cells) = seq + 1
      /\ current \in Nat /\ seq \in Sequence /\ segments[current].cells \in Seq(Cell)
  BY Zenon, <1>1, WritingFacts DEF CanWrite
<1>4. /\ ChunkLength \in 1..Len(batch) /\ Chunk \in Seq(Cell) /\ Len(Chunk) = ChunkLength
      /\ \A i \in 1..ChunkLength : Chunk[i].op # "torn" /\ Chunk[i].seq = seq + i
  BY Zenon, <1>1, ChunkFacts
<1>5. /\ Chain(segments') /\ DOMAIN segments' = DOMAIN segments
      /\ segments'[current].cells = segments[current].cells \o Chunk
  BY ZenonT(30), <1>1, <1>4, AppendedFacts
<1>6. DiskTypeOK'  BY Zenon, <1>1, <1>5 DEF Inv, TypeOK, DiskTypeOK, Chain, SegmentsType
<1>7. ProcessTypeOK'
  <2>1. batch' \in Seq(Requests)  BY SMTT(30), <1>1, <1>4 DEF Inv, TypeOK, ProcessTypeOK
  <2>2. bytesSinceSnapshot' \in Nat  BY <1>1, <1>4 DEF Inv, TypeOK, ProcessTypeOK
  <2>3. pending' \in Seq(Cell)  BY Zenon, <1>1, <1>4
  <2> QED  BY ZenonT(30), <1>1, <1>2, <2>1, <2>2, <2>3 DEF Inv, TypeOK, ProcessTypeOK
<1>8. SnapshotTypeOK' /\ SnapInv'  BY ZenonT(30), <1>1, <1>2, Kept
<1>9. CallersTypeOK'
  <2>1. history' \in Seq(Cell)  BY SMTT(30), <1>1, <1>4 DEF Inv, TypeOK, CallersTypeOK
  <2> QED  BY ZenonT(30), <1>1, <2>1 DEF Inv, TypeOK, CallersTypeOK
<1>10. WriterInv'
  <2>1. Chunk # <<>>  BY <1>4
  <2>2. \A i \in 1..Len(pending') : pending'[i].seq = seq + i /\ pending'[i].op # "torn"
    BY Zenon, <1>1, <1>4
  <2> QED  BY ZenonT(30), <1>1, <1>2, <1>3, <2>1, <2>2 DEF Inv, WriterInv
<1>11. LogInv'
  <2> DEFINE old == segments[current].cells
             both == old \o Chunk
  <2>1. /\ both \in Seq(Cell) /\ Len(old) \in Nat /\ Len(Chunk) \in Nat
        /\ Len(both) = Len(old) + Len(Chunk)
        /\ \A i \in 1..Len(old) : both[i] = old[i]
        /\ \A i \in 1..Len(Chunk) : both[Len(old) + i] = Chunk[i]
    <3>1. old \in Seq(Cell) /\ Chunk \in Seq(Cell)  BY Zenon, <1>3, <1>4
    <3> HIDE DEF old
    <3> QED  BY SMTT(30), <3>1, ConcatFacts
  <2>2. Whole(both)
    <3> HIDE DEF both
    <3>1. DOMAIN both = 1..Len(both)  BY <2>1
    <3> SUFFICES ASSUME NEW i \in 1..Len(both) PROVE both[i].op # "torn"  BY Zenon, <3>1 DEF Whole
    <3>2. CASE i <= Len(old)
      <4>1. i \in 1..Len(old)  BY SMTT(30), <3>2, <2>1
      <4>2. \A j \in 1..Len(old) : old[j].op # "torn"  BY <1>3 DEF Whole
      <4> QED  BY Zenon, <4>1, <4>2, <2>1
    <3>3. CASE i > Len(old)
      <4>1. i - Len(old) \in 1..Len(Chunk) /\ i = Len(old) + (i - Len(old))  BY <3>3, <2>1
      <4> QED  BY ZenonT(30), <4>1, <2>1, <1>4
    <3> QED  BY SMTT(30), <3>2, <3>3, <2>1
  <2>3. current + Len(both) = seq + Len(Chunk) + 1
    <3> HIDE DEF both, old
    <3>1. current + Len(old) = seq + 1  BY Zenon, <1>3 DEF old
    <3>2. current \in Int /\ seq \in Int  BY <1>3 DEF Sequence
    <3>3. Len(old) \in Nat /\ Len(Chunk) \in Nat /\ Len(both) = Len(old) + Len(Chunk)  BY Zenon, <2>1
    <3> QED  BY SMTT(30), <3>1, <3>2, <3>3
  <2>4. AtTheEnd'  BY ZenonT(30), <1>1, <1>3, <1>5, <2>2, <2>3 DEF AtTheEnd
  <2> QED  BY ZenonT(30), <1>1, <1>3, <1>5, <2>4 DEF LogInv
<1> QED  BY ZenonT(30), <1>6, <1>7, <1>8, <1>9, <1>10, <1>11 DEF Inv, TypeOK

(* What a write that stopped early, or a crash in it, leaves in the file.  *)
LEMMA PartialWriteFacts ==
  ASSUME Inv, CanWrite, NEW p \in 0..ChunkLength, NEW torn \in BOOLEAN, PartialWrite(p, torn)
  PROVE  /\ Chain(segments') /\ DOMAIN segments' = DOMAIN segments /\ history' \in Seq(Cell)
<1> DEFINE whole == SubSeq(Chunk, 1, p)
           tail == IF torn THEN <<Torn>> ELSE <<>>
           t == whole \o tail
<1>1. /\ ChunkLength \in Nat /\ Chunk \in Seq(Cell) /\ Len(Chunk) = ChunkLength
      /\ \A i \in 1..ChunkLength : Chunk[i].op # "torn" /\ Chunk[i].seq = seq + i
  BY ChunkFacts
<1>2. whole \in Seq(Cell) /\ Len(whole) = p /\ \A i \in 1..p : whole[i] = Chunk[i]
  BY Zenon, <1>1, PrefixFacts
<1>3. Torn \in Cell /\ Torn.op = "torn"
  <2>1. (CHOOSE k \in Keys : TRUE) \in Keys /\ 0 \in Time  BY ConstantsAssumption DEF Time
  <2> QED  BY Zenon, <2>1, NoImageType DEF Torn, Cell
<1>4. tail \in Seq(Cell) /\ Len(tail) \in 0..1 /\ \A i \in 1..Len(tail) : tail[i] = Torn
  <2>1. <<Torn>> \in Seq(Cell) /\ Len(<<Torn>>) = 1 /\ <<Torn>>[1] = Torn  BY <1>3
  <2>2. <<>> \in Seq(Cell) /\ Len(<<>>) = 0  OBVIOUS
  <2>3. CASE torn
    <3>1. tail = <<Torn>>  BY Zenon, <2>3
    <3> HIDE DEF tail
    <3> QED  BY <3>1, <2>1
  <2>4. CASE ~torn
    <3>1. tail = <<>>  BY Zenon, <2>4
    <3> HIDE DEF tail
    <3> QED  BY SMTT(30), <3>1, <2>2
  <2> QED  BY Zenon, <2>3, <2>4
<1> HIDE DEF whole, tail
<1>5. /\ t \in Seq(Cell) /\ Len(t) = p + Len(tail)
      /\ \A i \in 1..p : t[i] = whole[i]
      /\ \A i \in 1..Len(tail) : t[p + i] = tail[i]
  BY SMTT(30), <1>2, <1>4, ConcatFacts
<1> HIDE DEF t
<1>6. ASSUME NEW i \in 1..Len(t)
      PROVE  \/ t[i].op # "torn" /\ t[i].seq = seq + i
             \/ t[i].op = "torn" /\ i = Len(t)
  <2>1. p \in Nat /\ p <= ChunkLength  BY <1>1
  <2>2. CASE i <= p
    <3>1. i \in 1..p /\ i \in 1..ChunkLength  BY SMTT(30), <2>1, <2>2, <1>1
    <3> QED  BY Zenon, <3>1, <1>1, <1>2, <1>5
  <2>3. CASE i > p
    <3>1. Len(tail) = 1 /\ i = p + 1 /\ 1 \in 1..Len(tail) /\ i = Len(t)  BY SMTT(30), <2>1, <2>3, <1>4, <1>5
    <3>2. t[i] = Torn  BY ZenonT(30), <3>1, <1>4, <1>5
    <3> QED  BY Zenon, <3>1, <3>2, <1>3
  <2> QED  BY SMTT(30), <2>1, <2>2, <2>3
<1>7. segments' = Appended(t) /\ history' = history \o whole  BY Zenon DEF PartialWrite, t, whole, tail
<1>8. Chain(segments') /\ DOMAIN segments' = DOMAIN segments  BY ZenonT(30), <1>5, <1>6, <1>7, AppendedFacts
<1>9. history' \in Seq(Cell)  BY SMTT(30), <1>2, <1>7 DEF Inv, TypeOK, CallersTypeOK
<1> QED  BY Zenon, <1>8, <1>9

(* A batch that fails latches the store, which keeps the files.            *)
LEMMA FailedBatch ==
  ASSUME Inv, FailBatch, pc = "write", Chain(segments'),
         \A f \in DOMAIN segments' : f \in DOMAIN segments \/ f > seq,
         DOMAIN segments \subseteq DOMAIN segments',
         UNCHANGED <<snapshots, stable, status, config, memory, current, seq, bytesSinceSnapshot,
                     pending, snap>>
  PROVE  /\ DiskTypeOK' /\ ProcessTypeOK' /\ SnapshotTypeOK'
         /\ LogInv' /\ WriterInv' /\ SnapInv'
<1>1. UNCHANGED <<shards, capacity, entries, evictionGeneration, logSequence, snapPC, snapCover>>
  BY Zenon DEF config, memory, snap
<1>2. latched' = TRUE /\ batch' = <<>> /\ pc' = "check"  BY Zenon DEF FailBatch
<1>3. status = "up" /\ pending = <<>>  BY Zenon, WritingFacts
<1>4. DiskTypeOK'  BY Zenon DEF Inv, TypeOK, DiskTypeOK, Chain, SegmentsType
<1>5. ProcessTypeOK'
  <2>1. batch' \in Seq(Requests)  BY <1>2
  <2>2. latched' \in BOOLEAN  BY Zenon, <1>2
  <2> QED  BY ZenonT(30), <1>1, <1>2, <2>1, <2>2 DEF Inv, TypeOK, ProcessTypeOK
<1>6. SnapshotTypeOK' /\ SnapInv'  BY Zenon, <1>1, Kept
<1>7. LogInv'  BY Zenon, <1>2, <1>3 DEF Inv, LogInv
<1>8. WriterInv'  BY ZenonT(30), <1>1, <1>2, <1>3 DEF Inv, WriterInv
<1> QED  BY ZenonT(30), <1>4, <1>5, <1>6, <1>7, <1>8

(* A failed write may leave a torn tail; nothing is appended after it.     *)
LEMMA StepWriteFails ==
  ASSUME Inv, WriteFails
  PROVE  Inv'
<1>1. /\ CanWrite /\ pc = "write" /\ FailBatch
      /\ UNCHANGED <<snapshots, stable, status, config, memory, current, seq, bytesSinceSnapshot,
                     pending, snap, now, acked, promised>>
  BY Zenon DEF WriteFails, CanWrite
<1>2. PICK p \in 0..(ChunkLength - 1), torn \in BOOLEAN : PartialWrite(p, torn)
  BY Zenon DEF WriteFails
<1>3. ChunkLength \in Nat /\ seq + ChunkLength <= MaxSequence /\ seq \in Nat /\ MaxSequence \in Nat
  BY SMTT(30), <1>1, ChunkFacts, NoImageType DEF Inv, TypeOK, ProcessTypeOK, Sequence
<1>4. p \in 0..ChunkLength  BY <1>3
<1>5. Chain(segments') /\ DOMAIN segments' = DOMAIN segments /\ history' \in Seq(Cell)
  BY Zenon, <1>1, <1>2, <1>4, PartialWriteFacts
<1>6. DiskTypeOK' /\ ProcessTypeOK' /\ SnapshotTypeOK' /\ LogInv' /\ WriterInv' /\ SnapInv'
  BY Zenon, <1>1, <1>5, FailedBatch
<1>7. CallersTypeOK'  BY Zenon, <1>1, <1>5 DEF Inv, TypeOK, CallersTypeOK
<1> QED  BY Zenon, <1>6, <1>7 DEF Inv, TypeOK

(* The sequence space is used up: no file changes.                         *)
LEMMA StepSequenceExhausted ==
  ASSUME Inv, SequenceExhausted
  PROVE  Inv'
<1>1. /\ pc = "write" /\ FailBatch
      /\ UNCHANGED <<disk, status, config, memory, current, seq, bytesSinceSnapshot, pending,
                     snap, now, callers>>
  BY Zenon DEF SequenceExhausted
<1>2. DiskTypeOK' /\ ProcessTypeOK' /\ SnapshotTypeOK' /\ LogInv' /\ WriterInv' /\ SnapInv'
  BY Zenon, <1>1, FailedBatch DEF disk, Inv, LogInv
<1> QED  BY ZenonT(30), <1>1, <1>2, Kept DEF Inv, TypeOK

-----------------------------------------------------------------------------
(* Syncing and rolling the writer's file.                                  *)

(* A batch rolls to a new file and goes on.                                *)
LEMMA StepRollForWrite ==
  ASSUME Inv, RollForWrite
  PROVE  Inv'
<1>1. /\ pc = "write" /\ seq # MaxSequence /\ stable' = snapshots /\ current' = seq + 1
      /\ segments' = Put(Synced(current), seq + 1, NewSegment)
      /\ UNCHANGED <<snapshots, status, config, memory, latched, pc, seq, bytesSinceSnapshot,
                     batch, pending, snap, now, callers>>
  BY Zenon DEF RollForWrite, rollSegment
<1>2. UNCHANGED <<shards, capacity, entries, evictionGeneration, logSequence, snapPC, snapCover>>
  BY Zenon, <1>1 DEF config, memory, snap
<1>3. status = "up" /\ ~latched /\ pending = <<>>  BY Zenon, <1>1, WritingFacts
<1>4. /\ Chain(segments') /\ current' \in DOMAIN segments' /\ segments'[current'] = NewSegment
      /\ current' \in 1..MaxSequence /\ \A f \in DOMAIN segments' : f <= current'
  BY ZenonT(30), <1>1, <1>3, RollFacts
<1>5. DiskTypeOK'  BY ZenonT(30), <1>1, <1>4 DEF Inv, TypeOK, DiskTypeOK, Chain, SegmentsType
<1>6. ProcessTypeOK'
  <2>1. current' \in 0..(MaxSequence + 1)  BY <1>4, NoImageType
  <2> QED  BY ZenonT(30), <2>1, <1>1, <1>2 DEF Inv, TypeOK, ProcessTypeOK
<1>7. SnapshotTypeOK' /\ CallersTypeOK' /\ WriterInv'  BY ZenonT(30), <1>1, <1>2, Kept
<1>8. LogInv'
  <2>1. Whole(<<>>) /\ Len(<<>>) = 0 /\ NewSegment.cells = <<>>  BY DEF Whole, NewSegment
  <2>2. current' + 0 = seq' + 0 + 1
    <3>1. seq \in Nat  BY DEF Inv, TypeOK, ProcessTypeOK, Sequence
    <3> QED  BY SMTT(30), <3>1, <1>1
  <2>3. AtTheEnd'  BY Zenon, <1>1, <1>3, <1>4, <2>1, <2>2 DEF AtTheEnd
  <2> QED  BY Zenon, <1>4, <2>3 DEF LogInv
<1>9. SnapInv'  BY ZenonT(30), <1>1, <1>2 DEF Inv, SnapInv, SnapName
<1> QED  BY ZenonT(30), <1>5, <1>6, <1>7, <1>8, <1>9 DEF Inv, TypeOK

(* A roll that failed leaves a chain, with at most one new, empty file.    *)
LEMMA FailedRoll ==
  ASSUME Inv, status = "up", ~latched, pending = <<>>, seq # MaxSequence, rollSegmentFails
  PROVE  /\ Chain(segments') /\ DOMAIN segments \subseteq DOMAIN segments'
         /\ \A f \in DOMAIN segments' : f \in DOMAIN segments \/ f > seq
         /\ UNCHANGED <<stable, current>>
<1>1. seq \in Nat /\ seq + 1 > seq  BY DEF Inv, TypeOK, ProcessTypeOK, Sequence
<1> DEFINE rolled == Put(Synced(current), seq + 1, NewSegment)
<1>2. Chain(rolled) /\ DOMAIN rolled = DOMAIN segments \cup {seq + 1}  BY Zenon, RollFacts
<1> HIDE DEF rolled
<1>3. Chain(Synced(current)) /\ DOMAIN Synced(current) = DOMAIN segments  BY Zenon, SyncedFacts
<1>4. segments' \in {segments, Synced(current), rolled} /\ UNCHANGED <<stable, current>>
  BY Zenon DEF rollSegmentFails, rolled
<1> QED  BY ZenonT(30), <1>1, <1>2, <1>3, <1>4 DEF Inv, LogInv

(* A batch whose roll fails latches the store.                             *)
LEMMA StepRollForWriteFails ==
  ASSUME Inv, RollForWriteFails
  PROVE  Inv'
<1>1. /\ pc = "write" /\ seq # MaxSequence /\ rollSegmentFails /\ FailBatch
      /\ UNCHANGED <<snapshots, status, config, memory, seq, bytesSinceSnapshot, pending,
                     snap, now, callers>>
  BY Zenon DEF RollForWriteFails
<1>2. status = "up" /\ ~latched /\ pending = <<>>  BY ZenonT(30), <1>1, WritingFacts
<1>3. /\ Chain(segments') /\ DOMAIN segments \subseteq DOMAIN segments'
      /\ \A f \in DOMAIN segments' : f \in DOMAIN segments \/ f > seq
      /\ UNCHANGED <<stable, current>>
  BY Zenon, <1>1, <1>2, FailedRoll
<1>4. DiskTypeOK' /\ ProcessTypeOK' /\ SnapshotTypeOK' /\ LogInv' /\ WriterInv' /\ SnapInv'
  BY Zenon, <1>1, <1>3, FailedBatch
<1> QED  BY Zenon, <1>1, <1>4, Kept DEF Inv, TypeOK

(* A batch is drained only while the store is not latched.                 *)
LEMMA StepDrainWrites ==
  ASSUME Inv, DrainWrites
  PROVE  Inv'
<1>1. /\ status = "up" /\ pc = "idle" /\ ~latched /\ pc' = "write"
      /\ UNCHANGED <<disk, status, config, memory, latched, current, seq, bytesSinceSnapshot,
                     pending, snap, now, callers>>
  BY Zenon DEF DrainWrites
<1>2. UNCHANGED <<segments, snapshots, stable, shards, capacity, entries, evictionGeneration,
                 logSequence, snapPC, snapCover>>
  BY Zenon, <1>1 DEF disk, config, memory, snap
<1>3. batch' \in Seq(Requests) /\ batch' # <<>>
  <2>1. PICK n \in 1..MaxBatch : batch' \in [1..n -> Requests]  BY Zenon DEF DrainWrites
  <2>2. n \in Nat /\ n >= 1  BY SMTT(30), <2>1, ConstantsAssumption
  <2>3. batch' \in Seq(Requests) /\ Len(batch') = n  BY SMTT(30), <2>1, <2>2
  <2> QED  BY <2>2, <2>3
<1>4. ProcessTypeOK'  BY ZenonT(30), <1>1, <1>2, <1>3 DEF Inv, TypeOK, ProcessTypeOK
<1>5. DiskTypeOK' /\ SnapshotTypeOK' /\ CallersTypeOK' /\ LogInv' /\ SnapInv'  BY Zenon, <1>1, <1>2, Kept
<1>6. WriterInv'  BY Zenon, <1>1, <1>2, <1>3 DEF Inv, WriterInv
<1> QED  BY ZenonT(30), <1>4, <1>5, <1>6 DEF Inv, TypeOK

(* The first pending record is applied and published.                      *)
LEMMA AppliedRecord ==
  ASSUME Inv, pc = "apply", AfterApply, entries' \in Image, evictionGeneration' \in Nat
  PROVE  Inv'
<1>1. /\ pending' = Tail(pending) /\ seq' = Head(pending).seq /\ logSequence' = Head(pending).seq
      /\ acked' = Head(pending).seq
      /\ UNCHANGED <<disk, status, config, latched, current, bytesSinceSnapshot, batch, snap, now,
                     history, promised>>
  BY Zenon DEF AfterApply
<1>2. UNCHANGED <<segments, snapshots, stable, shards, capacity, snapPC, snapCover>>
  BY Zenon, <1>1 DEF disk, config, snap
<1>3. status = "up" /\ ~latched /\ pending # <<>> /\ pending \in Seq(Cell)
  BY Zenon DEF Inv, WriterInv, TypeOK, ProcessTypeOK
<1>4. /\ Len(pending) \in Nat \ {0} /\ Head(pending) = pending[1] /\ pending' \in Seq(Cell)
      /\ Len(pending') = Len(pending) - 1
      /\ \A i \in 1..Len(pending') : i + 1 \in 1..Len(pending) /\ pending'[i] = pending[i + 1]
  BY SMTT(30), <1>1, <1>3
<1>5. /\ \A i \in 1..Len(pending) : pending[i].seq = seq + i /\ pending[i].op # "torn"
      /\ seq \in Nat
  BY DEF Inv, WriterInv, TypeOK, ProcessTypeOK, Sequence
<1>6. seq' = seq + 1 /\ seq' \in Sequence
  <2>1. 1 \in 1..Len(pending)  BY <1>4
  <2>2. pending[1] \in Cell  BY SMTT(30), <2>1, <1>3
  <2> QED  BY Zenon, <2>1, <2>2, <1>1, <1>4, <1>5 DEF Cell
<1>7. ProcessTypeOK'
  <2>1. pc' \in {"apply", "write", "check"}  BY Zenon DEF AfterApply
  <2> QED  BY ZenonT(30), <2>1, <1>1, <1>2, <1>4, <1>6 DEF Inv, TypeOK, ProcessTypeOK
<1>8. DiskTypeOK' /\ SnapshotTypeOK'  BY ZenonT(30), <1>1, <1>2, Kept
<1>9. CallersTypeOK'  BY Zenon, <1>1, <1>6 DEF Inv, TypeOK, CallersTypeOK
<1>10. SnapInv'
  <2>1. snapPC # "idle" => \A i \in 0..(shards - 1) : snapCover[i] <= seq'
    <3> SUFFICES ASSUME snapPC # "idle", NEW i \in 0..(shards - 1) PROVE snapCover[i] <= seq'
      OBVIOUS
    <3>1. snapCover[i] <= seq /\ snapCover[i] \in Sequence
      BY Zenon DEF Inv, SnapInv, TypeOK, SnapshotTypeOK
    <3> QED  BY SMTT(30), <3>1, <1>5, <1>6 DEF Sequence
  <2> QED  BY ZenonT(30), <2>1, <1>1, <1>2 DEF Inv, SnapInv, SnapName
<1>11. WriterInv'
  <2>1. CASE Len(pending) > 1
    <3>0. Len(pending) # 1  BY SMTT(30), <2>1, <1>4
    <3>1. pc' = "apply"  BY ZenonT(30), <2>1, <3>0 DEF AfterApply
    <3>2. pending' # <<>>  BY SMTT(30), <2>1, <1>4
    <3>3. ASSUME NEW i \in 1..Len(pending')  PROVE pending'[i].seq = seq' + i /\ pending'[i].op # "torn"
      <4>1. pending'[i] = pending[i + 1] /\ i + 1 \in 1..Len(pending)  BY Zenon, <1>4
      <4>2. pending[i + 1].seq = seq + (i + 1) /\ pending[i + 1].op # "torn"  BY Zenon, <4>1, <1>5
      <4>3. seq + (i + 1) = seq' + i  BY SMTT(30), <1>4, <1>5, <1>6
      <4> QED  BY ZenonT(30), <4>1, <4>2, <4>3
    <3> QED  BY ZenonT(30), <3>1, <3>2, <3>3, <1>1, <1>2, <1>3 DEF Inv, WriterInv
  <2>2. CASE Len(pending) = 1
    <3>1. pc' = IF batch # <<>> THEN "write" ELSE "check"  BY SMTT(30), <2>2 DEF AfterApply
    <3>2. pending' = <<>> /\ Len(pending') = 0  BY SMTT(30), <2>2, <1>4
    <3> QED  BY SMTT(30), <3>1, <3>2, <1>1, <1>2, <1>3 DEF Inv, WriterInv
  <2> QED  BY SMTT(30), <2>1, <2>2, <1>4
<1>12. LogInv'
  <2> DEFINE n == Len(segments[current].cells)
             m == Len(pending)
             t == Len(pending')
  <2>1. /\ Chain(segments) /\ current \in DOMAIN segments /\ \A f \in DOMAIN segments : f <= current
        /\ Whole(segments[current].cells) /\ current + n = seq + m + 1
    BY Zenon, <1>3 DEF Inv, LogInv, AtTheEnd
  <2>2. t = m - 1 /\ m \in Int  BY <1>4
  <2> HIDE DEF n, m, t
  <2>3. current + n = seq' + t + 1
    <3>1. seq' + t + 1 = seq + m + 1  BY SMTT(30), <2>2, <1>5, <1>6
    <3> QED  BY Zenon, <3>1, <2>1
  <2>4. AtTheEnd'  BY ZenonT(30), <2>1, <2>3, <1>1, <1>2 DEF AtTheEnd, n, t
  <2> QED  BY ZenonT(30), <2>1, <2>4, <1>1, <1>2 DEF LogInv, AtTheEnd
<1> QED  BY ZenonT(30), <1>7, <1>8, <1>9, <1>10, <1>11, <1>12 DEF Inv, TypeOK

(* The steps that leave the files, memory and the snapshot alone.          *)
LEMMA StepIdle ==
  ASSUME Inv, NoSnapshotDue \/ FsyncFails \/ Tick
  PROVE  Inv'
<1>1. CASE NoSnapshotDue
  <2>1. /\ pc = "check" /\ pc' = "idle"
        /\ UNCHANGED <<disk, status, config, memory, latched, current, seq, bytesSinceSnapshot,
                       batch, pending, snap, now, callers>>
    BY Zenon, <1>1 DEF NoSnapshotDue
  <2>2. UNCHANGED <<segments, snapshots, stable, shards, capacity, entries, evictionGeneration,
                   logSequence, snapPC, snapCover>>
    BY Zenon, <2>1 DEF disk, config, memory, snap
  <2>3. ProcessTypeOK'  BY ZenonT(30), <2>1, <2>2 DEF Inv, TypeOK, ProcessTypeOK
  <2>4. WriterInv'  BY Zenon, <2>1, <2>2 DEF Inv, WriterInv
  <2>5. DiskTypeOK' /\ SnapshotTypeOK' /\ CallersTypeOK' /\ LogInv' /\ SnapInv'  BY ZenonT(30), <2>1, <2>2, Kept
  <2> QED  BY ZenonT(30), <2>3, <2>4, <2>5 DEF Inv, TypeOK
<1>2. CASE FsyncFails
  <2>1. /\ pc = "idle" /\ latched' = TRUE
        /\ UNCHANGED <<disk, status, config, memory, writer, snap, now, callers>>
    BY Zenon, <1>2 DEF FsyncFails
  <2>2. UNCHANGED <<segments, snapshots, stable, shards, capacity, entries, evictionGeneration,
                   logSequence, snapPC, snapCover, pc, current, seq, bytesSinceSnapshot, batch, pending>>
    BY Zenon, <2>1 DEF disk, config, memory, snap, writer
  <2>3. ProcessTypeOK'
    <3>1. latched' \in BOOLEAN  BY Zenon, <2>1
    <3> QED  BY ZenonT(30), <3>1, <2>1, <2>2 DEF Inv, TypeOK, ProcessTypeOK
  <2>4. WriterInv'  BY Zenon, <2>1, <2>2 DEF Inv, WriterInv
  <2>5. DiskTypeOK' /\ SnapshotTypeOK' /\ CallersTypeOK' /\ LogInv' /\ SnapInv'  BY ZenonT(30), <2>1, <2>2, Kept
  <2> QED  BY Zenon, <2>3, <2>4, <2>5 DEF Inv, TypeOK
<1>3. CASE Tick
  <2>1. /\ now < MaxTime /\ now' = now + 1
        /\ UNCHANGED <<disk, status, config, memory, latched, writer, snap, callers>>
    BY Zenon, <1>3 DEF Tick
  <2>2. UNCHANGED <<segments, snapshots, stable, shards, logSequence, snapPC, snapCover, pc, current,
                   seq, batch, pending>>
    BY Zenon, <2>1 DEF disk, config, memory, snap, writer
  <2>3. CallersTypeOK'
    <3>1. now' \in Time  BY SMTT(30), <2>1, ConstantsAssumption DEF Inv, TypeOK, CallersTypeOK, Time
    <3> QED  BY Zenon, <3>1, <2>1 DEF Inv, TypeOK, CallersTypeOK, callers
  <2>4. DiskTypeOK' /\ ProcessTypeOK' /\ SnapshotTypeOK' /\ LogInv' /\ WriterInv' /\ SnapInv'
    BY ZenonT(30), <2>1, <2>2, Kept
  <2> QED  BY Zenon, <2>3, <2>4 DEF Inv, TypeOK
<1> QED  BY Zenon, <1>1, <1>2, <1>3

(* An expired entry is reclaimed.                                          *)
LEMMA StepReclaim ==
  ASSUME Inv, NEW k \in Keys, Reclaim(k)
  PROVE  Inv'
<1>1. /\ entries' = Without(entries, {k})
      /\ UNCHANGED <<disk, status, config, evictionGeneration, logSequence, latched, writer, snap,
                     now, callers>>
  BY Zenon DEF Reclaim
<1>2. UNCHANGED <<segments, snapshots, stable, shards, capacity, snapPC, snapCover, pc, current,
                 seq, bytesSinceSnapshot, batch, pending>>
  BY ZenonT(30), <1>1 DEF disk, config, snap, writer
<1>3. entries' \in Image  BY Zenon, <1>1, WithoutType DEF Inv, TypeOK, ProcessTypeOK
<1>4. ProcessTypeOK'  BY ZenonT(30), <1>1, <1>2, <1>3 DEF Inv, TypeOK, ProcessTypeOK
<1>5. DiskTypeOK' /\ SnapshotTypeOK' /\ CallersTypeOK' /\ LogInv' /\ WriterInv' /\ SnapInv'
  BY Zenon, <1>1, <1>2, Kept
<1> QED  BY Zenon, <1>4, <1>5 DEF Inv, TypeOK

(* A snapshot of memory begins.                                            *)
LEMMA StepStartMemorySnapshot ==
  ASSUME Inv, StartMemorySnapshot
  PROVE  Inv'
<1>1. /\ pc = "check" /\ BeginCapture /\ bytesSinceSnapshot' = 0 /\ pc' = "idle"
      /\ UNCHANGED <<disk, status, config, memory, latched, current, seq, batch, pending, now, callers>>
  BY Zenon DEF StartMemorySnapshot, SnapshotDue
<1>2. UNCHANGED <<segments, snapshots, stable, shards, capacity, entries, evictionGeneration,
                 logSequence>>
  BY Zenon, <1>1 DEF disk, config, memory
<1>3. status = "up"  BY Zenon, <1>1 DEF Inv, WriterInv
<1>4. ProcessTypeOK'  BY Zenon, <1>1, <1>2 DEF Inv, TypeOK, ProcessTypeOK
<1>5. SnapshotTypeOK' /\ SnapInv'  BY Zenon, <1>1, <1>2, BegunSnapshot
<1>6. DiskTypeOK' /\ CallersTypeOK' /\ LogInv'  BY Zenon, <1>1, <1>2, Kept
<1>7. WriterInv'  BY ZenonT(30), <1>1, <1>2, <1>3 DEF Inv, WriterInv
<1> QED  BY Zenon, <1>4, <1>5, <1>6, <1>7 DEF Inv, TypeOK

(* A snapshot of the log begins, once the log through its sequence is in   *)
(* files that no longer change.                                            *)
LEMMA StepStartDurableSnapshot ==
  ASSUME Inv, StartDurableSnapshot
  PROVE  Inv'
<1>1. /\ pc = "check" /\ ~latched /\ seq # MaxSequence /\ BeginRebuild
      /\ stable' = snapshots /\ current' = seq + 1
      /\ segments' = Put(Synced(current), seq + 1, NewSegment)
      /\ bytesSinceSnapshot' = 0 /\ pc' = "idle" /\ snapPC = "idle"
      /\ UNCHANGED <<snapshots, status, config, memory, latched, seq, batch, pending, now, callers>>
  BY Zenon DEF StartDurableSnapshot, SnapshotDue, rollSegment
<1>2. UNCHANGED <<shards, capacity, entries, evictionGeneration, logSequence>>
  BY Zenon, <1>1 DEF config, memory
<1>3. status = "up" /\ pending = <<>>  BY Zenon, <1>1 DEF Inv, WriterInv
<1>4. /\ Chain(segments') /\ current' \in DOMAIN segments' /\ segments'[current'] = NewSegment
      /\ current' \in 1..MaxSequence /\ \A f \in DOMAIN segments' : f <= current'
  BY Zenon, <1>1, <1>3, RollFacts
<1>5. DiskTypeOK'  BY Zenon, <1>1, <1>4 DEF Inv, TypeOK, DiskTypeOK, Chain, SegmentsType
<1>6. ProcessTypeOK'
  <2>1. current' \in 0..(MaxSequence + 1)  BY <1>4, NoImageType
  <2> QED  BY ZenonT(30), <2>1, <1>1, <1>2 DEF Inv, TypeOK, ProcessTypeOK
<1>7. SnapshotTypeOK' /\ SnapInv'
  <2>1. seq \in Sequence /\ shards \in Nat \ {0} /\ evictionGeneration \in Nat
    BY Zenon DEF Inv, TypeOK, ProcessTypeOK
  <2>2. snapCover' = [i \in 0..(shards - 1) |-> seq] /\ snapPC' = "rebuild"  BY Zenon, <1>1 DEF BeginRebuild
  <2>3. SnapshotTypeOK'  BY ZenonT(30), <2>1, <2>2, <1>1, <1>2, NoImageType DEF BeginRebuild, SnapshotTypeOK
  <2>4. seq <= seq  BY <2>1 DEF Sequence
  <2>5. SnapInv'  BY ZenonT(30), <2>2, <2>4, <1>1, <1>2 DEF SnapInv
  <2> QED  BY Zenon, <2>3, <2>5
<1>8. CallersTypeOK'  BY Zenon, <1>1, Kept
<1>9. WriterInv'  BY ZenonT(30), <1>1, <1>2, <1>3 DEF Inv, WriterInv
<1>10. LogInv'
  <2>1. Whole(<<>>) /\ Len(<<>>) = 0 /\ NewSegment.cells = <<>>  BY DEF Whole, NewSegment
  <2>2. current' + 0 = seq' + 0 + 1
    <3>1. seq \in Nat  BY DEF Inv, TypeOK, ProcessTypeOK, Sequence
    <3> QED  BY SMTT(30), <3>1, <1>1
  <2>3. AtTheEnd'  BY ZenonT(30), <1>1, <1>3, <1>4, <2>1, <2>2 DEF AtTheEnd
  <2> QED  BY Zenon, <1>4, <2>3 DEF LogInv
<1> QED  BY ZenonT(30), <1>5, <1>6, <1>7, <1>8, <1>9, <1>10 DEF Inv, TypeOK

(* The roll a snapshot of the log needs cannot be made, or fails.          *)
LEMMA StepDurableSnapshotAborts ==
  ASSUME Inv, DurableSnapshotAborts
  PROVE  Inv'
<1>1. /\ pc = "check" /\ ~latched /\ pc' = "idle"
      /\ UNCHANGED <<snapshots, status, config, memory, seq, bytesSinceSnapshot, batch, pending,
                     snap, now, callers>>
  BY Zenon DEF DurableSnapshotAborts, SnapshotDue
<1>2. UNCHANGED <<shards, capacity, entries, evictionGeneration, logSequence, snapPC, snapCover>>
  BY Zenon, <1>1 DEF config, memory, snap
<1>3. status = "up" /\ pending = <<>>  BY Zenon, <1>1 DEF Inv, WriterInv
<1>4. \/ UNCHANGED <<segments, stable, current, latched>>
      \/ /\ Chain(segments') /\ DOMAIN segments \subseteq DOMAIN segments'
         /\ \A f \in DOMAIN segments' : f \in DOMAIN segments \/ f > seq
         /\ UNCHANGED <<stable, current>> /\ latched' = TRUE
  <2>1. CASE seq = MaxSequence  BY Zenon, <2>1 DEF DurableSnapshotAborts
  <2>2. CASE seq # MaxSequence
    <3>1. rollSegmentFails /\ latched' = TRUE  BY Zenon, <2>2 DEF DurableSnapshotAborts
    <3> QED  BY Zenon, <3>1, <2>2, <1>1, <1>3, FailedRoll
  <2> QED  BY ZenonT(30), <2>1, <2>2
<1>5. UNCHANGED <<stable, current>> /\ Chain(segments') /\ latched' \in BOOLEAN
  BY Zenon, <1>4 DEF Inv, LogInv, TypeOK, ProcessTypeOK
<1>6. DiskTypeOK'  BY Zenon, <1>1, <1>5 DEF Inv, TypeOK, DiskTypeOK, Chain, SegmentsType
<1>7. ProcessTypeOK'  BY Zenon, <1>1, <1>2, <1>5 DEF Inv, TypeOK, ProcessTypeOK
<1>8. SnapshotTypeOK' /\ CallersTypeOK' /\ SnapInv'  BY ZenonT(30), <1>1, <1>2, <1>5, Kept
<1>9. WriterInv'  BY ZenonT(30), <1>1, <1>2, <1>3 DEF Inv, WriterInv
<1>10. LogInv'
  <2>1. CASE UNCHANGED <<segments, stable, current, latched>>  BY Zenon, <2>1, <1>1, Kept
  <2>2. CASE ~UNCHANGED <<segments, stable, current, latched>>
    BY Zenon, <2>2, <1>1, <1>3, <1>4 DEF Inv, LogInv
  <2> QED  BY Zenon, <2>1, <2>2
<1> QED  BY ZenonT(30), <1>6, <1>7, <1>8, <1>9, <1>10 DEF Inv, TypeOK

(* The ticker, Sync and Close sync the writer's file.                      *)
LEMMA SyncedLog ==
  ASSUME Inv, status = "up", segments' = Synced(current), latched => latched',
         UNCHANGED <<snapshots, stable, status, current, seq, pending>>
  PROVE  DiskTypeOK' /\ LogInv'
<1>1. /\ Chain(segments') /\ DOMAIN segments' = DOMAIN segments
      /\ \A f \in DOMAIN segments : segments'[f].cells = segments[f].cells
  BY Zenon, SyncedFacts
<1>2. DiskTypeOK'  BY Zenon, <1>1 DEF Inv, TypeOK, DiskTypeOK, Chain, SegmentsType
<1>3. LogInv'
  <2>1. current \in DOMAIN segments  BY Zenon DEF Inv, LogInv
  <2>2. segments'[current].cells = segments[current].cells  BY Zenon, <2>1, <1>1
  <2> QED  BY Zenon, <2>1, <2>2, <1>1 DEF Inv, LogInv, AtTheEnd
<1> QED  BY Zenon, <1>2, <1>3

(* A sync that succeeds promises what is acknowledged.                     *)
LEMMA StepFsync ==
  ASSUME Inv, Fsync
  PROVE  Inv'
<1>1. /\ status = "up" /\ segments' = Synced(current) /\ promised' = acked
      /\ UNCHANGED <<snapshots, stable, status, config, memory, latched, writer, snap, now,
                     history, acked>>
  BY Zenon DEF Fsync
<1>2. UNCHANGED <<shards, logSequence, snapPC, snapCover, pc, current, seq, batch, pending>>
  BY Zenon, <1>1 DEF config, memory, snap, writer
<1>3. DiskTypeOK' /\ LogInv'  BY ZenonT(30), <1>1, <1>2, SyncedLog
<1>4. ProcessTypeOK' /\ SnapshotTypeOK' /\ WriterInv' /\ SnapInv'  BY Zenon, <1>1, <1>2, Kept
<1>5. CallersTypeOK'  BY Zenon, <1>1 DEF Inv, TypeOK, CallersTypeOK
<1> QED  BY ZenonT(30), <1>3, <1>4, <1>5 DEF Inv, TypeOK

(* Close syncs once more, or finds that it cannot.                         *)
LEMMA StepCloseRequest ==
  ASSUME Inv, CloseRequest
  PROVE  Inv'
<1>1. /\ status = "up" /\ pc = "idle" /\ pc' = "closing"
      /\ UNCHANGED <<snapshots, stable, status, config, memory, current, seq, bytesSinceSnapshot,
                     batch, pending, snap, now, history, acked>>
  BY Zenon DEF CloseRequest
<1>2. UNCHANGED <<shards, capacity, entries, evictionGeneration, logSequence, snapPC, snapCover>>
  BY Zenon, <1>1 DEF config, memory, snap
<1>3. latched \in BOOLEAN  BY Zenon DEF Inv, TypeOK, ProcessTypeOK
<1>4. /\ latched' \in BOOLEAN /\ (latched => latched') /\ promised' \in {promised, acked}
      /\ segments' = Synced(current) \/ UNCHANGED segments
  <2>1. latched' = latched \/ latched' = TRUE  BY Zenon DEF CloseRequest
  <2>2. latched' \in BOOLEAN /\ (latched => latched')
    <3>1. CASE latched' = latched  BY Zenon, <3>1, <1>3
    <3>2. CASE latched' = TRUE  BY Zenon, <3>2
    <3> QED  BY Zenon, <2>1, <3>1, <3>2
  <2>3. promised' \in {promised, acked}  BY Zenon DEF CloseRequest
  <2>4. segments' = Synced(current) \/ UNCHANGED segments  BY Zenon DEF CloseRequest
  <2> QED  BY Zenon, <2>2, <2>3, <2>4
<1>5. DiskTypeOK' /\ LogInv'
  <2>1. CASE segments' = Synced(current)  BY ZenonT(30), <2>1, <1>1, <1>4, SyncedLog
  <2>2. CASE UNCHANGED segments  BY ZenonT(30), <2>2, <1>1, <1>4, Kept DEF disk
  <2> QED  BY ZenonT(30), <2>1, <2>2, <1>4
<1>6. ProcessTypeOK'  BY Zenon, <1>1, <1>2, <1>4 DEF Inv, TypeOK, ProcessTypeOK
<1>7. SnapshotTypeOK' /\ SnapInv'  BY ZenonT(30), <1>1, <1>2, Kept
<1>8. CallersTypeOK'  BY Zenon, <1>1, <1>4 DEF Inv, TypeOK, CallersTypeOK
<1>9. WriterInv'  BY ZenonT(30), <1>1, <1>2 DEF Inv, WriterInv
<1> QED  BY ZenonT(30), <1>5, <1>6, <1>7, <1>8, <1>9 DEF Inv, TypeOK

(* The final snapshot begins.                                              *)
LEMMA StepFinalSnapshot ==
  ASSUME Inv, FinalSnapshot
  PROVE  Inv'
<1>1. /\ pc = "closing" /\ pc' = "final" /\ (BeginCapture \/ BeginRebuild)
      /\ UNCHANGED <<disk, status, config, memory, latched, current, seq, bytesSinceSnapshot,
                     batch, pending, now, callers>>
  BY Zenon DEF FinalSnapshot
<1>2. UNCHANGED <<segments, snapshots, stable, shards, capacity, entries, evictionGeneration,
                 logSequence>>
  BY Zenon, <1>1 DEF disk, config, memory
<1>3. status = "up"  BY Zenon, <1>1 DEF Inv, WriterInv
<1>4. ProcessTypeOK'  BY ZenonT(30), <1>1, <1>2 DEF Inv, TypeOK, ProcessTypeOK
<1>5. SnapshotTypeOK' /\ SnapInv'  BY ZenonT(30), <1>1, <1>2, BegunSnapshot
<1>6. DiskTypeOK' /\ CallersTypeOK' /\ LogInv'  BY ZenonT(30), <1>1, <1>2, Kept
<1>7. WriterInv'  BY ZenonT(30), <1>1, <1>2, <1>3 DEF Inv, WriterInv
<1> QED  BY Zenon, <1>4, <1>5, <1>6, <1>7 DEF Inv, TypeOK

-----------------------------------------------------------------------------
(* The process ends.                                                       *)

(* Close returns, or the process is killed, perhaps during a write.        *)
LEMMA StepProcessEnds ==
  ASSUME Inv, CloseDone \/ Crash
  PROVE  Inv'
<1>1. ProcessEnds /\ UNCHANGED <<snapshots, stable, now, acked, promised>>
  BY Zenon DEF CloseDone, Crash, disk, callers
<1>2. Chain(segments') /\ history' \in Seq(Cell)
  <2>1. CASE UNCHANGED <<segments, history>>  BY Zenon, <2>1 DEF Inv, LogInv, TypeOK, CallersTypeOK
  <2>2. CASE ~UNCHANGED <<segments, history>>
    <3>1. Crash  BY Zenon, <2>2 DEF CloseDone, disk, callers
    <3>2. CanWrite /\ \E p \in 0..ChunkLength, torn \in BOOLEAN : PartialWrite(p, torn)
      BY Zenon, <2>2, <3>1 DEF Crash
    <3> QED  BY Zenon, <3>2, PartialWriteFacts
  <2> QED  BY Zenon, <2>1, <2>2
<1>3. ProcessTypeOK' /\ SnapshotTypeOK' /\ WriterInv' /\ SnapInv' /\ LogInv'
  BY ZenonT(30), <1>1, <1>2, EndedProcess
<1>4. DiskTypeOK'  BY ZenonT(30), <1>1, <1>2 DEF Inv, TypeOK, DiskTypeOK, Chain, SegmentsType
<1>5. CallersTypeOK'  BY ZenonT(30), <1>1, <1>2 DEF Inv, TypeOK, CallersTypeOK
<1> QED  BY ZenonT(30), <1>3, <1>4, <1>5 DEF Inv, TypeOK

(* What a power loss leaves of a file: its first k cells and perhaps the   *)
(* beginning of the next one.                                              *)
LEMMA SurvivingCells ==
  ASSUME NEW f \in Nat, NEW cells \in Seq(Cell), Numbered(f, cells), NEW k \in 0..Len(cells),
         NEW torn \in BOOLEAN, torn => k < Len(cells)
  PROVE  LET t == SubSeq(cells, 1, k) \o (IF torn THEN <<Torn>> ELSE <<>>)
         IN  t \in Seq(Cell) /\ k <= Len(t) /\ Numbered(f, t)
<1> DEFINE whole == SubSeq(cells, 1, k)
           tail == IF torn THEN <<Torn>> ELSE <<>>
           t == whole \o tail
<1>1. whole \in Seq(Cell) /\ Len(whole) = k /\ \A i \in 1..k : whole[i] = cells[i]  BY Zenon, PrefixFacts
<1>2. Torn \in Cell /\ Torn.op = "torn"
  <2>1. (CHOOSE x \in Keys : TRUE) \in Keys /\ 0 \in Time  BY SMTT(30), ConstantsAssumption DEF Time
  <2> QED  BY Zenon, <2>1, NoImageType DEF Torn, Cell
<1>3. /\ tail \in Seq(Cell) /\ Len(tail) \in 0..1 /\ (Len(tail) = 1 => torn)
      /\ \A i \in 1..Len(tail) : tail[i] = Torn
  <2>1. <<Torn>> \in Seq(Cell) /\ Len(<<Torn>>) = 1 /\ <<Torn>>[1] = Torn  BY SMTT(30), <1>2
  <2>2. <<>> \in Seq(Cell) /\ Len(<<>>) = 0  OBVIOUS
  <2>3. CASE torn
    <3>1. tail = <<Torn>>  BY Zenon, <2>3
    <3> HIDE DEF tail
    <3> QED  BY SMTT(30), <3>1, <2>1, <2>3
  <2>4. CASE ~torn
    <3>1. tail = <<>>  BY ZenonT(30), <2>4
    <3> HIDE DEF tail
    <3> QED  BY SMTT(30), <3>1, <2>2
  <2> QED  BY Zenon, <2>3, <2>4
<1> HIDE DEF whole, tail
<1>4. /\ t \in Seq(Cell) /\ Len(t) = k + Len(tail)
      /\ \A i \in 1..k : t[i] = whole[i]
      /\ \A i \in 1..Len(tail) : t[k + i] = tail[i]
  BY SMTT(30), <1>1, <1>3, ConcatFacts
<1> HIDE DEF t
<1>5. k \in Nat /\ k <= Len(cells) /\ Len(cells) \in Nat /\ k <= Len(t)  BY SMTT(30), <1>3, <1>4
<1>6. ASSUME NEW i \in 1..Len(t)
      PROVE  \/ t[i].op # "torn" /\ t[i].seq = f + i - 1
             \/ t[i].op = "torn" /\ i = Len(t)
  <2>1. CASE i <= k
    <3>1. i \in 1..k /\ i \in 1..Len(cells)  BY SMTT(30), <2>1, <1>5
    <3>2. t[i] = cells[i]  BY Zenon, <3>1, <1>1, <1>4
    <3>3. \/ cells[i].op # "torn" /\ cells[i].seq = f + i - 1
          \/ cells[i].op = "torn" /\ i = Len(cells)
      BY Zenon, <3>1 DEF Numbered
    <3>4. i = Len(cells) => i = Len(t)
      <4>1. i = Len(cells) => k = Len(cells) /\ ~torn  BY SMTT(30), <2>1, <1>5
      <4>2. ~torn => Len(t) = k  BY SMTT(30), <1>3, <1>4, <1>5
      <4> QED  BY ZenonT(30), <4>1, <4>2
    <3> QED  BY Zenon, <3>2, <3>3, <3>4
  <2>2. CASE i > k
    <3>1. Len(tail) = 1 /\ i = k + 1 /\ 1 \in 1..Len(tail) /\ i = Len(t)  BY SMTT(30), <2>2, <1>3, <1>4, <1>5
    <3>2. t[i] = Torn  BY Zenon, <3>1, <1>3, <1>4
    <3> QED  BY ZenonT(30), <3>1, <3>2, <1>2
  <2> QED  BY SMTT(30), <2>1, <2>2, <1>5
<1> QED  BY ZenonT(30), <1>4, <1>5, <1>6 DEF Numbered, t, whole, tail

(* A power loss can only shorten the last file: the others are synced.     *)
LEMMA StepPowerLoss ==
  ASSUME Inv, PowerLoss
  PROVE  Inv'
<1>1. PICK keep \in [Unsynced -> Sequence], torn \in BOOLEAN :
        /\ \A f \in Unsynced : segments[f].synced <= keep[f] /\ keep[f] <= Len(segments[f].cells)
        /\ segments' =
             [f \in DOMAIN segments |->
                IF f \notin Unsynced THEN segments[f]
                ELSE [cells |-> SubSeq(segments[f].cells, 1, keep[f])
                                  \o (IF torn /\ keep[f] < Len(segments[f].cells) THEN <<Torn>> ELSE <<>>),
                      synced |-> segments[f].synced]]
        /\ history' = SubSeq(history, 1,
                             Min({Len(history)} \cup {f + keep[f] - 1 : f \in Unsynced}))
  BY Zenon DEF PowerLoss
<1>2. /\ ProcessEnds /\ UNCHANGED <<now, promised>>
      /\ snapshots' \in {snapshots, stable} /\ stable' = snapshots'
      /\ acked' = Min({acked, Len(history')})
  BY Zenon DEF PowerLoss
<1>3. Chain(segments)  BY Zenon DEF Inv, LogInv
<1>4. \A f \in DOMAIN segments :
        /\ f \in Nat \ {0} /\ segments[f] \in Segment /\ segments[f].cells \in Seq(Cell)
        /\ segments[f].synced \in Nat /\ Numbered(f, segments[f].cells)
  BY SMTT(30), <1>3 DEF Chain, SegmentsType, Segment
<1>5. Chain(segments')
  <2>1. CASE Unsynced = {}
    <3>1. segments' = segments
      <4>1. segments = [f \in DOMAIN segments |-> segments[f]]  BY Zenon, <1>3 DEF Chain, SegmentsType
      <4> QED  BY Zenon, <4>1, <2>1, <1>1
    <3> QED  BY ZenonT(30), <3>1, <1>3
  <2>2. CASE Unsynced # {}
    <3>1. PICK f \in Unsynced : TRUE  BY ZenonT(30), <2>2
    <3>2. f \in DOMAIN segments /\ segments[f].synced < Len(segments[f].cells)
      BY Zenon, <3>1 DEF Unsynced
    <3>3. \A g \in Unsynced : \A h \in DOMAIN segments : ~(g < h)
      <4> SUFFICES ASSUME NEW g \in Unsynced, NEW h \in DOMAIN segments, g < h  PROVE FALSE
        OBVIOUS
      <4>1. g \in DOMAIN segments /\ segments[g].synced < Len(segments[g].cells)
        BY Zenon DEF Unsynced
      <4>2. segments[g].synced = Len(segments[g].cells)  BY Zenon, <4>1, <1>3 DEF Chain, Linked, Sealed
      <4>3. segments[g].synced \in Nat  BY Zenon, <4>1, <1>4
      <4> QED  BY SMTT(30), <4>1, <4>2, <4>3
    <3>4. \A g \in DOMAIN segments : g <= f  BY SMTT(30), <3>1, <3>2, <3>3, <1>4
    <3>5. \A g \in DOMAIN segments : g # f => g \notin Unsynced
      BY SMTT(30), <3>2, <3>3, <3>4, <1>4 DEF Unsynced
    <3> DEFINE lost == torn /\ keep[f] < Len(segments[f].cells)
               t == SubSeq(segments[f].cells, 1, keep[f]) \o (IF lost THEN <<Torn>> ELSE <<>>)
               v == [cells |-> t, synced |-> segments[f].synced]
    <3>6. keep[f] \in Nat /\ keep[f] \in 0..Len(segments[f].cells) /\ segments[f].synced <= keep[f]
      <4>1. keep[f] \in Nat  BY SMTT(30), <3>1, <1>1, NoImageType DEF Sequence
      <4>2. Len(segments[f].cells) \in Nat  BY SMTT(30), <3>2, <1>4
      <4>3. segments[f].synced <= keep[f] /\ keep[f] <= Len(segments[f].cells)  BY Zenon, <3>1, <1>1
      <4> QED  BY SMTT(30), <4>1, <4>2, <4>3
    <3>7. lost \in BOOLEAN /\ (lost => keep[f] < Len(segments[f].cells))  BY Zenon, <1>1
    <3>8. t \in Seq(Cell) /\ keep[f] <= Len(t) /\ Numbered(f, t)
      <4> HIDE DEF lost
      <4> QED  BY ZenonT(30), <3>2, <3>6, <3>7, <1>4, SurvivingCells
    <3>9. segments' = Put(segments, f, v)
      <4>1. DOMAIN segments \cup {f} = DOMAIN segments  BY Zenon, <3>2
      <4>2. segments' = [g \in DOMAIN segments |-> IF g = f THEN v ELSE segments[g]]
        BY ZenonT(30), <3>1, <3>5, <1>1
      <4> QED  BY ZenonT(30), <4>1, <4>2 DEF Put
    <3>10. v \in Segment /\ v.synced <= Len(v.cells) /\ v.cells = t
      <4> HIDE DEF t
      <4>1. segments[f].synced \in Nat /\ Len(t) \in Nat  BY SMTT(30), <3>2, <3>8, <1>4
      <4>2. segments[f].synced <= Len(t)  BY SMTT(30), <4>1, <3>6, <3>8
      <4> QED  BY ZenonT(30), <4>1, <4>2, <3>8 DEF Segment
    <3> HIDE DEF v, t
    <3> QED  BY ZenonT(30), <3>2, <3>4, <3>8, <3>9, <3>10, <1>3, ChainRewritesLast
  <2> QED  BY Zenon, <2>1, <2>2
<1>6. history' \in Seq(Cell)
  <2> DEFINE ends == {Len(history)} \cup {f + keep[f] - 1 : f \in Unsynced}
  <2>1. history \in Seq(Cell) /\ Len(history) \in Nat  BY SMTT(30) DEF Inv, TypeOK, CallersTypeOK
  <2>2. ASSUME NEW f \in Unsynced  PROVE f + keep[f] - 1 \in Nat
    <3>1. f \in Nat \ {0}  BY Zenon, <1>4 DEF Unsynced
    <3>2. keep[f] \in Nat  BY SMTT(30), <1>1, NoImageType DEF Sequence
    <3> QED  BY SMTT(30), <3>1, <3>2
  <2>3. ends \subseteq Nat /\ ends # {} /\ Len(history) \in ends  BY Zenon, <2>1, <2>2
  <2>4. history' = SubSeq(history, 1, Min(ends))  BY Zenon, <1>1
  <2> HIDE DEF ends
  <2>5. Min(ends) \in Nat /\ Min(ends) <= Len(history)  BY Zenon, <2>3, MinFacts
  <2>6. Min(ends) \in 0..Len(history)  BY SMTT(30), <2>1, <2>5
  <2> QED  BY ZenonT(30), <2>1, <2>4, <2>6, PrefixFacts
<1>7. acked' \in Sequence
  <2> DEFINE both == {acked, Len(history')}
  <2>1. acked \in Sequence /\ acked \in Nat /\ Len(history') \in Nat
    BY <1>6 DEF Inv, TypeOK, CallersTypeOK, Sequence
  <2>2. both \subseteq Nat /\ both # {} /\ acked \in both  BY Zenon, <2>1
  <2>3. acked' = Min(both)  BY Zenon, <1>2
  <2> HIDE DEF both
  <2>4. acked' \in Nat /\ acked' <= acked  BY Zenon, <2>2, <2>3, MinFacts
  <2> QED  BY SMTT(30), <2>1, <2>4, NoImageType DEF Sequence
<1>8. ProcessTypeOK' /\ SnapshotTypeOK' /\ WriterInv' /\ SnapInv' /\ LogInv'
  BY ZenonT(30), <1>2, <1>5, EndedProcess
<1>9. DiskTypeOK'  BY Zenon, <1>2, <1>5 DEF Inv, TypeOK, DiskTypeOK, Chain, SegmentsType
<1>10. CallersTypeOK'  BY ZenonT(30), <1>2, <1>6, <1>7 DEF Inv, TypeOK, CallersTypeOK
<1> QED  BY ZenonT(30), <1>8, <1>9, <1>10 DEF Inv, TypeOK

-----------------------------------------------------------------------------
(* Opening a directory.                                                    *)

(* The first file of a directory is a chain by itself.                     *)
LEMMA FirstSegment ==
  ASSUME TypeOK, CanRecover, DOMAIN segments = {}
  PROVE  LET first == Put(segments, RecoveredSequence + 1, NewSegment)
         IN  /\ RecoveredSequence \in Sequence /\ RecoveredSequence + 1 \in 1..MaxSequence
             /\ Chain(first) /\ DOMAIN first = {RecoveredSequence + 1}
             /\ first[RecoveredSequence + 1] = NewSegment
<1> DEFINE x == RecoveredSequence + 1
           R == Put(segments, x, NewSegment)
<1>1. RecoveredSequence \in Sequence /\ RecoveredSequence # MaxSequence
  BY Zenon, LoadedSnapshot DEF CanRecover, RecoveredSequence
<1>2. x \in 1..MaxSequence /\ MaxSequence \in Nat  BY SMTT(30), <1>1, NoImageType DEF Sequence
<1> HIDE DEF x
<1>3. /\ DOMAIN R = {x} /\ R[x] = NewSegment /\ R \in [{x} -> {NewSegment}]
  BY Zenon DEF Put
<1>4. NewSegment \in Segment /\ Len(NewSegment.cells) = 0 /\ NewSegment.synced = 0
  BY DEF NewSegment, Segment
<1> HIDE DEF R
<1>5. SegmentsType(R)
  <2>1. \A f \in DOMAIN R : R[f].synced <= Len(R[f].cells)  BY SMTT(30), <1>3, <1>4
  <2>2. DOMAIN R \subseteq 1..(MaxSequence + 1)  BY SMTT(30), <1>2, <1>3
  <2>3. R \in [DOMAIN R -> Segment]  BY Zenon, <1>3, <1>4
  <2> QED  BY ZenonT(30), <2>1, <2>2, <2>3 DEF SegmentsType
<1>6. \A f \in DOMAIN R : Numbered(f, R[f].cells)
  <2>1. 1..0 = {}  OBVIOUS
  <2> QED  BY ZenonT(30), <2>1, <1>3, <1>4 DEF Numbered
<1>7. Linked(R)
  <2>1. \A f, g \in DOMAIN R : ~(f < g)  BY SMTT(30), <1>2, <1>3
  <2> QED  BY Zenon, <2>1 DEF Linked
<1> QED  BY ZenonT(30), <1>1, <1>2, <1>3, <1>5, <1>6, <1>7 DEF Chain, x, R

(* The image that Open recovers is an image.                               *)
LEMMA RecoveredImageType ==
  ASSUME TypeOK, CanRecover, NEW n
  PROVE  RecoveredImage(n) \in Image
<1>1. loadSnapshot.image \in Image /\ Lowest(loadSnapshot) \in Sequence  BY Zenon, LoadedSnapshot
<1>2. CASE DOMAIN segments = {}  BY Zenon, <1>1, <1>2 DEF RecoveredImage
<1>3. CASE DOMAIN segments # {}
  <2>1. Min(DOMAIN segments) <= FirstRequired(loadSnapshot)  BY ZenonT(30), <1>3 DEF CanRecover, ScansLog
  <2>2. MaxSequence \in Sequence  BY NoImageType DEF Sequence
  <2>3. ReplayImage(loadSnapshot, n, MaxSequence) \in Image
    BY ZenonT(30), <1>1, <1>3, <2>1, <2>2, ReplayImageType
  <2> QED  BY ZenonT(30), <1>3, <2>3 DEF RecoveredImage
<1> QED  BY ZenonT(30), <1>2, <1>3

(* An Open that fails leaves the directory, or its first file, behind.     *)
LEMMA StepOpenFails ==
  ASSUME Inv, OpenFailsAfterInstall \/ OpenRefused
  PROVE  Inv'
<1>1. CASE OpenRefused
  <2>1. /\ status = "down" /\ status' = "refused"
        /\ UNCHANGED <<snapshots, stable, config, memory, latched, writer, snap, now, callers>>
    BY Zenon, <1>1 DEF OpenRefused
  <2>2. UNCHANGED <<shards, capacity, entries, evictionGeneration,
                   logSequence, snapPC, snapCover, pc, current, seq, bytesSinceSnapshot, batch, pending>>
    BY Zenon, <2>1 DEF config, memory, snap, writer
  <2>3. ProcessTypeOK'  BY ZenonT(30), <2>1, <2>2 DEF Inv, TypeOK, ProcessTypeOK
  <2>4. WriterInv'  BY ZenonT(30), <2>1, <2>2 DEF Inv, WriterInv
  <2>5. Chain(segments')  BY Zenon, <1>1, RefusedLog
  <2>6. LogInv'  BY Zenon, <2>1, <2>5 DEF LogInv
  <2>7. DiskTypeOK'  BY ZenonT(30), <2>1, <2>5 DEF Inv, TypeOK, DiskTypeOK, Chain, SegmentsType
  <2>8. SnapshotTypeOK' /\ CallersTypeOK' /\ SnapInv'  BY ZenonT(30), <2>1, <2>2, Kept
  <2> QED  BY ZenonT(30), <2>3, <2>4, <2>6, <2>7, <2>8 DEF Inv, TypeOK
<1>2. CASE OpenFailsAfterInstall
  <2>1. /\ status = "down" /\ CanRecover /\ DOMAIN segments = {}
        /\ segments' = Put(segments, RecoveredSequence + 1, NewSegment)
        /\ UNCHANGED <<snapshots, stable, status, config, memory, latched, writer, snap, now, callers>>
    BY Zenon, <1>2 DEF OpenFailsAfterInstall
  <2>2. UNCHANGED <<shards, logSequence, snapPC, snapCover, pc, current, seq, batch, pending>>
    BY Zenon, <2>1 DEF config, memory, snap, writer
  <2>3. Chain(segments')  BY Zenon, <2>1, FirstSegment DEF Inv
  <2>4. DiskTypeOK'  BY ZenonT(30), <2>1, <2>3 DEF Inv, TypeOK, DiskTypeOK, Chain, SegmentsType
  <2>5. LogInv'  BY Zenon, <2>1, <2>3 DEF LogInv
  <2>6. ProcessTypeOK' /\ SnapshotTypeOK' /\ CallersTypeOK' /\ WriterInv' /\ SnapInv'
    BY Zenon, <2>1, <2>2, Kept
  <2> QED  BY ZenonT(30), <2>4, <2>5, <2>6 DEF Inv, TypeOK
<1> QED  BY Zenon, <1>1, <1>2

(* Only pruning removes a segment: every other step that writes to the     *)
(* directory leaves each segment in place.                                 *)
LEMMA OnlyPruningRemoves ==
  ASSUME Inv, Next, ~deleteSegmentsBefore
  PROVE  DOMAIN segments \subseteq DOMAIN segments'
<1>1. \A F, x, v : DOMAIN F \subseteq DOMAIN Put(F, x, v)  BY Zenon DEF Put
<1>2. DOMAIN segments \subseteq DOMAIN Synced(current)  BY Zenon DEF Synced, Put
<1>3. DOMAIN segments \subseteq DOMAIN Put(Synced(current), seq + 1, NewSegment)
  BY Zenon, <1>2 DEF Put
<1>4. rollSegment => DOMAIN segments \subseteq DOMAIN segments'  BY ZenonT(30), <1>3 DEF rollSegment
<1>5. rollSegmentFails => DOMAIN segments \subseteq DOMAIN segments'
  BY ZenonT(30), <1>2, <1>3 DEF rollSegmentFails
<1>6. \A p, torn : PartialWrite(p, torn) => DOMAIN segments \subseteq DOMAIN segments'
  BY Zenon DEF PartialWrite, Appended, Put
<1>7. ASSUME NEW n, NEW c, Open(n, c)  PROVE DOMAIN segments \subseteq DOMAIN segments'
  <2>1. \/ segments' = Put(segments, RecoveredSequence + 1, NewSegment)
        \/ segments' = Put(segments, LastSegment, WithoutTorn(segments[LastSegment]))
    BY ZenonT(30), <1>7 DEF Open
  <2> QED  BY ZenonT(30), <2>1 DEF Put
<1>8. ASSUME NEW k \in Keys, Reclaim(k)  PROVE DOMAIN segments \subseteq DOMAIN segments'
  BY ZenonT(30), <1>8 DEF Reclaim, disk
<1>9. CASE WriterStep
  <2>1. CASE RollForWrite \/ StartDurableSnapshot
    BY ZenonT(30), <2>1, <1>4 DEF RollForWrite, StartDurableSnapshot
  <2>2. CASE RollForWriteFails  BY ZenonT(30), <2>2, <1>5 DEF RollForWriteFails
  <2>3. CASE DurableSnapshotAborts
    <3>1. UNCHANGED segments \/ rollSegmentFails  BY ZenonT(30), <2>3 DEF DurableSnapshotAborts
    <3> QED  BY ZenonT(30), <3>1, <1>5
  <2>4. CASE WriteRecords  BY ZenonT(30), <2>4 DEF WriteRecords, Appended, Put
  <2>5. CASE WriteFails
    <3>1. PICK p, torn : PartialWrite(p, torn)  BY Zenon, <2>5 DEF WriteFails
    <3> QED  BY ZenonT(30), <3>1, <1>6
  <2>6. CASE SequenceExhausted \/ applySet \/ applyDelete \/ NoSnapshotDue \/ StartMemorySnapshot
               \/ FinalSnapshot \/ CloseDone
    BY ZenonT(30), <2>6 DEF SequenceExhausted, applySet, applyDelete, AfterApply, NoSnapshotDue,
       StartMemorySnapshot, FinalSnapshot, CloseDone, disk
  <2> QED  BY ZenonT(30), <1>9, <2>1, <2>2, <2>3, <2>4, <2>5, <2>6 DEF WriterStep
<1>10. CASE SnapshotStep
  BY ZenonT(30), <1>10 DEF SnapshotStep, CaptureShard, RebuildImage, SnapshotFails, DiscardSnapshot,
     RenameSnapshot, SyncDirectory, removeOtherSnapshots, SnapshotInstalled, disk
<1>11. CASE OpenFailsAfterInstall  BY Zenon, <1>11 DEF OpenFailsAfterInstall, Put
<1>12. CASE OpenRefused \/ DrainWrites \/ FsyncFails \/ Tick
  <2>1. CASE OpenRefused  BY Zenon, <2>1, RefusedLog
  <2>2. CASE DrainWrites \/ FsyncFails \/ Tick  BY Zenon, <2>2 DEF DrainWrites, FsyncFails, Tick, disk
  <2> QED  BY Zenon, <1>12, <2>1, <2>2
<1>13. CASE Fsync \/ CloseRequest  BY ZenonT(30), <1>2, <1>13 DEF Fsync, CloseRequest
<1>14. CASE Crash
  <2>1. UNCHANGED segments \/ \E p, torn : PartialWrite(p, torn)  BY Zenon, <1>14 DEF Crash
  <2> QED  BY ZenonT(30), <2>1, <1>6
<1>15. CASE PowerLoss
  <2>1. DOMAIN segments' = DOMAIN segments  BY ZenonT(30), <1>15 DEF PowerLoss
  <2> QED  BY ZenonT(30), <2>1
<1> QED
  BY ZenonT(30), <1>7, <1>8, <1>9, <1>10, <1>11, <1>12, <1>13, <1>14, <1>15 DEF Next

(* An empty directory and no process satisfy the invariant.                *)
LEMMA InitInv == Init => Inv
<1> SUFFICES ASSUME Init PROVE Inv  BY SMTT(30)
<1>1. DOMAIN segments = {} /\ DOMAIN snapshots = {} /\ DOMAIN stable = {}  BY DEF Init
<1>2. DiskTypeOK
  <2>1. segments = <<>> /\ snapshots = <<>> /\ stable = <<>>  BY Zenon DEF Init
  <2>2. \A T : <<>> \in [{} -> T]  BY SMTT(30)
  <2> QED  BY ZenonT(30), <1>1, <2>1, <2>2 DEF DiskTypeOK
<1>3. ProcessTypeOK
  <2>1. batch \in Seq(Requests) /\ pending \in Seq(Cell)  BY DEF Init
  <2>2. latched \in BOOLEAN  BY Zenon DEF Init
  <2> QED  BY SMTT(30), <2>1, <2>2, NoImageType DEF Init, ProcessTypeOK
<1>4. SnapshotTypeOK  BY ZenonT(30), NoImageType DEF Init, SnapshotTypeOK
<1>5. CallersTypeOK
  <2>1. history \in Seq(Cell)  BY SMTT(30) DEF Init
  <2> QED  BY SMTT(30), <2>1, NoImageType, ConstantsAssumption DEF Init, CallersTypeOK, Time
<1>6. LogInv
  <2>1. SegmentsType(segments)  BY ZenonT(30), <1>1, <1>2 DEF DiskTypeOK, SegmentsType
  <2>2. status # "up"  BY Zenon DEF Init
  <2> QED  BY ZenonT(30), <1>1, <2>1, <2>2 DEF LogInv, Chain, Linked
<1>7. WriterInv  BY DEF Init, WriterInv
<1>8. SnapInv  BY Zenon DEF Init, SnapInv
<1> QED  BY ZenonT(30), <1>2, <1>3, <1>4, <1>5, <1>6, <1>7, <1>8 DEF Inv, TypeOK

-----------------------------------------------------------------------------
(* Steps that evict.                                                       *)

(* applySet and applyDelete leave an image and count what they evict.      *)
LEMMA StepApply ==
  ASSUME Counts, Inv, applySet \/ applyDelete
  PROVE  Inv'
<1>1. pc = "apply" /\ AfterApply  BY Zenon DEF applySet, applyDelete
<1>2. entries \in Image /\ evictionGeneration \in Nat  BY Zenon DEF Inv, TypeOK, ProcessTypeOK
<1>3. CASE applyDelete
  <2>1. entries' \in Image /\ evictionGeneration' \in Nat  BY ZenonT(30), <1>2, <1>3, WithoutType DEF applyDelete
  <2> QED  BY ZenonT(30), <2>1, <1>1, AppliedRecord
<1>4. CASE applySet
  <2> DEFINE k == Head(pending).key
             image == [entries EXCEPT ![k] = EntryOf(Head(pending))]
  <2>1. image \in Image
    <3>1. pending # <<>> /\ pending \in Seq(Cell)  BY ZenonT(30), <1>1 DEF Inv, WriterInv, TypeOK, ProcessTypeOK
    <3>2. Head(pending) \in Cell  BY <3>1
    <3>3. EntryOf(Head(pending)) \in Entry  BY ZenonT(30), <3>2, <1>4 DEF applySet, EntryOf, Cell, Entry
    <3> QED  BY Zenon, <3>3, <1>2 DEF Image
  <2>2. CASE deadlinePassed(image[k])
    <3>1. entries' = Without(image, {k}) /\ evictionGeneration' = evictionGeneration
      BY ZenonT(30), <2>2, <1>4 DEF applySet
    <3> QED  BY ZenonT(30), <3>1, <2>1, <1>1, <1>2, WithoutType, AppliedRecord
  <2>3. CASE ~deadlinePassed(image[k])
    <3>1. PICK gone \in SUBSET Keys :
            /\ entries' = Without(image, gone)
            /\ evictionGeneration' =
                 evictionGeneration + Cardinality({v \in gone : ~deadlinePassed(image[v])})
      BY Zenon, <2>3, <1>4 DEF applySet
    <3> DEFINE evicted == {v \in gone : ~deadlinePassed(image[v])}
    <3>2. Cardinality(evicted) \in Nat
      <4>1. evicted \in SUBSET Keys  BY ZenonT(30), <3>1
      <4> HIDE DEF evicted
      <4> QED  BY ZenonT(30), <4>1 DEF Counts
    <3> HIDE DEF image
    <3>3. entries' \in Image  BY ZenonT(30), <3>1, <2>1, WithoutType
    <3>4. evictionGeneration' \in Nat  BY SMTT(30), <3>1, <3>2, <1>2
    <3> QED  BY ZenonT(30), <3>3, <3>4, <1>1, AppliedRecord
  <2> QED  BY Zenon, <2>2, <2>3
<1> QED  BY Zenon, <1>3, <1>4

(* Open puts the writer at the end of the last file, its torn tail gone.   *)
LEMMA StepOpen ==
  ASSUME Counts, Inv, NEW option \in Options, Open(option[1], option[2])
  PROVE  Inv'
<1> DEFINE n == option[1]
           c == option[2]
<1>1. n \in Nat \ {0} /\ c \in Nat \ {0} /\ n \in ShardCounts
  BY Zenon, ConstantsAssumption DEF ShardCounts
<1>2. /\ status = "down" /\ CanRecover /\ TypeOK /\ Chain(segments)
      /\ logSequence' = RecoveredSequence /\ seq' = RecoveredSequence
      /\ status' = "up" /\ shards' = n /\ capacity' = c
      /\ UNCHANGED <<snapshots, latched, pc, bytesSinceSnapshot, batch, pending, snap, now, callers>>
  BY Zenon DEF Open, Inv, LogInv
<1>3. entries' \in Image /\ evictionGeneration' \in Nat
  <2> DEFINE expired == {k \in Keys : deadlinePassed(RecoveredImage(n)[k])}
             image == Without(RecoveredImage(n), expired)
  <2>1. PICK gone \in SUBSET Keys : entries' = Without(image, gone) /\ evictionGeneration' = Cardinality(gone)
    BY Zenon DEF Open
  <2>2. image \in Image
    <3> HIDE DEF expired
    <3> QED  BY ZenonT(30), <1>2, RecoveredImageType, WithoutType
  <2> HIDE DEF image
  <2>3. Cardinality(gone) \in Nat  BY ZenonT(30), <2>1 DEF Counts
  <2> QED  BY ZenonT(30), <2>1, <2>2, <2>3, WithoutType
<1> HIDE DEF n, c
<1>4. pc = "idle" /\ snapPC = "idle" /\ pending = <<>> /\ Len(pending) = 0
  <2>1. pc = "idle" /\ snapPC = "idle" /\ pending = <<>>  BY Zenon, <1>2 DEF Inv, WriterInv
  <2> QED  BY ZenonT(30), <2>1
<1>5. /\ Chain(segments') /\ current' \in DOMAIN segments' /\ \A f \in DOMAIN segments' : f <= current'
      /\ Whole(segments'[current'].cells) /\ current' + Len(segments'[current'].cells) = RecoveredSequence + 1
      /\ RecoveredSequence \in Sequence /\ stable' \in {stable, snapshots}
  <2>1. CASE DOMAIN segments = {}
    <3>1. /\ segments' = Put(segments, RecoveredSequence + 1, NewSegment)
          /\ current' = RecoveredSequence + 1 /\ stable' = snapshots
      BY Zenon, <2>1 DEF Open
    <3>2. /\ RecoveredSequence \in Sequence /\ current' \in 1..MaxSequence
          /\ Chain(segments') /\ DOMAIN segments' = {current'} /\ segments'[current'] = NewSegment
      BY ZenonT(30), <3>1, <2>1, <1>2, FirstSegment
    <3>3. Whole(<<>>) /\ Len(<<>>) = 0 /\ NewSegment.cells = <<>>  BY DEF Whole, NewSegment
    <3>4. current' <= current' /\ current' + 0 = current'
      <4>1. current' \in Nat  BY SMTT(30), <3>2, NoImageType
      <4>2. \A x \in Nat : x <= x /\ x + 0 = x  OBVIOUS
      <4> QED  BY ZenonT(30), <4>1, <4>2, Zenon
    <3> QED  BY ZenonT(30), <3>1, <3>2, <3>3, <3>4
  <2>2. CASE DOMAIN segments # {}
    <3> DEFINE v == WithoutTorn(segments[LastSegment])
    <3>1. segments' = Put(segments, LastSegment, v) /\ current' = LastSegment /\ stable' = stable
      BY Zenon, <2>2 DEF Open
    <3>2. /\ LastSegment \in DOMAIN segments /\ \A f \in DOMAIN segments : f <= LastSegment
          /\ v \in Segment /\ v.synced <= Len(v.cells) /\ Numbered(LastSegment, v.cells)
          /\ Whole(v.cells) /\ RecoveredSequence \in Sequence
          /\ LastSegment + Len(v.cells) = RecoveredSequence + 1
      BY ZenonT(30), <2>2, <1>2, RecoversToTheEnd
    <3> HIDE DEF v
    <3>3. Chain(segments')  BY ZenonT(30), <3>1, <3>2, <1>2, ChainRewritesLast
    <3>4. DOMAIN segments' = DOMAIN segments /\ segments'[LastSegment] = v
      BY Zenon, <3>1, <3>2 DEF Put
    <3> QED  BY ZenonT(30), <3>1, <3>2, <3>3, <3>4
  <2> QED  BY Zenon, <2>1, <2>2
<1>6. DiskTypeOK'  BY ZenonT(30), <1>2, <1>5 DEF Inv, TypeOK, DiskTypeOK, Chain, SegmentsType
<1>7. ProcessTypeOK'
  <2>1. current' \in 0..(MaxSequence + 1)  BY SMTT(30), <1>5, NoImageType DEF Chain, SegmentsType
  <2> QED  BY ZenonT(30), <2>1, <1>1, <1>2, <1>3, <1>5 DEF Inv, TypeOK, ProcessTypeOK
<1>8. SnapshotTypeOK'  BY Zenon, <1>2, <1>4 DEF Inv, TypeOK, SnapshotTypeOK, snap
<1>9. CallersTypeOK'  BY Zenon, <1>2, Kept
<1>10. LogInv'
  <2>1. seq' + Len(pending') + 1 = RecoveredSequence + 1
    <3>1. RecoveredSequence \in Nat  BY SMTT(30), <1>5 DEF Sequence
    <3>2. seq' = RecoveredSequence /\ Len(pending') = 0  BY Zenon, <1>2, <1>4
    <3> QED  BY SMTT(30), <3>1, <3>2
  <2>2. AtTheEnd'  BY Zenon, <2>1, <1>5 DEF AtTheEnd
  <2> QED  BY Zenon, <2>2, <1>5 DEF LogInv, AtTheEnd
<1>11. WriterInv'  BY SMTT(30), <1>2, <1>4 DEF WriterInv, snap
<1>12. SnapInv'  BY ZenonT(30), <1>2, <1>4 DEF SnapInv, snap
<1> QED  BY ZenonT(30), <1>6, <1>7, <1>8, <1>9, <1>10, <1>11, <1>12 DEF Inv, TypeOK

-----------------------------------------------------------------------------
(* Every step.                                                             *)

(* Every step of the store, its files and its environment keeps Inv.       *)
LEMMA NextInv == Counts /\ Inv /\ [Next]_vars => Inv'
<1> SUFFICES ASSUME Counts, Inv, [Next]_vars PROVE Inv'  OBVIOUS
<1>1. CASE Next
  <2>1. ASSUME NEW option \in Options, Open(option[1], option[2])  PROVE Inv'  BY ZenonT(30), <2>1, StepOpen
  <2>2. ASSUME NEW k \in Keys, Reclaim(k)  PROVE Inv'  BY ZenonT(30), <2>2, StepReclaim
  <2>3. CASE WriterStep
    BY ZenonT(30), <2>3, StepSequenceExhausted, StepRollForWrite, StepRollForWriteFails, StepWriteRecords,
       StepWriteFails, StepApply, StepIdle, StepStartMemorySnapshot, StepStartDurableSnapshot,
       StepDurableSnapshotAborts, StepFinalSnapshot, StepProcessEnds DEF WriterStep
  <2>4. CASE SnapshotStep
    BY ZenonT(30), <2>4, StepCaptureShard, StepRebuildImage, StepSnapshotEnds, StepRenameSnapshot,
       StepSyncDirectory, StepRemoveOtherSnapshots, StepDeleteSegmentsBefore DEF SnapshotStep
  <2> QED
    BY ZenonT(30), <1>1, <2>1, <2>2, <2>3, <2>4, StepOpenFails, StepDrainWrites, StepFsync, StepIdle,
       StepCloseRequest, StepProcessEnds, StepPowerLoss DEF Next
<1>2. CASE UNCHANGED vars
  <2>1. UNCHANGED <<disk, status, config, memory, latched, writer, snap, now, callers>>
    BY Zenon, <1>2 DEF vars
  <2>2. UNCHANGED <<segments, snapshots, stable, shards, logSequence, snapPC, snapCover, pc, current,
                   seq, batch, pending>>
    BY ZenonT(30), <2>1 DEF disk, config, memory, snap, writer
  <2> QED  BY ZenonT(30), <2>1, <2>2, Kept DEF Inv, TypeOK
<1> QED  BY ZenonT(30), <1>1, <1>2

(* A latched store appends, acknowledges and promises nothing more.        *)
LEMMA SilentStep ==
  ASSUME Inv, Next, latched, latched'
  PROVE  UNCHANGED <<history, acked, promised>>
<1>1. pc \notin {"write", "apply"}  BY ZenonT(30) DEF Inv, WriterInv
<1>2. ~ProcessEnds  BY Zenon DEF ProcessEnds
<1>3. ASSUME NEW option \in Options, Open(option[1], option[2])
      PROVE  UNCHANGED <<history, acked, promised>>
  BY ZenonT(30), <1>3 DEF Open, callers
<1>4. ASSUME NEW k \in Keys, Reclaim(k)  PROVE UNCHANGED <<history, acked, promised>>
  BY ZenonT(30), <1>4 DEF Reclaim, callers
<1>5. CASE WriterStep
  BY ZenonT(30), <1>1, <1>2, <1>5 DEF WriterStep, SequenceExhausted, RollForWrite, RollForWriteFails,
     WriteRecords, WriteFails, CanWrite, applySet, applyDelete, NoSnapshotDue,
     StartMemorySnapshot, StartDurableSnapshot, DurableSnapshotAborts, FinalSnapshot, CloseDone,
     callers
<1>6. CASE SnapshotStep
  <2>1. SnapshotOnly
    BY ZenonT(30), <1>6 DEF SnapshotStep, CaptureShard, RebuildImage, SnapshotFails, DiscardSnapshot,
       RenameSnapshot, SyncDirectory, removeOtherSnapshots, deleteSegmentsBefore, SnapshotInstalled
  <2> QED  BY ZenonT(30), <2>1 DEF SnapshotOnly, callers
<1>7. CASE OpenFailsAfterInstall \/ OpenRefused \/ DrainWrites \/ FsyncFails \/ Tick
  BY ZenonT(30), <1>7 DEF OpenFailsAfterInstall, OpenRefused, DrainWrites, FsyncFails, Tick, callers
<1>8. CASE Fsync \/ CloseRequest  BY ZenonT(30), <1>8 DEF Fsync, CloseRequest
<1>9. ~Crash /\ ~PowerLoss  BY ZenonT(30), <1>2 DEF Crash, PowerLoss
<1> QED  BY ZenonT(30), <1>3, <1>4, <1>5, <1>6, <1>7, <1>8, <1>9 DEF Next

(* A step that removes a segment leaves its records to a snapshot.         *)
LEMMA CoveredStep ==
  ASSUME Inv, Next, NEW f \in DOMAIN segments \ DOMAIN segments'
  PROVE  \E name \in DOMAIN stable \cap DOMAIN snapshots :
           f + Len(segments[f].cells) - 1 <= Lowest(stable[name])
<1> DEFINE m == Min(Superseded(SnapName))
<1>1. /\ snapPC = "prune" /\ Superseded(SnapName) # {}
      /\ segments' = Restrict(segments, DOMAIN segments \ {m})
  BY ZenonT(30), OnlyPruningRemoves DEF deleteSegmentsBefore
<1>2. PICK g \in DOMAIN segments : m < g /\ g <= SnapName /\ m \in DOMAIN segments
  BY ZenonT(30), <1>1, FirstSuperseded
<1>3. f = m  BY ZenonT(30), <1>1 DEF Restrict
<1> HIDE DEF m
<1>4. f + Len(segments[f].cells) <= g  BY ZenonT(30), <1>2, <1>3 DEF Inv, LogInv, Chain, Linked
<1>5. /\ SnapName \in DOMAIN stable \cap DOMAIN snapshots /\ stable[SnapName].cover = snapCover
  BY ZenonT(30), <1>1 DEF Inv, SnapInv
<1>6. Lowest(stable[SnapName]) = SnapName  BY ZenonT(30), <1>5 DEF Lowest, SnapName
<1>7. f + Len(segments[f].cells) - 1 <= SnapName
  <2>1. SnapName \in Nat  BY SMTT(30), <1>1, SnapNameFacts, NoImageType DEF Sequence
  <2>2. f \in Nat /\ g \in Nat /\ segments[f].cells \in Seq(Cell)
    BY SMTT(30), <1>2, <1>3 DEF Inv, TypeOK, DiskTypeOK, Segment
  <2>3. Len(segments[f].cells) \in Nat  BY SMTT(30), <2>2
  <2> QED  BY SMTT(30), <1>2, <1>4, <2>1, <2>2, <2>3
<1> QED  BY ZenonT(30), <1>5, <1>6, <1>7
=============================================================================
