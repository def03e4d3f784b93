--------------------------- MODULE StoredRecords ----------------------------
(***************************************************************************)
(* The files hold the history, step by step: every record of a segment is  *)
(* the record of the history at its sequence, the last segment ends where  *)
(* the history ends, what was promised is in the synced part, and the names*)
(* and covers of the snapshots are in order.                               *)
(***************************************************************************)
EXTENDS StoreInvariant

-----------------------------------------------------------------------------
(* Files and histories.                                                    *)

(* Files with the same cells hold the same records: a sync.                *)
LEMMA SameCells ==
  ASSUME NEW S, NEW R, NEW H, NEW n, DOMAIN R = DOMAIN S, \A f \in DOMAIN S : R[f].cells = S[f].cells,
         Holds(S, H), EndsAt(S, n)
  PROVE  Holds(R, H) /\ EndsAt(R, n)
<1>1. \A f \in DOMAIN S : IsLast(f, R) => IsLast(f, S)  BY Zenon DEF IsLast
<1>2. Holds(R, H)  BY Zenon DEF Holds
<1>3. EndsAt(R, n)
  <2>1. \A f \in DOMAIN S : IsLast(f, S) => f + WholeLength(S[f].cells) = n + 1  BY Zenon DEF EndsAt
  <2>2. \A f \in DOMAIN S : IsLast(f, R) => f + WholeLength(R[f].cells) = n + 1  BY <1>1, <2>1
  <2> QED  BY Zenon, <2>2 DEF EndsAt
<1> QED  BY Zenon, <1>2, <1>3

(* Rewriting the last file does not concern the records before its start.  *)
LEMMA HoldsRewritesLast ==
  ASSUME NEW S, Chain(S), NEW f \in DOMAIN S, IsLast(f, S), NEW H, Holds(S, H), NEW G, NEW v,
         f - 1 <= Len(G), \A i \in 1..(f - 1) : G[i] = H[i],
         \A i \in 1..Len(v.cells) :
           v.cells[i].op # "torn" => f + i - 1 <= Len(G) /\ v.cells[i] = G[f + i - 1],
         f + WholeLength(v.cells) = Len(G) + 1, Len(G) \in Nat
  PROVE  Holds(Put(S, f, v), G) /\ EndsAt(Put(S, f, v), Len(G))
<1> DEFINE R == Put(S, f, v)
<1>1. DOMAIN R = DOMAIN S /\ R[f] = v /\ \A y \in DOMAIN S : y # f => R[y] = S[y]
  BY Zenon DEF Put
<1> HIDE DEF R
<1>2. \A y \in DOMAIN S : y \in Nat \ {0} /\ Len(S[y].cells) \in Nat
  BY SMTT(30) DEF Chain, SegmentsType, Segment
<1>3. ASSUME NEW y \in DOMAIN S, y # f, NEW i \in 1..Len(S[y].cells), S[y].cells[i].op # "torn"
      PROVE  y + i - 1 <= Len(G) /\ S[y].cells[i] = G[y + i - 1]
  <2>1. y <= f  BY Zenon DEF IsLast
  <2>2. y < f  BY SMTT(30), <1>2, <1>3, <2>1
  <2>3. y + Len(S[y].cells) <= f  BY Zenon, <2>2 DEF Chain, Linked
  <2>4. S[y].cells[i] = H[y + i - 1]  BY Zenon, <1>3 DEF Holds
  <2>5. y + i - 1 \in 1..(f - 1) /\ y + i - 1 <= Len(G)  BY SMTT(30), <1>2, <2>3
  <2> QED  BY Zenon, <2>4, <2>5
<1>4. Holds(R, G)
  <2>1. ASSUME NEW y \in DOMAIN R, NEW i \in 1..Len(R[y].cells), R[y].cells[i].op # "torn"
        PROVE  y + i - 1 <= Len(G) /\ R[y].cells[i] = G[y + i - 1]
    <3>1. CASE y = f
      <4>1. R[y] = v  BY Zenon, <1>1, <3>1
      <4> QED  BY SMTT(30), <4>1, <2>1, <3>1
    <3>2. CASE y # f
      <4>1. y \in DOMAIN S /\ R[y] = S[y]  BY Zenon, <1>1, <2>1, <3>2
      <4>2. i \in 1..Len(S[y].cells) /\ S[y].cells[i].op # "torn"  BY <4>1, <2>1
      <4> QED  BY Zenon, <4>1, <4>2, <1>3, <3>2
    <3> QED  BY Zenon, <3>1, <3>2
  <2> QED  BY Zenon, <2>1 DEF Holds
<1>5. \A y \in DOMAIN R : IsLast(y, R) => y = f
  <2>1. \A y \in DOMAIN S : y <= f /\ f <= y => y = f  BY <1>2
  <2> QED  BY Zenon, <1>1, <2>1 DEF IsLast
<1>6. EndsAt(R, Len(G))  BY Zenon, <1>1, <1>5 DEF EndsAt
<1> QED  BY Zenon, <1>4, <1>6 DEF R

(* Removing a file before the last one loses no record of another.         *)
LEMMA HoldsDropsFirst ==
  ASSUME NEW S, Chain(S), NEW H, NEW n, NEW p, Holds(S, H), EndsAt(S, n), SyncedThrough(S, p),
         NEW f \in DOMAIN S, NEW g \in DOMAIN S, f < g
  PROVE  LET R == Restrict(S, DOMAIN S \ {f})
         IN  Holds(R, H) /\ EndsAt(R, n) /\ SyncedThrough(R, p)
<1> DEFINE R == Restrict(S, DOMAIN S \ {f})
<1>1. DOMAIN R = DOMAIN S \ {f} /\ \A y \in DOMAIN R : R[y] = S[y]  BY Zenon DEF Restrict
<1> HIDE DEF R
<1>2. \A y \in DOMAIN S : y \in Nat  BY DEF Chain, SegmentsType
<1>3. g \in DOMAIN R  BY <1>1, <1>2
<1>4. ASSUME NEW y \in DOMAIN R, IsLast(y, R)  PROVE IsLast(y, S)
  <2>1. g <= y /\ y \in DOMAIN S  BY Zenon, <1>1, <1>3, <1>4 DEF IsLast
  <2>2. f <= y  BY <1>2, <2>1
  <2> QED  BY Zenon, <1>1, <1>4, <2>1, <2>2 DEF IsLast
<1>5. Holds(R, H)
  <2>1. \A y \in DOMAIN R : y \in DOMAIN S  BY Zenon, <1>1
  <2>2. ASSUME NEW y \in DOMAIN R, NEW i \in 1..Len(R[y].cells), R[y].cells[i].op # "torn"
        PROVE  y + i - 1 <= Len(H) /\ R[y].cells[i] = H[y + i - 1]
    <3>1. R[y] = S[y] /\ y \in DOMAIN S  BY Zenon, <1>1, <2>1
    <3>2. i \in 1..Len(S[y].cells) /\ S[y].cells[i].op # "torn"  BY Zenon, <2>2, <3>1
    <3>3. y + i - 1 <= Len(H) /\ S[y].cells[i] = H[y + i - 1]  BY Zenon, <3>1, <3>2 DEF Holds
    <3> QED  BY Zenon, <3>1, <3>3
  <2> QED  BY Zenon, <2>2 DEF Holds
<1>6. EndsAt(R, n) /\ SyncedThrough(R, p)
  <2>1. \A y \in DOMAIN R : y \in DOMAIN S /\ R[y] = S[y] /\ (IsLast(y, R) => IsLast(y, S))
    BY Zenon, <1>1, <1>4
  <2> QED  BY <2>1 DEF EndsAt, SyncedThrough
<1> QED  BY Zenon, <1>5, <1>6 DEF R

-----------------------------------------------------------------------------
(* What a step does to the files and to the history.                       *)

(* A writer that has not latched is at the end of the history, its pending *)
(* records counted.                                                        *)
LEMMA WriterAtEnd ==
  ASSUME Inv, RecordsInv, status = "up", ~latched
  PROVE  /\ Len(history) = seq + Len(pending) /\ IsLast(current, segments)
         /\ current + Len(segments[current].cells) = Len(history) + 1
<1>1. current \in DOMAIN segments /\ AtTheEnd  BY Zenon DEF Inv, LogInv
<1>2. IsLast(current, segments)  BY Zenon, <1>1 DEF AtTheEnd, IsLast
<1>3. WholeLength(segments[current].cells) = Len(segments[current].cells)
  BY Zenon, <1>1 DEF AtTheEnd, WholeLength
<1>4. current + Len(segments[current].cells) = Len(history) + 1
  <2>1. current + WholeLength(segments[current].cells) = Len(history) + 1
    BY Zenon, <1>1, <1>2 DEF RecordsInv, EndsAt
  <2> QED  BY <2>1, <1>3
<1>5. current + Len(segments[current].cells) = seq + Len(pending) + 1  BY Zenon, <1>1 DEF AtTheEnd
<1>6. Len(history) \in Nat /\ seq \in Nat /\ Len(pending) \in Nat  BY Zenon, HistoryFacts
<1>7. Len(history) = seq + Len(pending)  BY SMTT(30), <1>4, <1>5, <1>6
<1> QED  BY Zenon, <1>2, <1>4, <1>7

(* A step that leaves the segments, the history and what callers were told *)
(* alone.                                                                  *)
LEMMA LogKept ==
  ASSUME RecordsInv, AnswersInv, UNCHANGED <<segments, history, acked, promised>>,
         UNCHANGED <<snapshots, stable>> \/ DOMAIN segments # {},
         UNCHANGED <<status, seq, pending>> \/ status' # "up"
  PROVE  RecordsInv' /\ AnswersInv'
<1>1. segments' = segments /\ history' = history /\ acked' = acked /\ promised' = promised  OBVIOUS
<1>2. RecordsInv'  BY Zenon, <1>1 DEF RecordsInv
<1>3. AnswersInv'  BY Zenon, <1>1 DEF AnswersInv
<1> QED  BY Zenon, <1>2, <1>3

(* A sync covers what it promises.                                         *)
LEMMA LogSynced ==
  ASSUME Inv, RecordsInv, AnswersInv, status = "up", segments' = Synced(current),
         UNCHANGED <<history, acked, status, seq, pending>>,
         promised' = promised \/ (promised' = acked /\ ~latched /\ pending = <<>>)
  PROVE  RecordsInv' /\ AnswersInv'
<1>1. /\ history' = history /\ acked' = acked /\ status' = status /\ seq' = seq /\ pending' = pending
      /\ current \in DOMAIN segments
  BY Zenon DEF Inv, LogInv
<1>2. /\ DOMAIN segments' = DOMAIN segments
      /\ \A f \in DOMAIN segments : segments'[f].cells = segments[f].cells
      /\ segments'[current].synced = Len(segments[current].cells)
  BY Zenon, SyncedFacts
<1>3. \A f \in DOMAIN segments : f # current => segments'[f] = segments[f]  BY Zenon DEF Synced, Put
<1>4. Holds(segments', history) /\ EndsAt(segments', Len(history))
  BY Zenon, <1>2, SameCells DEF RecordsInv
<1>5. RecordsInv'  BY Zenon, <1>1, <1>2, <1>4 DEF RecordsInv
<1>6. promised' <= Len(history)  BY Zenon DEF AnswersInv
<1>7. ASSUME NEW f \in DOMAIN segments, IsLast(f, segments')  PROVE promised' < f + segments'[f].synced
  <2>0. IsLast(f, segments)  BY Zenon, <1>2, <1>7 DEF IsLast
  <2>1. CASE promised' = promised
    <3>1. promised < f + segments[f].synced  BY Zenon, <2>0 DEF AnswersInv, SyncedThrough
    <3>2. segments[f].synced <= segments'[f].synced
      <4>1. CASE f = current  BY Zenon, <4>1, <1>2, HistoryFacts
      <4>2. CASE f # current
        <5>1. segments'[f].synced = segments[f].synced /\ segments[f].synced \in Nat
          BY Zenon, <4>2, <1>3, HistoryFacts
        <5> QED  BY <5>1
      <4> QED  BY Zenon, <4>1, <4>2
    <3>3. f \in Nat /\ segments[f].synced \in Nat /\ promised \in Nat /\ segments'[f].synced \in Nat
      BY ZenonT(30), <1>2, <1>3, HistoryFacts
    <3> QED  BY SMTT(30), <2>1, <3>1, <3>2, <3>3
  <2>2. CASE promised' = acked /\ ~latched /\ pending = <<>>
    <3>1. IsLast(current, segments) /\ current + Len(segments[current].cells) = Len(history) + 1
      BY Zenon, <2>2, WriterAtEnd
    <3>2. f \in Nat /\ current \in Nat /\ acked \in Nat /\ Len(history) \in Nat /\ acked <= Len(history)
      BY Zenon, <1>1, HistoryFacts DEF AnswersInv
    <3>3. f <= current /\ current <= f  BY ZenonT(30), <2>0, <3>1, <1>1 DEF IsLast
    <3>4. f = current  BY SMTT(30), <3>2, <3>3
    <3>5. f + segments'[f].synced = Len(history) + 1  BY Zenon, <3>1, <3>4, <1>2
    <3> QED  BY <2>2, <3>2, <3>5
  <2> QED  BY Zenon, <2>1, <2>2
<1>8. SyncedThrough(segments', promised')  BY Zenon, <1>2, <1>7 DEF SyncedThrough
<1>9. AnswersInv'  BY Zenon, <1>1, <1>6, <1>8 DEF AnswersInv
<1> QED  BY Zenon, <1>5, <1>9

(* A roll begins the next file where the history ends.                     *)
LEMMA LogRolled ==
  ASSUME Inv, RecordsInv, AnswersInv, status = "up", ~latched, pending = <<>>, seq # MaxSequence,
         segments' = Put(Synced(current), seq + 1, NewSegment),
         UNCHANGED <<history, acked, promised, status, seq, pending>>
  PROVE  RecordsInv' /\ AnswersInv'
<1>1. /\ history' = history /\ acked' = acked /\ promised' = promised /\ status' = status
      /\ seq' = seq /\ pending' = pending
  OBVIOUS
<1>2. /\ DOMAIN segments' = DOMAIN segments \cup {seq + 1} /\ segments'[seq + 1] = NewSegment
      /\ \A f \in DOMAIN segments' : f <= seq + 1
  BY Zenon, RollFacts
<1>3. \A f \in DOMAIN segments : f # seq + 1 => segments'[f].cells = segments[f].cells
  <2>1. DOMAIN Synced(current) = DOMAIN segments
        /\ \A f \in DOMAIN segments : Synced(current)[f].cells = segments[f].cells
    BY Zenon, SyncedFacts
  <2>2. \A f \in DOMAIN Synced(current) : f # seq + 1 => segments'[f] = Synced(current)[f]
    BY Zenon DEF Put
  <2> QED  BY Zenon, <2>1, <2>2
<1>4. NewSegment.cells = <<>> /\ NewSegment.synced = 0  BY Zenon DEF NewSegment
<1>5. /\ Len(history) = seq /\ seq \in Nat /\ promised \in Nat /\ promised <= Len(history)
      /\ \A f \in DOMAIN segments' : f \in Nat
  <2>1. Len(pending) = 0  OBVIOUS
  <2>2. Len(history) = seq + Len(pending) /\ seq \in Nat /\ promised \in Nat /\ promised <= Len(history)
    BY Zenon, WriterAtEnd, HistoryFacts DEF AnswersInv
  <2>3. \A f \in DOMAIN segments : f \in Nat  BY Zenon, HistoryFacts
  <2> QED  BY SMTT(30), <2>1, <2>2, <2>3, <1>2
<1>6. Holds(segments', history)
  <2> SUFFICES ASSUME NEW f \in DOMAIN segments', NEW i \in 1..Len(segments'[f].cells),
                      segments'[f].cells[i].op # "torn"
               PROVE  f + i - 1 <= Len(history) /\ segments'[f].cells[i] = history[f + i - 1]
    BY Zenon DEF Holds
  <2>1. f # seq + 1
    <3> SUFFICES ASSUME f = seq + 1 PROVE FALSE  OBVIOUS
    <3>1. segments'[f].cells = <<>>  BY Zenon, <1>2, <1>4
    <3> QED  BY SMTT(30), <3>1
  <2>2. f \in DOMAIN segments /\ segments'[f].cells = segments[f].cells  BY ZenonT(30), <2>1, <1>2, <1>3
  <2>3. i \in 1..Len(segments[f].cells) /\ segments[f].cells[i].op # "torn"  BY <2>2
  <2>4. f + i - 1 <= Len(history) /\ segments[f].cells[i] = history[f + i - 1]
    BY Zenon, <2>2, <2>3 DEF RecordsInv, Holds
  <2> QED  BY SMTT(30), <2>2, <2>4
<1>7. ASSUME NEW f \in DOMAIN segments', IsLast(f, segments')
      PROVE  f = seq + 1 /\ segments'[f] = NewSegment
  <2>1. seq + 1 <= f /\ f <= seq + 1  BY Zenon, <1>2, <1>7 DEF IsLast
  <2>2. f = seq + 1  BY <2>1, <1>5
  <2> QED  BY Zenon, <2>2, <1>2
<1>8. EndsAt(segments', Len(history)) /\ SyncedThrough(segments', promised)
  <2>1. WholeLength(<<>>) = 0  BY DEF WholeLength, Whole
  <2>2. seq + 1 + 0 = Len(history) + 1 /\ promised < seq + 1 + 0  BY <1>5
  <2>3. ASSUME NEW f \in DOMAIN segments', IsLast(f, segments')
        PROVE  f + WholeLength(segments'[f].cells) = Len(history) + 1 /\ promised < f + segments'[f].synced
    <3>1. f = seq + 1 /\ WholeLength(segments'[f].cells) = 0 /\ segments'[f].synced = 0
      BY Zenon, <1>4, <1>7, <2>1, <2>3
    <3> QED  BY Zenon, <3>1, <2>2
  <2> QED  BY Zenon, <2>3 DEF EndsAt, SyncedThrough
<1>9. RecordsInv'  BY Zenon, <1>1, <1>2, <1>6, <1>8 DEF RecordsInv
<1>10. AnswersInv'  BY Zenon, <1>1, <1>8 DEF AnswersInv
<1> QED  BY Zenon, <1>9, <1>10

(* An incomplete record is a cell of its own kind.                         *)
LEMMA TornFacts == Torn \in Cell /\ Torn.op = "torn"
<1>1. (CHOOSE k \in Keys : TRUE) \in Keys /\ 0 \in Time  BY ConstantsAssumption DEF Time
<1> QED  BY Zenon, <1>1, NoImageType DEF Torn, Cell

(* Whole cells with or without a torn one after them.                      *)
LEMMA TailFacts ==
  ASSUME NEW whole \in Seq(Cell), \A i \in 1..Len(whole) : whole[i].op # "torn",
         NEW tail \in {<<>>, <<Torn>>}
  PROVE  LET both == whole \o tail
         IN  /\ both \in Seq(Cell) /\ Len(both) \in Nat /\ Len(whole) \in Nat
             /\ WholeLength(both) = Len(whole) /\ Len(whole) <= Len(both)
             /\ \A i \in 1..Len(both) : both[i].op # "torn" => i \in 1..Len(whole)
             /\ \A i \in 1..Len(whole) : both[i] = whole[i]
<1> DEFINE both == whole \o tail
<1>1. CASE tail = <<>>
  <2>1. both = whole  BY SMTT(30), <1>1
  <2> HIDE DEF both
  <2>2. Whole(whole) /\ Len(whole) \in Nat  BY DEF Whole
  <2>3. \A i \in 1..Len(whole) : i \in 1..Len(whole)  OBVIOUS
  <2>4. WholeLength(whole) = Len(whole)  BY Zenon, <2>2 DEF WholeLength
  <2> QED  BY SMTT(30), <2>1, <2>2, <2>3, <2>4 DEF both
<1>2. CASE tail = <<Torn>>
  <2>1. /\ both \in Seq(Cell) /\ Len(both) = Len(whole) + 1 /\ Len(whole) \in Nat
        /\ both[Len(whole) + 1] = Torn /\ \A i \in 1..Len(whole) : both[i] = whole[i]
    BY SMTT(30), <1>2, TornFacts
  <2> HIDE DEF both
  <2>2. ~Whole(both)
    <3>1. Len(whole) + 1 \in DOMAIN both  BY <2>1
    <3> QED  BY Zenon, <3>1, <2>1, TornFacts DEF Whole
  <2>3. WholeLength(both) = Len(whole)
    <3>1. WholeLength(both) = Len(both) - 1  BY Zenon, <2>2 DEF WholeLength
    <3> QED  BY SMTT(30), <3>1, <2>1
  <2>4. \A i \in 1..Len(both) : i \in 1..Len(whole) \/ i = Len(whole) + 1  BY <2>1
  <2>5. \A i \in 1..Len(both) : both[i].op # "torn" => i \in 1..Len(whole)
    BY Zenon, <2>1, <2>4, TornFacts
  <2>6. Len(both) \in Nat /\ Len(whole) <= Len(both)  BY <2>1
  <2> QED  BY Zenon, <2>1, <2>3, <2>5, <2>6 DEF both
<1> QED  BY Zenon, <1>1, <1>2

(* A write, whole or stopped early, adds to the history what it adds to    *)
(* the writer's file, except a torn tail.                                  *)
LEMMA LogAppended ==
  ASSUME Inv, RecordsInv, AnswersInv, CanWrite,
         NEW whole \in Seq(Cell), Len(whole) <= ChunkLength,
         \A i \in 1..Len(whole) : whole[i] = Chunk[i],
         NEW tail \in {<<>>, <<Torn>>},
         segments' = Appended(whole \o tail), history' = history \o whole,
         UNCHANGED <<acked, promised>>,
         status' = "up" => seq' = seq /\ pending' \in {pending, whole}
  PROVE  RecordsInv' /\ AnswersInv'
<1> DEFINE old == segments[current]
           t == whole \o tail
           both == old.cells \o t
           v == [old EXCEPT !.cells = @ \o t]
           n == Len(old.cells)
           N == Len(history)
<1>1. /\ status = "up" /\ ~latched /\ pending = <<>> /\ current \in DOMAIN segments
      /\ IsLast(current, segments) /\ Whole(old.cells) /\ current + n = seq + 1
      /\ old.cells \in Seq(Cell) /\ old \in Segment
  BY Zenon, WritingFacts DEF CanWrite, IsLast, Inv, TypeOK, DiskTypeOK
<1>2. current \in Nat \ {0} /\ seq \in Nat /\ n \in Nat /\ N \in Nat /\ history \in Seq(Cell)
  BY Zenon, <1>1, HistoryFacts
<1>3. N = seq
  <2>1. N = seq + Len(pending) /\ Len(pending) = 0  BY Zenon, <1>1, WriterAtEnd
  <2> QED  BY SMTT(30), <2>1, <1>2
<1>4. /\ ChunkLength \in Nat
      /\ \A i \in 1..ChunkLength : Chunk[i].op # "torn" /\ Chunk[i].seq = seq + i
  BY ChunkFacts
<1>5. \A i \in 1..Len(whole) : whole[i].op # "torn" /\ whole[i].seq = N + i
  <2>1. \A i \in 1..Len(whole) : i \in 1..ChunkLength  BY <1>4
  <2> QED  BY Zenon, <2>1, <1>3, <1>4
<1>6. /\ t \in Seq(Cell) /\ Len(t) \in Nat /\ Len(whole) \in Nat
      /\ WholeLength(t) = Len(whole) /\ Len(whole) <= Len(t)
      /\ \A i \in 1..Len(t) : t[i].op # "torn" => i \in 1..Len(whole)
      /\ \A i \in 1..Len(whole) : t[i] = whole[i]
  BY Zenon, <1>5, TailFacts
<1> HIDE DEF t
<1>7. /\ both \in Seq(Cell) /\ Len(both) = n + Len(t)
      /\ \A i \in 1..n : both[i] = old.cells[i]
      /\ \A i \in 1..Len(t) : both[n + i] = t[i]
  <2>1. old.cells \in Seq(Cell) /\ t \in Seq(Cell)  BY Zenon, <1>1, <1>6
  <2> HIDE DEF old
  <2> QED  BY SMTT(30), <2>1, ConcatFacts
<1>8. /\ history' \in Seq(Cell) /\ Len(history') = N + Len(whole)
      /\ \A i \in 1..N : history'[i] = history[i]
      /\ \A i \in 1..Len(whole) : history'[N + i] = whole[i]
  <2>1. history \in Seq(Cell) /\ whole \in Seq(Cell) /\ history' = history \o whole  BY Zenon, <1>2
  <2> QED  BY SMTT(30), <2>1, ConcatFacts
<1>9. segments' = Put(segments, current, v) /\ v.cells = both /\ v.synced = old.synced
  BY Zenon, <1>1 DEF Appended, Segment, t
<1> HIDE DEF both, v, n, old, N
<1>10. \A i \in 1..n : /\ both[i].op # "torn" /\ current + i - 1 \in 1..N
                       /\ both[i] = history[current + i - 1]
  <2> TAKE i \in 1..n
  <2>1. old.cells[i].op # "torn" /\ i \in 1..Len(segments[current].cells)
    BY SMTT(30), <1>1 DEF Whole, n, old
  <2>2. current + i - 1 \in 1..N  BY SMTT(30), <1>1, <1>2, <1>3
  <2>3. segments[current].cells[i] = history[current + i - 1]
    BY Zenon, <2>1, <1>1 DEF RecordsInv, Holds, old
  <2> QED  BY Zenon, <2>1, <2>2, <2>3, <1>7 DEF old
<1>11. \A i \in 1..Len(both) : ~(i \in 1..n) => i - n \in 1..Len(t) /\ n + (i - n) = i
  BY SMTT(30), <1>2, <1>6, <1>7
<1>12. ASSUME NEW i \in 1..Len(both), both[i].op # "torn"
       PROVE  /\ current + i - 1 <= Len(history') /\ both[i] = history'[current + i - 1]
  <2>1. CASE i \in 1..n
    <3>1. current + i - 1 <= N + Len(whole)  BY SMTT(30), <2>1, <1>2, <1>6, <1>10
    <3> QED  BY Zenon, <2>1, <3>1, <1>8, <1>10
  <2>2. CASE ~(i \in 1..n)
    <3> DEFINE j == i - n
    <3>1. j \in 1..Len(t) /\ n + j = i  BY Zenon, <2>2, <1>11
    <3> HIDE DEF j
    <3>2. both[i] = t[j]  BY Zenon, <3>1, <1>7
    <3>3. j \in 1..Len(whole) /\ t[j] = whole[j]  BY Zenon, <3>1, <3>2, <1>6, <1>12
    <3>4. current + i - 1 = N + j /\ N + j <= N + Len(whole)
      <4>1. j \in Int /\ i \in Int /\ j <= Len(whole)  BY SMTT(30), <3>1, <3>3
      <4>2. current + n = N + 1 /\ n + j = i  BY Zenon, <3>1, <1>1, <1>3
      <4>3. current \in Int /\ n \in Int /\ N \in Int /\ Len(whole) \in Int  BY SMTT(30), <1>2, <1>6
      <4> QED  BY SMTT(30), <4>1, <4>2, <4>3
    <3> QED  BY Zenon, <3>2, <3>3, <3>4, <1>8
  <2> QED  BY Zenon, <2>1, <2>2
<1>13. current + WholeLength(both) = Len(history') + 1
  <2>1. WholeLength(both) = n + Len(whole)
    <3>1. CASE tail = <<>>
      <4>1. Len(t) = Len(whole)  BY <3>1 DEF t
      <4>2. \A i \in 1..Len(both) : both[i].op # "torn"
        <5> TAKE i \in 1..Len(both)
        <5>1. CASE i \in 1..n  BY Zenon, <5>1, <1>10
        <5>2. CASE ~(i \in 1..n)
          <6>1. i - n \in 1..Len(whole) /\ both[i] = t[i - n]  BY ZenonT(30), <5>2, <4>1, <1>7, <1>11
          <6> QED  BY Zenon, <6>1, <1>5, <1>6
        <5> QED  BY Zenon, <5>1, <5>2
      <4>3. Whole(both)
        <5>1. DOMAIN both = 1..Len(both)  BY SMTT(30), <1>7
        <5> QED  BY Zenon, <4>2, <5>1 DEF Whole
      <4>4. WholeLength(both) = Len(both)  BY Zenon, <4>3 DEF WholeLength
      <4> QED  BY SMTT(30), <4>1, <4>4, <1>7
    <3>2. CASE tail = <<Torn>>
      <4>1. Len(t) = Len(whole) + 1 /\ t[Len(whole) + 1] = Torn  BY SMTT(30), <3>2, TornFacts DEF t
      <4>2. Len(t) \in 1..Len(t) /\ n + Len(t) \in DOMAIN both  BY SMTT(30), <4>1, <1>2, <1>6, <1>7
      <4>3. both[n + Len(t)] = Torn  BY Zenon, <4>1, <4>2, <1>7
      <4>4. ~Whole(both)  BY Zenon, <4>2, <4>3, TornFacts DEF Whole
      <4>5. WholeLength(both) = Len(both) - 1  BY Zenon, <4>4 DEF WholeLength
      <4> QED  BY SMTT(30), <4>1, <4>5, <1>2, <1>6, <1>7
    <3> QED  BY Zenon, <3>1, <3>2
  <2>2. current + n = N + 1 /\ Len(history') = N + Len(whole)  BY Zenon, <1>1, <1>3, <1>8
  <2>3. current \in Int /\ n \in Int /\ N \in Int /\ Len(whole) \in Int  BY SMTT(30), <1>2, <1>6
  <2> QED  BY SMTT(30), <2>1, <2>2, <2>3
<1>14. Holds(segments', history') /\ EndsAt(segments', Len(history'))
  <2>1. current - 1 <= Len(history') /\ Len(history') \in Nat
        /\ \A i \in 1..(current - 1) : i \in 1..N
    BY SMTT(30), <1>1, <1>2, <1>3, <1>6, <1>8
  <2>2. \A i \in 1..(current - 1) : history'[i] = history[i]  BY Zenon, <2>1, <1>8
  <2>3. Chain(segments) /\ Holds(segments, history)  BY Zenon DEF Inv, LogInv, RecordsInv
  <2>4. \A i \in 1..Len(v.cells) : v.cells[i].op # "torn" =>
          current + i - 1 <= Len(history') /\ v.cells[i] = history'[current + i - 1]
    BY Zenon, <1>9, <1>12
  <2>5. current + WholeLength(v.cells) = Len(history') + 1  BY Zenon, <1>9, <1>13
  <2> QED  BY ZenonT(30), <1>1, <1>9, <2>1, <2>2, <2>3, <2>4, <2>5, HoldsRewritesLast
<1>15. Numbers(history')
  <2> SUFFICES ASSUME NEW i \in 1..Len(history') PROVE history'[i].seq = i /\ history'[i].op # "torn"
    BY Zenon DEF Numbers
  <2>1. i \in 1..N \/ (i - N \in 1..Len(whole) /\ N + (i - N) = i)  BY SMTT(30), <1>2, <1>6, <1>8
  <2>2. CASE i \in 1..N  BY Zenon, <2>2, <1>8 DEF RecordsInv, Numbers, N
  <2>3. CASE i - N \in 1..Len(whole) /\ N + (i - N) = i
    <3> DEFINE j == i - N
    <3>1. j \in 1..Len(whole) /\ N + j = i  BY Zenon, <2>3
    <3> HIDE DEF j
    <3>2. history'[i] = whole[j]  BY Zenon, <3>1, <1>8
    <3> QED  BY Zenon, <3>1, <3>2, <1>5
  <2> QED  BY Zenon, <2>1, <2>2, <2>3
<1>16. DOMAIN segments' = DOMAIN segments /\ segments'[current] = v  BY Zenon, <1>1, <1>9 DEF Put
<1>17. RecordsInv'  BY ZenonT(30), <1>1, <1>14, <1>15, <1>16 DEF RecordsInv
<1>18. SyncedThrough(segments', promised')
  <2> SUFFICES ASSUME NEW f \in DOMAIN segments', IsLast(f, segments')
               PROVE  promised' < f + segments'[f].synced
    BY Zenon DEF SyncedThrough
  <2>1. f <= current /\ current <= f /\ f \in Nat /\ promised' = promised
    BY Zenon, <1>1, <1>16, HistoryFacts DEF IsLast
  <2>2. f = current  BY SMTT(30), <2>1, <1>2
  <2>3. promised < current + old.synced  BY Zenon, <1>1 DEF AnswersInv, SyncedThrough, old
  <2>4. segments'[f].synced = old.synced  BY Zenon, <2>2, <1>9, <1>16
  <2> QED  BY SMTT(30), <2>1, <2>2, <2>3, <2>4
<1>19. AnswersInv'
  <2>1. acked' = acked /\ promised' = promised /\ acked \in Nat /\ promised \in Nat
        /\ acked <= N /\ promised <= N /\ acked <= seq
    BY ZenonT(30), <1>1, HistoryFacts DEF AnswersInv, N
  <2>2. acked' <= Len(history') /\ promised' <= Len(history')  BY SMTT(30), <2>1, <1>2, <1>6, <1>8
  <2>3. ASSUME status' = "up"
        PROVE  /\ acked' <= seq' /\ seq' + Len(pending') <= Len(history')
               /\ \A i \in 1..Len(pending') : pending'[i] = history'[seq' + i]
    <3>1. seq' = seq /\ pending' \in {<<>>, whole}  BY Zenon, <1>1, <2>3
    <3>2. CASE pending' = <<>>
      <4>1. Len(pending') = 0  BY SMTT(30), <3>2
      <4>2. seq + 0 <= Len(history') /\ \A i \in 1..0 : FALSE  BY SMTT(30), <1>2, <1>3, <1>6, <1>8
      <4> QED  BY Zenon, <2>1, <3>1, <4>1, <4>2
    <3>3. CASE pending' = whole
      <4>1. seq + Len(whole) <= Len(history')  BY SMTT(30), <1>2, <1>3, <1>6, <1>8
      <4> QED  BY ZenonT(30), <2>1, <3>1, <3>3, <4>1, <1>3, <1>8
    <3> QED  BY Zenon, <3>1, <3>2, <3>3
  <2> QED  BY Zenon, <2>2, <2>3, <1>18 DEF AnswersInv
<1> QED  BY Zenon, <1>17, <1>19

(* Pruning removes a file before the last one.                             *)
LEMMA LogPruned ==
  ASSUME Inv, RecordsInv, AnswersInv, deleteSegmentsBefore
  PROVE  RecordsInv' /\ AnswersInv'
<1> DEFINE m == Min(Superseded(SnapName))
<1>1. /\ snapPC = "prune" /\ Superseded(SnapName) # {}
      /\ segments' = Restrict(segments, DOMAIN segments \ {m})
      /\ UNCHANGED <<snapshots, stable, status, seq, pending, history, acked, promised>>
  BY Zenon DEF deleteSegmentsBefore, SnapshotOnly, writer, callers
<1>2. m \in DOMAIN segments /\ \E g \in DOMAIN segments : m < g /\ g <= SnapName
  BY Zenon, <1>1, FirstSuperseded
<1> HIDE DEF m
<1>3. PICK g \in DOMAIN segments : m < g  BY Zenon, <1>2
<1>4. Holds(segments', history) /\ EndsAt(segments', Len(history)) /\ SyncedThrough(segments', promised)
  BY ZenonT(30), <1>1, <1>2, <1>3, HoldsDropsFirst DEF Inv, LogInv, RecordsInv, AnswersInv
<1>5. DOMAIN segments' # {}
  <2>1. \A f \in DOMAIN segments : f \in Nat  BY Zenon, HistoryFacts
  <2>2. g # m  BY SMTT(30), <2>1, <1>2, <1>3
  <2>3. DOMAIN segments' = DOMAIN segments \ {m}  BY Zenon, <1>1 DEF Restrict
  <2> QED  BY Zenon, <2>2, <2>3
<1>6. RecordsInv'  BY Zenon, <1>1, <1>4, <1>5 DEF RecordsInv
<1>7. AnswersInv'  BY Zenon, <1>1, <1>4 DEF AnswersInv
<1> QED  BY Zenon, <1>6, <1>7

(* The first file of a directory.                                          *)
LEMMA LogBegun ==
  ASSUME Inv, RecordsInv, AnswersInv, CanRecover, DOMAIN segments = {},
         segments' = Put(segments, RecoveredSequence + 1, NewSegment),
         UNCHANGED <<history, acked, promised>>
  PROVE  RecordsInv' /\ acked' <= Len(history') /\ promised' <= Len(history')
         /\ SyncedThrough(segments', promised')
<1>1. RecoveredSequence = Len(history) /\ history = <<>>  BY Zenon, RecoversHistory DEF RecordsInv
<1>2. RecoveredSequence + 1 = 1 /\ Len(history) = 0  BY SMTT(30), <1>1
<1>3. history' = history /\ acked' = acked /\ promised' = promised  OBVIOUS
<1>4. DOMAIN segments' = {1} /\ segments'[1] = NewSegment  BY Zenon, <1>2 DEF Put
<1>5. NewSegment.cells = <<>> /\ NewSegment.synced = 0 /\ Len(<<>>) = 0  BY DEF NewSegment
<1>6. WholeLength(<<>>) = 0  BY DEF WholeLength, Whole
<1>7. Holds(segments', history)
  <2>1. \A i \in 1..0 : FALSE  OBVIOUS
  <2> QED  BY Zenon, <2>1, <1>4, <1>5 DEF Holds
<1>8. promised \in Nat /\ promised <= 0  BY Zenon, <1>2, HistoryFacts DEF AnswersInv
<1>9. 1 + 0 = 0 + 1 /\ promised < 1 + 0  BY <1>8
<1>10. EndsAt(segments', Len(history)) /\ SyncedThrough(segments', promised)
  BY ZenonT(30), <1>2, <1>4, <1>5, <1>6, <1>9 DEF EndsAt, SyncedThrough
<1> QED  BY Zenon, <1>3, <1>4, <1>7, <1>10 DEF RecordsInv, AnswersInv

(* Cutting off the torn tail, which is no record, leaves the records.      *)
LEMMA LogTrimmed ==
  ASSUME Inv, RecordsInv, AnswersInv, DOMAIN segments # {}, UNCHANGED <<history, promised>>,
         segments' = Put(segments, LastSegment, WithoutTorn(segments[LastSegment]))
  PROVE  RecordsInv' /\ SyncedThrough(segments', promised')
<1>0. promised <= Len(history) /\ Len(history) \in Nat /\ promised \in Nat /\ history' = history /\ promised' = promised
  BY Zenon, HistoryFacts DEF AnswersInv
<1> DEFINE L == LastSegment
           cells == segments[L].cells
           w == WholeLength(cells)
           v == WithoutTorn(segments[L])
<1>1. segments' = Put(segments, L, v)  OBVIOUS
<1>2. IsLast(L, segments) /\ L \in DOMAIN segments /\ L + w = Len(history) + 1
  <2>1. LastSegment \in DOMAIN segments /\ \A f \in DOMAIN segments : f <= LastSegment
    BY Zenon, TrimmedLast DEF Inv, LogInv
  <2>2. IsLast(L, segments)  BY Zenon, <2>1 DEF IsLast
  <2> QED  BY Zenon, <2>1, <2>2 DEF RecordsInv, EndsAt
<1>3. /\ L \in Nat \ {0} /\ cells \in Seq(Cell) /\ Numbered(L, cells) /\ segments[L].synced \in Nat
  BY Zenon, <1>2, HistoryFacts
<1>4. v.cells = SubSeq(cells, 1, w) /\ v.synced = Min({segments[L].synced, w})
  BY Zenon DEF WithoutTorn, WholeLength
<1> HIDE DEF cells, L
<1>5. /\ w \in 0..Len(cells) /\ Len(cells) \in Nat
      /\ \A i \in 1..w : cells[i].op # "torn" /\ i \in 1..Len(cells)
  <2>1. w \in 0..Len(cells) /\ Len(cells) \in Nat /\ \A i \in 1..w : cells[i].op # "torn"
    BY Zenon, <1>3, WholeLengthFacts
  <2> HIDE DEF w
  <2> QED  BY <2>1
<1> HIDE DEF w, v
<1>6. Len(v.cells) = w /\ v.cells \in Seq(Cell) /\ \A i \in 1..w : v.cells[i] = cells[i]
  <2>1. /\ SubSeq(cells, 1, w) \in Seq(Cell) /\ Len(SubSeq(cells, 1, w)) = w
        /\ \A i \in 1..w : SubSeq(cells, 1, w)[i] = cells[i]
    BY SMTT(30), <1>3, <1>5, PrefixFacts
  <2> QED  BY Zenon, <1>4, <2>1
<1>7. \A i \in 1..Len(v.cells) : v.cells[i].op # "torn" /\ L + i - 1 <= Len(history)
         /\ v.cells[i] = history[L + i - 1]
  <2> TAKE i \in 1..Len(v.cells)
  <2>1. i \in 1..w /\ v.cells[i] = cells[i] /\ cells[i].op # "torn" /\ i \in 1..Len(cells)
    BY Zenon, <1>5, <1>6
  <2>2. L + i - 1 <= Len(history) /\ cells[i] = history[L + i - 1]
    BY Zenon, <1>2, <2>1 DEF RecordsInv, Holds, cells
  <2> QED  BY Zenon, <2>1, <2>2
<1>8. WholeLength(v.cells) = w
  <2>1. Whole(v.cells)
    <3>1. DOMAIN v.cells = 1..Len(v.cells)  BY SMTT(30), <1>6
    <3> QED  BY Zenon, <3>1, <1>7 DEF Whole
  <2> QED  BY Zenon, <2>1, <1>6 DEF WholeLength
<1>9. Holds(segments', history) /\ EndsAt(segments', Len(history))
  <2>1. L - 1 <= Len(history)  BY SMTT(30), <1>2, <1>3, <1>5, <1>0
  <2>2. \A i \in 1..(L - 1) : history[i] = history[i]  OBVIOUS
  <2>3. Chain(segments) /\ Holds(segments, history)  BY Zenon DEF Inv, LogInv, RecordsInv
  <2>4. L + WholeLength(v.cells) = Len(history) + 1  BY Zenon, <1>2, <1>8
  <2> QED  BY ZenonT(30), <1>0, <1>1, <1>2, <1>7, <2>1, <2>2, <2>3, <2>4, HoldsRewritesLast
<1>10. DOMAIN segments' = DOMAIN segments /\ segments'[L] = v  BY Zenon, <1>1, <1>2 DEF Put
<1>11. RecordsInv'  BY Zenon, <1>0, <1>9, <1>10 DEF RecordsInv
<1>12. promised < L + v.synced
  <2>1. promised < L + segments[L].synced  BY Zenon, <1>2 DEF AnswersInv, SyncedThrough
  <2>2. promised < L + w  BY SMTT(30), <1>0, <1>2
  <2>3. v.synced \in {segments[L].synced, w}
    <3>1. {segments[L].synced, w} \subseteq Nat /\ {segments[L].synced, w} # {}  BY SMTT(30), <1>3, <1>5
    <3> QED  BY ZenonT(30), <3>1, <1>4, MinFacts
  <2> QED  BY Zenon, <2>1, <2>2, <2>3
<1>13. SyncedThrough(segments', promised)
  <2> SUFFICES ASSUME NEW f \in DOMAIN segments', IsLast(f, segments')
               PROVE  promised < f + segments'[f].synced
    BY Zenon DEF SyncedThrough
  <2>1. f <= L /\ L <= f /\ f \in Nat  BY Zenon, <1>2, <1>10, HistoryFacts DEF IsLast
  <2>2. f = L  BY SMTT(30), <2>1, <1>3
  <2> QED  BY Zenon, <2>2, <1>10, <1>12
<1> QED  BY Zenon, <1>0, <1>11, <1>13

(* Open cuts off the torn tail, which is no record.                        *)
LEMMA LogOpened ==
  ASSUME Inv, RecordsInv, AnswersInv, NEW n, NEW c, Open(n, c)
  PROVE  RecordsInv' /\ AnswersInv' /\ seq' = Len(history)
<1>1. /\ status = "down" /\ CanRecover /\ seq' = RecoveredSequence /\ status' = "up"
      /\ UNCHANGED <<snapshots, pending, history, acked, promised>>
  BY Zenon DEF Open, callers
<1>2. RecoveredSequence = Len(history)  BY Zenon, <1>1, RecoversHistory
<1>3. pending = <<>> /\ pending' = pending /\ Len(pending) = 0
  BY Zenon, <1>1 DEF Inv, WriterInv
<1>4. acked <= Len(history) /\ promised <= Len(history) /\ Len(history) \in Nat /\ promised \in Nat
  BY Zenon, HistoryFacts DEF AnswersInv
<1>5. /\ acked' <= seq' /\ seq' + Len(pending') <= Len(history')
      /\ \A i \in 1..Len(pending') : pending'[i] = history'[seq' + i]
  <2>1. Len(history) + 0 <= Len(history) /\ \A i \in 1..0 : FALSE  BY <1>4
  <2> QED  BY Zenon, <1>1, <1>2, <1>3, <1>4, <2>1
<1>6. /\ RecordsInv' /\ acked' <= Len(history') /\ promised' <= Len(history')
      /\ SyncedThrough(segments', promised')
  <2>1. CASE DOMAIN segments = {}
    <3>1. segments' = Put(segments, RecoveredSequence + 1, NewSegment)  BY Zenon, <2>1 DEF Open
    <3> QED  BY Zenon, <2>1, <3>1, <1>1, LogBegun
  <2>2. CASE DOMAIN segments # {}
    <3>1. segments' = Put(segments, LastSegment, WithoutTorn(segments[LastSegment]))  BY Zenon, <2>2 DEF Open
    <3> QED  BY Zenon, <1>1, <1>4, <2>2, <3>1, LogTrimmed
  <2> QED  BY Zenon, <2>1, <2>2
<1>7. AnswersInv'  BY Zenon, <1>5, <1>6 DEF AnswersInv
<1> QED  BY Zenon, <1>1, <1>2, <1>6, <1>7

(* A power loss cuts the last file, and with it the history, no earlier    *)
(* than at the sync that was promised.                                     *)
LEMMA LogLost ==
  ASSUME Inv, RecordsInv, AnswersInv, PowerLoss
  PROVE  /\ RecordsInv' /\ AnswersInv'
         /\ \E n \in 0..Len(history) : history' = SubSeq(history, 1, n)
<1>1. /\ snapshots' \in {snapshots, stable} /\ stable' = snapshots' /\ promised' = promised
      /\ acked' = Min({acked, Len(history')}) /\ status' = "down"
  BY Zenon DEF PowerLoss, ProcessEnds
<1>2. PICK keep \in [Unsynced -> Sequence], torn \in BOOLEAN :
        /\ \A f \in Unsynced : segments[f].synced <= keep[f] /\ keep[f] <= Len(segments[f].cells)
        /\ segments' =
             [f \in DOMAIN segments |->
                IF f \notin Unsynced THEN segments[f]
                ELSE [cells |-> SubSeq(segments[f].cells, 1, keep[f])
                                  \o (IF torn /\ keep[f] < Len(segments[f].cells) THEN <<Torn>> ELSE <<>>),
                      synced |-> segments[f].synced]]
        /\ history' = SubSeq(history, 1, Min({Len(history)} \cup {f + keep[f] - 1 : f \in Unsynced}))
  BY Zenon DEF PowerLoss
<1>3. /\ history \in Seq(Cell) /\ Len(history) \in Nat /\ acked \in Nat /\ promised \in Nat
      /\ \A f \in DOMAIN segments : f \in Nat \ {0} /\ segments[f].cells \in Seq(Cell)
             /\ Len(segments[f].cells) \in Nat /\ segments[f].synced \in Nat
             /\ segments[f].synced <= Len(segments[f].cells) /\ Numbered(f, segments[f].cells)
  BY Zenon, HistoryFacts
<1>4. promised <= Len(history) /\ SyncedThrough(segments, promised)  BY Zenon DEF AnswersInv
<1>5. Chain(segments) /\ Holds(segments, history) /\ EndsAt(segments, Len(history)) /\ Numbers(history)
  BY Zenon DEF Inv, LogInv, RecordsInv
<1>6. \A f \in Unsynced : IsLast(f, segments) /\ f \in DOMAIN segments
  <2> TAKE f \in Unsynced
  <2>1. f \in DOMAIN segments /\ segments[f].synced < Len(segments[f].cells)  BY Zenon DEF Unsynced
  <2>2. ASSUME NEW g \in DOMAIN segments, ~(g <= f)  PROVE FALSE
    <3>1. f < g  BY SMTT(30), <2>1, <2>2, <1>3
    <3>2. segments[f].synced = Len(segments[f].cells)
      BY Zenon, <2>1, <3>1, <1>5 DEF Chain, Linked, Sealed
    <3> QED  BY SMTT(30), <2>1, <3>2, <1>3
  <2> QED  BY Zenon, <2>1, <2>2 DEF IsLast
<1>7. (acked' <= Len(history') /\ status' # "up") \/ ~(Len(history') \in Nat)
  <2> SUFFICES ASSUME Len(history') \in Nat PROVE acked' <= Len(history')  BY Zenon, <1>1
  <2>1. {acked, Len(history')} \subseteq Nat /\ {acked, Len(history')} # {}  BY Zenon, <1>3
  <2> QED  BY Zenon, <2>1, <1>1, MinFacts
<1>8. CASE Unsynced = {}
  <2>1. segments' = [f \in DOMAIN segments |-> segments[f]]
    BY Zenon, <1>2, <1>8
  <2>2. DOMAIN segments' = DOMAIN segments /\ \A f \in DOMAIN segments : segments'[f] = segments[f]
    BY Zenon, <2>1
  <2>3. history' = history
    <3>1. {Len(history)} \cup {f + keep[f] - 1 : f \in Unsynced} = {Len(history)}  BY Zenon, <1>8
    <3>2. {Len(history)} \subseteq Nat /\ {Len(history)} # {}  BY Zenon, <1>3
    <3>3. Min({Len(history)}) = Len(history)
      <4>1. Min({Len(history)}) \in {Len(history)}  BY Zenon, <3>2, MinFacts
      <4> QED  BY Zenon, <4>1
    <3>4. history' = SubSeq(history, 1, Len(history))  BY Zenon, <1>2, <3>1, <3>3
    <3> QED  BY SMTT(30), <3>4, <1>3
  <2>4. Holds(segments', history) /\ EndsAt(segments', Len(history))
    BY ZenonT(30), <2>2, <1>5, SameCells
  <2>5. SyncedThrough(segments', promised)
    <3>1. \A f \in DOMAIN segments : IsLast(f, segments') => IsLast(f, segments)
      BY Zenon, <2>2 DEF IsLast
    <3>2. \A f \in DOMAIN segments : IsLast(f, segments) => promised < f + segments[f].synced
      BY Zenon, <1>4 DEF SyncedThrough
    <3>3. \A f \in DOMAIN segments : IsLast(f, segments') => promised < f + segments'[f].synced
      BY Zenon, <2>2, <3>1, <3>2
    <3> QED  BY Zenon, <3>3, <2>2 DEF SyncedThrough
  <2>6. RecordsInv'
    <3>1. DOMAIN segments' = {} => history' = <<>> /\ DOMAIN snapshots' = {} /\ DOMAIN stable' = {}
      BY ZenonT(30), <2>2, <2>3, <1>1 DEF RecordsInv
    <3> QED  BY ZenonT(30), <2>3, <2>4, <3>1, <1>5 DEF RecordsInv
  <2>7. AnswersInv'  BY ZenonT(30), <2>3, <2>5, <1>1, <1>3, <1>4, <1>7 DEF AnswersInv
  <2>8. Len(history) \in 0..Len(history) /\ history' = SubSeq(history, 1, Len(history))
    BY SMTT(30), <2>3, <1>3
  <2> QED  BY Zenon, <2>6, <2>7, <2>8
<1>9. CASE Unsynced # {}
  <2>1. PICK L \in Unsynced : TRUE  BY Zenon, <1>9
  <2>2. L \in DOMAIN segments /\ IsLast(L, segments)  BY Zenon, <1>6
  <2>3. Unsynced = {L}
    <3>1. \A f \in Unsynced : f <= L /\ L <= f  BY Zenon, <2>2, <1>6 DEF IsLast
    <3>2. \A f \in Unsynced : f = L  BY SMTT(30), <3>1, <2>2, <1>3, <1>6
    <3> QED  BY Zenon, <3>2, <2>1
  <2> DEFINE cells == segments[L].cells
             k == keep[L]
             w == WholeLength(cells)
             cut == IF torn /\ k < Len(cells) THEN <<Torn>> ELSE <<>>
             v == [cells |-> SubSeq(cells, 1, k) \o cut, synced |-> segments[L].synced]
             m == Min({Len(history), L + k - 1})
  <2>4. segments' = Put(segments, L, v)
    <3>1. \A f \in DOMAIN segments : segments'[f] = IF f = L THEN v ELSE segments[f]
      BY Zenon, <2>3, <1>2
    <3>2. segments' = [f \in DOMAIN segments |-> segments'[f]]  BY Zenon, <1>2
    <3>3. DOMAIN segments \cup {L} = DOMAIN segments  BY Zenon, <2>2
    <3> HIDE DEF v
    <3> QED  BY Zenon, <3>1, <3>2, <3>3 DEF Put
  <2>5. history' = SubSeq(history, 1, m)
    <3>1. {Len(history)} \cup {f + keep[f] - 1 : f \in Unsynced} = {Len(history), L + k - 1}
      BY ZenonT(30), <2>3
    <3> QED  BY Zenon, <3>1, <1>2
  <2>6. k \in Nat /\ segments[L].synced <= k /\ k <= Len(cells)
    <3>1. k \in Sequence /\ segments[L].synced <= k /\ k <= Len(cells)  BY ZenonT(30), <2>1, <1>2
    <3> QED  BY SMTT(30), <3>1, NoImageType DEF Sequence
  <2>7. /\ L \in Nat \ {0} /\ cells \in Seq(Cell) /\ Len(cells) \in Nat /\ segments[L].synced \in Nat
        /\ Numbered(L, cells)
    BY Zenon, <2>2, <1>3
  <2>8. L + w = Len(history) + 1  BY Zenon, <2>2, <1>5 DEF EndsAt
  <2>9. \A i \in 1..Len(cells) : cells[i].op # "torn" =>
            L + i - 1 <= Len(history) /\ cells[i] = history[L + i - 1]
    BY Zenon, <2>2, <1>5 DEF Holds
  <2>0. promised < L + segments[L].synced  BY Zenon, <2>2, <1>4 DEF SyncedThrough
  <2>10. v.cells = SubSeq(cells, 1, k) \o cut /\ v.synced = segments[L].synced  BY Zenon
  <2>11. cut \in {<<>>, <<Torn>>} /\ (k = Len(cells) => cut = <<>>)
    <3>1. k = Len(cells) => ~(k < Len(cells))  BY SMTT(30), <2>6, <2>7
    <3> QED  BY Zenon, <3>1
  <2> HIDE DEF cells, k, cut, v
  <2>12. /\ w \in 0..Len(cells) /\ \A i \in 1..w : cells[i].op # "torn"
         /\ \A i \in 1..Len(cells) : cells[i].op # "torn" => i <= w
    BY Zenon, <2>7, WholeLengthFacts
  <2>13. w = Len(cells) \/ w = Len(cells) - 1  BY Zenon DEF WholeLength
  <2> HIDE DEF w
  <2>14. m \in Nat /\ m \in {Len(history), L + k - 1} /\ m <= Len(history) /\ m <= L + k - 1
    <3>1. {Len(history), L + k - 1} \subseteq Nat /\ {Len(history), L + k - 1} # {}
      BY SMTT(30), <1>3, <2>6, <2>7
    <3>2. m \in {Len(history), L + k - 1} /\ m <= Len(history) /\ m <= L + k - 1
      BY Zenon, <3>1, MinFacts
    <3> QED  BY Zenon, <3>1, <3>2
  <2> HIDE DEF m
  <2>15. /\ history' \in Seq(Cell) /\ Len(history') = m /\ m \in 0..Len(history)
         /\ \A i \in 1..m : history'[i] = history[i] /\ i \in 1..Len(history)
    <3>1. m \in 0..Len(history) /\ \A i \in 1..m : i \in 1..Len(history)  BY SMTT(30), <2>14, <1>3
    <3> QED  BY ZenonT(30), <3>1, <2>5, <1>3, PrefixFacts
  <2>16. promised <= m
    <3>1. promised <= L + k - 1  BY SMTT(30), <2>0, <2>6, <2>7, <1>3
    <3> QED  BY ZenonT(30), <3>1, <2>14, <1>4
  <2>17. /\ L + WholeLength(v.cells) = m + 1
         /\ \A i \in 1..Len(v.cells) : v.cells[i].op # "torn" =>
              L + i - 1 <= m /\ v.cells[i] = history[L + i - 1]
    <3>1. CASE k <= w
      <4>1. m = L + k - 1  BY SMTT(30), <3>1, <2>7, <2>8, <2>12, <2>14, <1>3, <2>6
      <4>2. k \in 0..Len(cells) /\ \A i \in 1..k : i \in 1..w /\ i \in 1..Len(cells)
        BY SMTT(30), <3>1, <2>6, <2>7, <2>12
      <4>3. /\ SubSeq(cells, 1, k) \in Seq(Cell) /\ Len(SubSeq(cells, 1, k)) = k
            /\ \A i \in 1..k : SubSeq(cells, 1, k)[i] = cells[i]
        BY Zenon, <4>2, <2>7, PrefixFacts
      <4>4. \A i \in 1..k : SubSeq(cells, 1, k)[i].op # "torn"  BY Zenon, <4>2, <4>3, <2>12
      <4>5. /\ WholeLength(v.cells) = k
            /\ \A i \in 1..Len(v.cells) : v.cells[i].op # "torn" => i \in 1..k
            /\ \A i \in 1..k : v.cells[i] = SubSeq(cells, 1, k)[i]
        <5> DEFINE x == SubSeq(cells, 1, k)
        <5>1. x \in Seq(Cell) /\ \A i \in 1..Len(x) : x[i].op # "torn"  BY ZenonT(30), <4>3, <4>4
        <5>2. v.cells = x \o cut /\ Len(x) = k  BY Zenon, <4>3, <2>10
        <5> HIDE DEF x
        <5>3. /\ WholeLength(x \o cut) = Len(x)
              /\ \A i \in 1..Len(x \o cut) : (x \o cut)[i].op # "torn" => i \in 1..Len(x)
              /\ \A i \in 1..Len(x) : (x \o cut)[i] = x[i]
          BY ZenonT(30), <5>1, <2>11, TailFacts
        <5> QED  BY Zenon, <5>2, <5>3 DEF x
      <4>6. \A i \in 1..k : L + i - 1 <= m  BY SMTT(30), <4>1, <2>6, <2>7
      <4>7. L + k = m + 1  BY SMTT(30), <4>1, <2>6, <2>7
      <4>8. \A i \in 1..k : v.cells[i] = history[L + i - 1]
        BY ZenonT(30), <4>2, <4>3, <4>5, <2>9, <2>12
      <4> QED  BY ZenonT(30), <4>5, <4>6, <4>7, <4>8
    <3>2. CASE ~(k <= w)
      <4>1. k = Len(cells) /\ m = Len(history)  BY SMTT(30), <3>2, <2>6, <2>7, <2>8, <2>12, <2>13, <2>14, <1>3
      <4>2. v.cells = cells
        <5>1. cut = <<>>  BY Zenon, <4>1, <2>11
        <5> QED  BY SMTT(30), <4>1, <5>1, <2>7, <2>10
      <4> QED  BY ZenonT(30), <4>1, <4>2, <2>8, <2>9 DEF w
    <3> QED  BY Zenon, <3>1, <3>2
  <2>18. Holds(segments', history') /\ EndsAt(segments', Len(history'))
    <3>1. L - 1 <= m /\ \A i \in 1..(L - 1) : i \in 1..m
      BY SMTT(30), <2>6, <2>7, <2>8, <2>12, <2>14, <1>3
    <3>2. \A i \in 1..(L - 1) : history'[i] = history[i]  BY Zenon, <3>1, <2>15
    <3>3. \A i \in 1..Len(v.cells) : L + i - 1 <= m => L + i - 1 \in 1..m
      BY SMTT(30), <2>7, <2>14
    <3>4. \A i \in 1..Len(v.cells) : v.cells[i].op # "torn" =>
            L + i - 1 <= Len(history') /\ v.cells[i] = history'[L + i - 1]
      BY Zenon, <3>3, <2>15, <2>17
    <3>5. L - 1 <= Len(history') /\ L + WholeLength(v.cells) = Len(history') + 1 /\ Len(history') \in Nat
      BY ZenonT(30), <3>1, <2>14, <2>15, <2>17
    <3> QED  BY ZenonT(30), <2>2, <2>4, <3>2, <3>4, <3>5, <1>5, HoldsRewritesLast
  <2>19. DOMAIN segments' = DOMAIN segments /\ segments'[L] = v  BY Zenon, <2>2, <2>4 DEF Put
  <2>20. SyncedThrough(segments', promised')
    <3> SUFFICES ASSUME NEW f \in DOMAIN segments', IsLast(f, segments')
                 PROVE  promised' < f + segments'[f].synced
      BY Zenon DEF SyncedThrough
    <3>1. f <= L /\ L <= f /\ f \in Nat  BY ZenonT(30), <2>2, <2>19, <1>3 DEF IsLast
    <3>2. f = L  BY SMTT(30), <3>1, <2>7
    <3> QED  BY ZenonT(30), <3>2, <2>0, <2>10, <2>19, <1>1
  <2>21. Numbers(history')  BY Zenon, <2>15, <1>5 DEF Numbers
  <2>22. RecordsInv'  BY ZenonT(30), <2>2, <2>18, <2>19, <2>21 DEF RecordsInv
  <2>23. AnswersInv'  BY ZenonT(30), <2>14, <2>15, <2>16, <2>20, <1>1, <1>7 DEF AnswersInv
  <2> QED  BY ZenonT(30), <2>5, <2>15, <2>22, <2>23
<1> QED  BY Zenon, <1>8, <1>9

(* rollSegment, also when it fails at any point.                           *)
LEMMA RollsRecords ==
  ASSUME Inv, RecordsInv, AnswersInv, status = "up", ~latched, pending = <<>>, seq # MaxSequence,
         rollSegment \/ rollSegmentFails,
         UNCHANGED <<snapshots, history, acked, promised, status, seq, pending>>
  PROVE  RecordsInv' /\ AnswersInv'
<1>1. DOMAIN segments # {}  BY Zenon, UpFacts
<1>2. CASE segments' = segments  BY Zenon, <1>1, <1>2, LogKept
<1>3. CASE segments' = Synced(current)
  <2>1. promised' = promised  OBVIOUS
  <2> QED  BY Zenon, <1>3, <2>1, LogSynced
<1>4. CASE segments' = Put(Synced(current), seq + 1, NewSegment)  BY Zenon, <1>4, LogRolled
<1> QED  BY Zenon, <1>2, <1>3, <1>4 DEF rollSegment, rollSegmentFails

(* Every step keeps the files and the history together.                    *)
LEMMA RecordsNext ==
  ASSUME Inv, RecordsInv, AnswersInv, Next
  PROVE  RecordsInv' /\ AnswersInv'
<1>1. ASSUME NEW option \in Options, Open(option[1], option[2])  PROVE RecordsInv' /\ AnswersInv'
  BY Zenon, <1>1, LogOpened
<1>2. CASE OpenFailsAfterInstall
  <2>1. /\ CanRecover /\ DOMAIN segments = {} /\ status = "down"
        /\ segments' = Put(segments, RecoveredSequence + 1, NewSegment)
        /\ UNCHANGED <<status, history, acked, promised>>
    BY Zenon, <1>2 DEF OpenFailsAfterInstall, callers
  <2>2. /\ RecordsInv' /\ acked' <= Len(history') /\ promised' <= Len(history')
        /\ SyncedThrough(segments', promised')
    BY Zenon, <2>1, LogBegun
  <2> QED  BY Zenon, <2>1, <2>2 DEF AnswersInv
<1>0. CASE OpenRefused
  <2>1. /\ status' # "up" /\ UNCHANGED <<snapshots, stable, history, acked, promised>>
    BY Zenon, <1>0 DEF OpenRefused, callers
  <2>2. CASE segments' = segments  BY Zenon, <2>1, <2>2, LogKept
  <2>3. CASE /\ DOMAIN segments # {}
             /\ segments' = Put(segments, LastSegment, WithoutTorn(segments[LastSegment]))
    <3>1. RecordsInv' /\ SyncedThrough(segments', promised')  BY Zenon, <2>1, <2>3, LogTrimmed
    <3>2. AnswersInv'  BY Zenon, <2>1, <3>1 DEF AnswersInv
    <3> QED  BY Zenon, <3>1, <3>2
  <2> QED  BY Zenon, <1>0, <2>2, <2>3, RefusedLog
<1>3. CASE DrainWrites \/ FsyncFails \/ SequenceExhausted \/ NoSnapshotDue
           \/ StartMemorySnapshot \/ FinalSnapshot \/ CloseDone \/ Tick
  <2>1. UNCHANGED <<segments, snapshots, stable, history, acked, promised>>
    BY Zenon, <1>3 DEF DrainWrites, FsyncFails, SequenceExhausted, NoSnapshotDue,
      StartMemorySnapshot, FinalSnapshot, CloseDone, Tick, disk, callers
  <2>2. UNCHANGED <<status, seq, pending>> \/ status' # "up"
    BY Zenon, <1>3 DEF DrainWrites, FsyncFails, SequenceExhausted, NoSnapshotDue,
      StartMemorySnapshot, FinalSnapshot, CloseDone, ProcessEnds, Tick, writer
  <2> QED  BY ZenonT(30), <2>1, <2>2, LogKept
<1>4. CASE Fsync \/ CloseRequest
  <2>1. /\ status = "up" /\ pc = "idle"
        /\ UNCHANGED <<history, acked, status, seq, pending, snapshots, stable>>
        /\ \/ /\ segments' = Synced(current)
              /\ promised' = promised \/ (promised' = acked /\ ~latched)
           \/ UNCHANGED <<segments, promised>>
    BY Zenon, <1>4 DEF Fsync, CloseRequest, writer
  <2>2. pending = <<>>  BY Zenon, <2>1 DEF Inv, WriterInv
  <2>3. CASE UNCHANGED <<segments, promised>>  BY ZenonT(30), <2>1, <2>3, LogKept
  <2>4. CASE segments' = Synced(current) /\ (promised' = promised \/ (promised' = acked /\ ~latched))
    BY ZenonT(30), <2>1, <2>2, <2>4, LogSynced
  <2> QED  BY Zenon, <2>1, <2>3, <2>4
<1>5. CASE RollForWrite \/ RollForWriteFails
  <2>1. /\ pc = "write" /\ seq # MaxSequence /\ (rollSegment \/ rollSegmentFails)
        /\ UNCHANGED <<snapshots, history, acked, promised, status, seq, pending>>
    BY Zenon, <1>5 DEF RollForWrite, RollForWriteFails, callers
  <2>2. status = "up" /\ ~latched /\ pending = <<>>  BY Zenon, <2>1, WritingFacts
  <2> QED  BY ZenonT(30), <2>1, <2>2, RollsRecords
<1>6. CASE WriteRecords \/ WriteFails \/ Crash
  <2>1. CASE Crash /\ UNCHANGED <<segments, history>>
    <3>1. UNCHANGED <<segments, snapshots, stable, history, acked, promised>> /\ status' # "up"
      BY Zenon, <2>1 DEF Crash, ProcessEnds
    <3> QED  BY Zenon, <3>1, LogKept
  <2>2. CASE WriteRecords \/ WriteFails \/ (Crash /\ ~UNCHANGED <<segments, history>>)
    BY Zenon, <2>2, WritesRecords, LogAppended
  <2> QED  BY ZenonT(30), <1>6, <2>1, <2>2
<1>7. CASE applySet \/ applyDelete
  <2>1. pc = "apply" /\ AfterApply  BY Zenon, <1>7 DEF applySet, applyDelete
  <2> QED  BY Zenon, <2>1, LogApplied
<1>8. CASE StartDurableSnapshot \/ DurableSnapshotAborts
  <2>1. /\ pc = "check" /\ ~latched
        /\ UNCHANGED <<snapshots, history, acked, promised, status, seq, pending>>
        /\ \/ seq # MaxSequence /\ (rollSegment \/ rollSegmentFails)
           \/ UNCHANGED <<segments, stable>>
    BY Zenon, <1>8 DEF StartDurableSnapshot, DurableSnapshotAborts, SnapshotDue, callers
  <2>2. status = "up" /\ pending = <<>>  BY Zenon, <2>1 DEF Inv, WriterInv
  <2>3. CASE UNCHANGED <<segments, stable>>  BY Zenon, <2>1, <2>3, LogKept
  <2>4. CASE seq # MaxSequence /\ (rollSegment \/ rollSegmentFails)
    BY Zenon, <2>1, <2>2, <2>4, RollsRecords
  <2> QED  BY Zenon, <2>1, <2>3, <2>4
<1>9. CASE CaptureShard \/ RebuildImage \/ SnapshotFails \/ DiscardSnapshot \/ RenameSnapshot
           \/ SyncDirectory \/ removeOtherSnapshots \/ SnapshotInstalled
  <2>1. /\ UNCHANGED <<segments, history, acked, promised>> /\ UNCHANGED <<status, seq, pending>>
        /\ snapPC # "idle"
    BY Zenon, <1>9 DEF CaptureShard, RebuildImage, SnapshotFails, DiscardSnapshot, RenameSnapshot,
      SyncDirectory, removeOtherSnapshots, SnapshotInstalled, SnapshotOnly, disk, writer, callers
  <2>2. DOMAIN segments # {}  BY Zenon, <2>1, UpFacts
  <2> QED  BY Zenon, <2>1, <2>2, LogKept
<1>10. CASE deleteSegmentsBefore  BY Zenon, <1>10, LogPruned
<1>11. CASE PowerLoss  BY Zenon, <1>11, LogLost
<1>12. ASSUME NEW k \in Keys, Reclaim(k)  PROVE RecordsInv' /\ AnswersInv'
  <2>1. UNCHANGED <<segments, snapshots, stable, history, acked, promised, status, seq, pending>>
    BY Zenon, <1>12 DEF Reclaim, disk, writer, callers
  <2> QED  BY Zenon, <2>1, LogKept
<1> QED  BY ZenonT(30), <1>0, <1>1, <1>2, <1>3, <1>4, <1>5, <1>6, <1>7, <1>8, <1>9, <1>10, <1>11, <1>12
         DEF Next, WriterStep, SnapshotStep

-----------------------------------------------------------------------------
(* Names and covers stay in order.                                         *)

(* What is within n is within more.                                        *)
LEMMA WithinMore ==
  ASSUME NEW S, \A name \in DOMAIN S : Shaped(S[name]), NEW m \in Nat, NEW n \in Nat, m <= n, Within(S, m)
  PROVE  Within(S, n)
<1> SUFFICES ASSUME NEW a \in DOMAIN S, NEW j \in DOMAIN S[a].cover PROVE S[a].cover[j] <= n
  BY Zenon DEF Within
<1>1. S[a].cover[j] \in Sequence /\ S[a].cover[j] <= m  BY Zenon, ShapeFacts DEF Within
<1> QED  BY SMTT(30), <1>1, NoImageType DEF Sequence

(* The snapshots of a running store cover only what the writer applied.    *)
LEMMA UpWithin ==
  ASSUME Inv, NamesInv, status = "up", NEW n \in Nat, seq <= n
  PROVE  Within(snapshots, n) /\ Within(stable, n)
<1>1. Within(snapshots, seq) /\ Within(stable, seq) /\ seq \in Nat  BY Zenon, HistoryFacts DEF NamesInv
<1> QED  BY Zenon, <1>1, DirectoryShaped, WithinMore

(* A step that installs and removes no snapshot and loses no record.       *)
LEMMA NamesKept ==
  ASSUME Inv, AnswersInv, NamesInv, snapshots' = snapshots, stable' \in {stable, snapshots},
         Len(history') \in Nat, Len(history) <= Len(history'),
         status = "up" \/ Len(history') = Len(history),
         status' = "up" => Within(snapshots, seq') /\ Within(stable, seq'),
         DOMAIN segments \subseteq DOMAIN segments',
         DOMAIN segments # {} \/ DOMAIN segments' \subseteq {1}
  PROVE  NamesInv'
<1>1. Len(history) \in Nat /\ seq \in Nat  BY Zenon, HistoryFacts
<1>2. status = "up" => seq <= Len(history')
  <2>1. status = "up" => seq + Len(pending) <= Len(history) /\ Len(pending) \in Nat
    BY Zenon, HistoryFacts DEF AnswersInv
  <2> QED  BY SMTT(30), <1>1, <2>1
<1>3. Ordered(snapshots') /\ Ordered(stable')  BY Zenon DEF NamesInv
<1>4. Within(snapshots', Len(history')) => Within(stable', Len(history'))
  <2>1. CASE status = "up"  BY ZenonT(30), <2>1, <1>2, UpWithin
  <2>2. CASE Len(history') = Len(history)
    <3>1. Within(snapshots, Len(history)) => Within(stable, Len(history))  BY Zenon DEF NamesInv
    <3> QED  BY Zenon, <2>2, <3>1
  <2> QED  BY ZenonT(30), <2>1, <2>2
<1>5. "power" \notin Faults => Within(snapshots', Len(history'))
  <2>1. "power" \notin Faults => Within(snapshots, Len(history))  BY Zenon DEF NamesInv
  <2> QED  BY ZenonT(30), <2>1, <1>1, DirectoryShaped, WithinMore
<1>6. status' = "up" => Within(snapshots', seq') /\ Within(stable', seq')  BY Zenon
<1>7. PrunedCovered'
  <2>1. CASE DOMAIN segments = {}
    <3>1. DOMAIN segments' \subseteq {1}  BY Zenon, <2>1
    <3> QED  BY Zenon, <3>1 DEF PrunedCovered
  <2>2. CASE 1 \in DOMAIN segments  BY Zenon, <2>2 DEF PrunedCovered
  <2>3. CASE \E name \in DOMAIN snapshots \cap DOMAIN stable : \E f \in DOMAIN segments : f <= name
    BY Zenon, <2>3 DEF PrunedCovered
  <2> QED  BY ZenonT(30), <2>1, <2>2, <2>3 DEF NamesInv, PrunedCovered
<1> QED  BY ZenonT(30), <1>3, <1>4, <1>5, <1>6, <1>7 DEF NamesInv

(* The same for a step of a running process, also its last one, or of none.*)
LEMMA NamesKeptRunning ==
  ASSUME Inv, AnswersInv, NamesInv, snapshots' = snapshots,
         \/ status = "up" /\ stable' \in {stable, snapshots} /\ DOMAIN segments \subseteq DOMAIN segments'
         \/ UNCHANGED <<segments, stable>>,
         Len(history') \in Nat, Len(history) <= Len(history'),
         status = "up" \/ Len(history') = Len(history),
         status' = "up" => status = "up" /\ seq <= seq' /\ seq' \in Nat
  PROVE  NamesInv'
<1>1. status' = "up" => Within(snapshots, seq') /\ Within(stable, seq')  BY Zenon, UpWithin
<1>2. status = "up" => DOMAIN segments # {}  BY Zenon, UpFacts
<1>3. DOMAIN segments \subseteq DOMAIN segments'  BY Zenon
<1>4. DOMAIN segments # {} \/ DOMAIN segments' \subseteq {1}  BY Zenon, <1>2
<1>5. stable' \in {stable, snapshots}  BY Zenon
<1> QED  BY ZenonT(30), <1>1, <1>3, <1>4, <1>5, NamesKept

(* A step that neither begins, advances nor installs a snapshot.           *)
LEMMA CoversKept ==
  ASSUME CoversInv,
         UNCHANGED <<snapshots, snapPC, snapCover, snapNext, shards>> \/ snapPC' = "idle"
  PROVE  CoversInv'
<1>1. CASE snapPC' = "idle"  BY Zenon, <1>1 DEF CoversInv
<1>2. CASE UNCHANGED <<snapshots, snapPC, snapCover, snapNext, shards>>
  BY Zenon, <1>2 DEF CoversInv, SnapName
<1> QED  BY Zenon, <1>1, <1>2

(* A snapshot begins with no shard captured, or at log.seq.                *)
LEMMA CoversBegun ==
  ASSUME Inv, NamesInv, status = "up", BeginCapture \/ BeginRebuild, UNCHANGED <<snapshots, shards>>
  PROVE  CoversInv'
<1>1. CASE BeginCapture
  <2>1. snapPC' = "capture" /\ snapNext' = 0  BY Zenon, <1>1 DEF BeginCapture
  <2>2. \A j \in 0..(shards' - 1) : ~(j < 0)  OBVIOUS
  <2> QED  BY Zenon, <2>1, <2>2 DEF CoversInv
<1>2. CASE BeginRebuild
  <2>1. snapPC' = "rebuild" /\ snapCover' = [i \in 0..(shards - 1) |-> seq]  BY Zenon, <1>2 DEF BeginRebuild
  <2>2. Within(snapshots, seq)  BY Zenon DEF NamesInv
  <2>3. \A j \in 0..(shards - 1) : snapCover'[j] = seq  BY ZenonT(30), <2>1
  <2>4. \A name \in DOMAIN snapshots : \A i \in DOMAIN snapshots[name].cover, j \in 0..(shards - 1) :
          snapshots[name].cover[i] <= snapCover'[j]
    BY ZenonT(30), <2>2, <2>3 DEF Within
  <2> QED  BY Zenon, <2>1, <2>4 DEF CoversInv
<1> QED  BY Zenon, <1>1, <1>2

(* A shard is captured at the published sequence, which every installed    *)
(* snapshot is within.                                                     *)
LEMMA CoversCaptured ==
  ASSUME Inv, NamesInv, CoversInv, CaptureShard
  PROVE  CoversInv'
<1>1. /\ snapPC = "capture" /\ snapCover' = [snapCover EXCEPT ![snapNext] = logSequence]
      /\ snapNext' = snapNext + 1 /\ snapPC' = (IF snapNext + 1 = shards THEN "ready" ELSE "capture")
      /\ UNCHANGED <<snapshots, shards>>
  BY Zenon DEF CaptureShard, SnapshotOnly, disk, config
<1>2. /\ status = "up" /\ logSequence = seq /\ Within(snapshots, seq)
  BY ZenonT(30), <1>1, UpFacts DEF Inv, WriterInv, NamesInv
<1>3. snapNext \in Nat /\ shards \in Nat /\ snapCover \in [0..(shards - 1) -> Sequence]
  BY Zenon, <1>1 DEF Inv, TypeOK, ProcessTypeOK, SnapshotTypeOK
<1>4. \A j \in 0..(shards - 1) : snapCover'[j] = IF j = snapNext THEN seq ELSE snapCover[j]
  BY ZenonT(30), <1>1, <1>2, <1>3
<1>5. \A j \in 0..(shards - 1) : (snapPC' = "capture" => j < snapNext + 1) => j = snapNext \/ j < snapNext
  <2>1. CASE snapNext + 1 = shards  BY SMTT(30), <2>1, <1>3
  <2>2. CASE snapNext + 1 # shards
    <3>1. snapPC' = "capture"  BY Zenon, <1>1, <2>2
    <3> QED  BY SMTT(30), <3>1, <1>3
  <2> QED  BY ZenonT(30), <2>1, <2>2
<1>6. ASSUME NEW name \in DOMAIN snapshots, NEW i \in DOMAIN snapshots[name].cover,
             NEW j \in 0..(shards - 1), snapPC' = "capture" => j < snapNext + 1
      PROVE  snapshots[name].cover[i] <= snapCover'[j]
  <2>1. CASE j = snapNext  BY ZenonT(30), <2>1, <1>2, <1>4 DEF Within
  <2>2. CASE j # snapNext
    <3>1. j < snapNext  BY ZenonT(30), <2>2, <1>5, <1>6
    <3>2. snapshots[name].cover[i] <= snapCover[j]  BY Zenon, <3>1, <1>1 DEF CoversInv
    <3> QED  BY ZenonT(30), <2>2, <3>2, <1>4
  <2> QED  BY Zenon, <2>1, <2>2
<1>7. snapPC' \in {"capture", "ready"}  BY Zenon, <1>1
<1> QED  BY ZenonT(30), <1>1, <1>6, <1>7 DEF CoversInv

(* The rename puts the snapshot after all the others.                      *)
LEMMA NamesInstalled ==
  ASSUME Inv, AnswersInv, NamesInv, CoversInv, RenameSnapshot
  PROVE  NamesInv' /\ CoversInv'
<1> DEFINE new == [shards |-> shards, cover |-> snapCover, image |-> snapImage]
<1>1. /\ snapPC = "ready" /\ snapPC' = "renamed" /\ snapshots' = Put(snapshots, SnapName, new)
      /\ UNCHANGED <<segments, stable, snapCover, status, shards, seq, history>>
  BY Zenon DEF RenameSnapshot, SnapshotOnly, config, writer, callers
<1>2. /\ DOMAIN snapshots' = DOMAIN snapshots \cup {SnapName} /\ snapshots'[SnapName] = new
      /\ \A y \in DOMAIN snapshots : y # SnapName => snapshots'[y] = snapshots[y]
  BY Zenon, <1>1 DEF Put
<1>3. new.cover = snapCover /\ Lowest(new) = SnapName  BY Zenon DEF Lowest, SnapName
<1>4. /\ status = "up" /\ shards \in Nat \ {0} /\ snapCover \in [0..(shards - 1) -> Sequence]
  BY ZenonT(30), <1>1, UpFacts DEF Inv, TypeOK, ProcessTypeOK, SnapshotTypeOK
<1>5. PICK j0 \in 0..(shards - 1) : SnapName = snapCover[j0]  BY Zenon, <1>4, CoverFacts DEF SnapName
<1>6. \A a \in DOMAIN snapshots : \A i \in DOMAIN snapshots[a].cover : snapshots[a].cover[i] <= SnapName
  BY Zenon, <1>1, <1>5 DEF CoversInv
<1>7. \A a \in DOMAIN snapshots : a <= SnapName
  <2> TAKE a \in DOMAIN snapshots
  <2>1. PICK i \in DOMAIN snapshots[a].cover : Lowest(snapshots[a]) = snapshots[a].cover[i]
    BY Zenon, DirectoryShaped, ShapeFacts
  <2>2. Lowest(snapshots[a]) = a  BY Zenon DEF NamesInv, Ordered
  <2> QED  BY ZenonT(30), <2>1, <2>2, <1>6
<1>8. SnapName \in Nat /\ \A a \in DOMAIN snapshots : a \in Nat
  <2>1. SnapName \in Sequence  BY Zenon, <1>1, SnapNameFacts
  <2>2. Sequence \subseteq Nat  BY SMTT(30), NoImageType DEF Sequence
  <2> QED  BY ZenonT(30), <2>1, <2>2, DirectoryShaped
<1>9. \A a, b \in DOMAIN snapshots' : a < b => a \in DOMAIN snapshots /\ a # SnapName
  <2>1. \A b \in DOMAIN snapshots' : b <= SnapName /\ b \in Nat  BY SMTT(30), <1>2, <1>7, <1>8
  <2>2. \A a, b \in DOMAIN snapshots' : a < b => a # SnapName  BY SMTT(30), <2>1, <1>8
  <2> QED  BY ZenonT(30), <2>2, <1>2
<1> HIDE DEF new
<1>10. Ordered(snapshots')
  <2>1. \A a \in DOMAIN snapshots' : Lowest(snapshots'[a]) = a
    BY Zenon, <1>2, <1>3 DEF NamesInv, Ordered
  <2>2. ASSUME NEW a \in DOMAIN snapshots', NEW b \in DOMAIN snapshots', a < b,
               NEW j \in DOMAIN snapshots'[a].cover
        PROVE  snapshots'[a].cover[j] <= b
    <3>1. a \in DOMAIN snapshots /\ snapshots'[a] = snapshots[a]  BY Zenon, <2>2, <1>2, <1>9
    <3>2. CASE b = SnapName  BY ZenonT(30), <3>1, <3>2, <2>2, <1>6
    <3>3. CASE b # SnapName
      <4>1. b \in DOMAIN snapshots  BY ZenonT(30), <3>3, <1>2
      <4> QED  BY ZenonT(30), <4>1, <3>1, <2>2 DEF NamesInv, Ordered
    <3> QED  BY Zenon, <3>2, <3>3
  <2> QED  BY Zenon, <2>1, <2>2 DEF Ordered
<1>11. Within(snapshots', seq)
  <2> SUFFICES ASSUME NEW a \in DOMAIN snapshots', NEW j \in DOMAIN snapshots'[a].cover
               PROVE  snapshots'[a].cover[j] <= seq
    BY Zenon DEF Within
  <2>1. CASE a = SnapName
    <3>1. snapshots'[a].cover = snapCover  BY Zenon, <2>1, <1>2, <1>3
    <3>2. \A i \in 0..(shards - 1) : snapCover[i] <= seq  BY Zenon, <1>1 DEF Inv, SnapInv
    <3>3. j \in 0..(shards - 1)  BY ZenonT(30), <3>1, <1>4
    <3> QED  BY ZenonT(30), <3>1, <3>2, <3>3
  <2>2. CASE a # SnapName
    <3>1. a \in DOMAIN snapshots /\ snapshots'[a] = snapshots[a]  BY ZenonT(30), <2>2, <1>2
    <3> QED  BY Zenon, <3>1, <1>4 DEF NamesInv, Within
  <2> QED  BY Zenon, <2>1, <2>2
<1>12. seq \in Nat /\ Len(history) \in Nat /\ seq <= Len(history)
  <2>1. seq \in Nat /\ Len(history) \in Nat /\ Len(pending) \in Nat /\ seq + Len(pending) <= Len(history)
    BY Zenon, <1>4, HistoryFacts DEF AnswersInv
  <2> QED  BY SMTT(30), <2>1
<1>13. Within(stable, seq) /\ Within(stable, Len(history))  BY ZenonT(30), <1>4, <1>12, UpWithin DEF NamesInv
<1>14. Within(snapshots', Len(history))
  <2> SUFFICES ASSUME NEW a \in DOMAIN snapshots', NEW j \in DOMAIN snapshots'[a].cover
               PROVE  snapshots'[a].cover[j] <= Len(history)
    BY Zenon DEF Within
  <2>1. snapshots'[a].cover[j] <= seq  BY Zenon, <1>11 DEF Within
  <2>2. snapshots'[a].cover[j] \in Sequence
    <3>1. CASE a = SnapName
      <4>1. snapshots'[a].cover = snapCover  BY Zenon, <3>1, <1>2, <1>3
      <4> QED  BY ZenonT(30), <4>1, <1>4
    <3>2. CASE a # SnapName
      <4>1. a \in DOMAIN snapshots /\ snapshots'[a] = snapshots[a]  BY Zenon, <3>2, <1>2
      <4> QED  BY ZenonT(30), <4>1, DirectoryShaped, ShapeFacts
    <3> QED  BY ZenonT(30), <3>1, <3>2
  <2> QED  BY SMTT(30), <2>1, <2>2, <1>12, NoImageType DEF Sequence
<1>15. PrunedCovered'
  <2>1. DOMAIN snapshots \subseteq DOMAIN snapshots' /\ stable' = stable /\ segments' = segments
    BY ZenonT(30), <1>1, <1>2
  <2> QED  BY Zenon, <2>1 DEF NamesInv, PrunedCovered
<1>16. NamesInv'  BY ZenonT(30), <1>1, <1>10, <1>11, <1>13, <1>14, <1>15 DEF NamesInv
<1>17. CoversInv'
  <2>1. SnapName' = SnapName  BY ZenonT(30), <1>1 DEF SnapName
  <2>2. SnapName <= SnapName  BY SMTT(30), <1>8
  <2> QED  BY ZenonT(30), <2>1, <2>2, <1>1, <1>2, <1>7 DEF CoversInv
<1> QED  BY ZenonT(30), <1>16, <1>17

(* Removing the older snapshots leaves the one just installed.             *)
LEMMA NamesRemoved ==
  ASSUME Inv, AnswersInv, NamesInv, CoversInv, removeOtherSnapshots
  PROVE  NamesInv' /\ CoversInv'
<1>1. /\ snapPC = "remove" /\ snapPC' \in {"remove", "prune"}
      /\ UNCHANGED <<segments, stable, snapCover, status, shards, seq, history>>
  BY Zenon DEF removeOtherSnapshots, SnapshotOnly, config, writer, callers
<1>2. /\ DOMAIN snapshots' \subseteq DOMAIN snapshots
      /\ \A a \in DOMAIN snapshots' : snapshots'[a] = snapshots[a]
      /\ SnapName \in DOMAIN snapshots => SnapName \in DOMAIN snapshots'
  <2> DEFINE others == DOMAIN snapshots \ {SnapName}
  <2>1. CASE others = {}
    <3>1. snapshots' = snapshots  BY Zenon, <2>1 DEF removeOtherSnapshots
    <3> QED  BY Zenon, <3>1
  <2>2. CASE others # {}
    <3>1. snapshots' = Restrict(snapshots, DOMAIN snapshots \ {Min(others)})
      BY Zenon, <2>2 DEF removeOtherSnapshots
    <3>2. others \subseteq Nat  BY Zenon, DirectoryShaped
    <3>3. Min(others) \in others  BY Zenon, <2>2, <3>2, MinFacts
    <3>4. Min(others) # SnapName  BY Zenon, <3>3
    <3> HIDE DEF others
    <3>5. DOMAIN snapshots' = DOMAIN snapshots \ {Min(others)}
          /\ \A a \in DOMAIN snapshots \ {Min(others)} : snapshots'[a] = snapshots[a]
      BY Zenon, <3>1 DEF Restrict
    <3> QED  BY Zenon, <3>4, <3>5
  <2> QED  BY Zenon, <2>1, <2>2
<1>3. /\ status = "up" /\ SnapName \in DOMAIN snapshots' /\ SnapName \in DOMAIN stable
      /\ \A a \in DOMAIN snapshots : a <= SnapName
  BY ZenonT(30), <1>1, <1>2, UpFacts DEF Inv, SnapInv, CoversInv
<1>4. \A n : Within(snapshots, n) => Within(snapshots', n)  BY Zenon, <1>2 DEF Within
<1>5. Ordered(snapshots') /\ Ordered(stable')  BY Zenon, <1>1, <1>2 DEF NamesInv, Ordered
<1>6. Within(snapshots', seq) /\ Within(stable, seq)  BY Zenon, <1>3, <1>4 DEF NamesInv
<1>7. Within(stable, Len(history))
  <2>1. seq \in Nat /\ Len(history) \in Nat /\ Len(pending) \in Nat /\ seq + Len(pending) <= Len(history)
    BY Zenon, <1>3, HistoryFacts DEF AnswersInv
  <2>2. seq <= Len(history)  BY <2>1
  <2> QED  BY ZenonT(30), <1>3, <2>1, <2>2, UpWithin
<1>8. "power" \notin Faults => Within(snapshots', Len(history))  BY Zenon, <1>4 DEF NamesInv
<1>9. PrunedCovered'
  <2>1. CASE DOMAIN segments = {} \/ 1 \in DOMAIN segments  BY Zenon, <1>1, <2>1 DEF PrunedCovered
  <2>2. ASSUME NEW name \in DOMAIN snapshots \cap DOMAIN stable, NEW f \in DOMAIN segments, f <= name
        PROVE  PrunedCovered'
    <3>1. name <= SnapName /\ name \in Nat /\ SnapName \in Nat /\ f \in Nat
      BY ZenonT(30), <1>2, <1>3, DirectoryShaped, HistoryFacts
    <3>2. f <= SnapName  BY SMTT(30), <2>2, <3>1
    <3> QED  BY ZenonT(30), <1>1, <1>3, <3>2 DEF PrunedCovered
  <2> QED  BY Zenon, <2>1, <2>2 DEF NamesInv, PrunedCovered
<1>10. NamesInv'  BY ZenonT(30), <1>1, <1>5, <1>6, <1>7, <1>8, <1>9 DEF NamesInv
<1>11. CoversInv'
  <2>1. SnapName' = SnapName  BY Zenon, <1>1 DEF SnapName
  <2> QED  BY ZenonT(30), <2>1, <1>1, <1>2, <1>3 DEF CoversInv
<1> QED  BY ZenonT(30), <1>10, <1>11

(* Pruning stops before the last segment that the installed snapshot needs.*)
LEMMA NamesPruned ==
  ASSUME Inv, NamesInv, CoversInv, deleteSegmentsBefore
  PROVE  NamesInv' /\ CoversInv'
<1> DEFINE m == Min(Superseded(SnapName))
<1>1. /\ snapPC = "prune" /\ Superseded(SnapName) # {}
      /\ segments' = Restrict(segments, DOMAIN segments \ {m})
      /\ UNCHANGED <<snapshots, stable, status, shards, seq, history, snapPC, snapCover, snapNext>>
  BY Zenon DEF deleteSegmentsBefore, SnapshotOnly, config, writer, callers, snap
<1>2. PICK g \in DOMAIN segments : m < g /\ g <= SnapName  BY Zenon, <1>1, FirstSuperseded
<1>3. m \in DOMAIN segments  BY ZenonT(30), <1>1, FirstSuperseded
<1> HIDE DEF m
<1>4. g # m  BY SMTT(30), <1>2, <1>3, HistoryFacts
<1>5. g \in DOMAIN segments'  BY Zenon, <1>1, <1>4 DEF Restrict
<1>6. SnapName \in DOMAIN snapshots \cap DOMAIN stable  BY Zenon, <1>1 DEF Inv, SnapInv
<1>7. PrunedCovered'  BY ZenonT(30), <1>1, <1>2, <1>5, <1>6 DEF PrunedCovered
<1>8. NamesInv'  BY Zenon, <1>1, <1>7 DEF NamesInv
<1> QED  BY ZenonT(30), <1>1, <1>8, CoversKept

(* A power loss leaves the snapshots or the ones on stable storage.        *)
LEMMA NamesLost ==
  ASSUME NamesInv, PowerLoss
  PROVE  NamesInv' /\ CoversInv'
<1>1. /\ "power" \in Faults /\ snapshots' \in {snapshots, stable} /\ stable' = snapshots'
      /\ status' = "down" /\ snapPC' = "idle" /\ DOMAIN segments' = DOMAIN segments
  BY Zenon DEF PowerLoss, ProcessEnds
<1>2. Ordered(snapshots') /\ Ordered(stable')  BY Zenon, <1>1 DEF NamesInv
<1>3. PrunedCovered'
  <2>1. DOMAIN snapshots \cap DOMAIN stable \subseteq DOMAIN snapshots' \cap DOMAIN stable'  BY Zenon, <1>1
  <2> QED  BY Zenon, <1>1, <2>1 DEF NamesInv, PrunedCovered
<1>4. NamesInv'  BY ZenonT(30), <1>1, <1>2, <1>3 DEF NamesInv
<1> QED  BY Zenon, <1>1, <1>4 DEF CoversInv

(* Open accepts only snapshots that its log reaches.                       *)
LEMMA NamesOpened ==
  ASSUME Inv, RecordsInv, AnswersInv, NamesInv, CoversInv,
         OpenFailsAfterInstall \/ \E n, c : Open(n, c)
  PROVE  NamesInv' /\ CoversInv'
<1>1. /\ status = "down" /\ CanRecover /\ UNCHANGED <<snapshots, history>> /\ snapPC' = snapPC
      /\ stable' \in {stable, snapshots}
      /\ DOMAIN segments = {} => segments' = Put(segments, RecoveredSequence + 1, NewSegment)
      /\ DOMAIN segments # {} => segments' = Put(segments, LastSegment, WithoutTorn(segments[LastSegment]))
  BY Zenon DEF OpenFailsAfterInstall, Open, callers, snap
<1>2. status' = "up" => seq' = Len(history)
  <2>1. CASE OpenFailsAfterInstall  BY Zenon, <1>1, <2>1 DEF OpenFailsAfterInstall
  <2>2. CASE \E n, c : Open(n, c)  BY Zenon, <2>2, LogOpened
  <2> QED  BY Zenon, <2>1, <2>2
<1>3. Within(snapshots, Len(history)) /\ Within(stable, Len(history))  BY Zenon, <1>1, RecoverableWithin
<1>4. DOMAIN segments \subseteq DOMAIN segments'  BY Zenon, <1>1 DEF Put
<1>5. DOMAIN segments # {} \/ DOMAIN segments' \subseteq {1}
  <2>1. SUFFICES ASSUME DOMAIN segments = {} PROVE DOMAIN segments' \subseteq {1}  BY SMTT(30)
  <2>2. RecoveredSequence = Len(history) /\ history = <<>>  BY Zenon, <1>1, <2>1, RecoversHistory DEF RecordsInv
  <2>3. RecoveredSequence + 1 = 1  BY SMTT(30), <2>2
  <2>4. DOMAIN segments' = DOMAIN segments \cup {RecoveredSequence + 1}  BY ZenonT(30), <1>1, <2>1 DEF Put
  <2> QED  BY ZenonT(30), <2>1, <2>3, <2>4
<1>6. Len(history') = Len(history) /\ Len(history) \in Nat /\ Len(history) <= Len(history')
  BY SMTT(30), <1>1, HistoryFacts
<1>7. NamesInv'  BY ZenonT(30), <1>1, <1>2, <1>3, <1>4, <1>5, <1>6, NamesKept
<1>8. snapPC' = "idle"  BY ZenonT(30), <1>1 DEF Inv, WriterInv
<1> QED  BY ZenonT(30), <1>7, <1>8, CoversKept

(* Every step keeps the names and the covers in order.                     *)
LEMMA NamesNext ==
  ASSUME Inv, RecordsInv, AnswersInv, NamesInv, CoversInv, Next
  PROVE  NamesInv' /\ CoversInv'
<1>1. Len(history) \in Nat /\ Len(history) <= Len(history) /\ seq \in Nat /\ seq <= seq  BY SMTT(30), HistoryFacts
<1>0. CASE OpenRefused
  <2>1. /\ status = "down" /\ status' # "up" /\ UNCHANGED <<snapshots, stable, history>> /\ snapPC' = snapPC
    BY Zenon, <1>0 DEF OpenRefused, callers, snap
  <2>2. DOMAIN segments' = DOMAIN segments  BY Zenon, <1>0, RefusedLog
  <2>3. DOMAIN segments # {} \/ DOMAIN segments' \subseteq {1}  BY Zenon, <2>2
  <2>4. NamesInv'  BY ZenonT(30), <1>1, <2>1, <2>2, <2>3, NamesKept
  <2>5. snapPC' = "idle"  BY ZenonT(30), <2>1 DEF Inv, WriterInv
  <2> QED  BY ZenonT(30), <2>4, <2>5, CoversKept
<1>2. CASE DrainWrites \/ FsyncFails \/ SequenceExhausted \/ NoSnapshotDue
           \/ CloseDone \/ Tick \/ \E k \in Keys : Reclaim(k)
  <2>1. UNCHANGED <<segments, snapshots, stable, history>>
    BY Zenon, <1>2 DEF DrainWrites, FsyncFails, SequenceExhausted, NoSnapshotDue,
      CloseDone, Tick, Reclaim, disk, callers
  <2>2. status' = "up" => status = "up" /\ seq' = seq
    BY Zenon, <1>2 DEF DrainWrites, FsyncFails, SequenceExhausted, NoSnapshotDue,
      CloseDone, ProcessEnds, Tick, Reclaim, writer
  <2>3. UNCHANGED <<snapPC, snapCover, snapNext, shards>> \/ snapPC' = "idle"
    BY Zenon, <1>2 DEF DrainWrites, FsyncFails, SequenceExhausted, NoSnapshotDue,
      CloseDone, ProcessEnds, Tick, Reclaim, config, snap
  <2>4. NamesInv'  BY ZenonT(30), <1>1, <2>1, <2>2, NamesKeptRunning
  <2> QED  BY ZenonT(30), <2>1, <2>3, <2>4, CoversKept
<1>3. CASE Fsync \/ CloseRequest \/ RollForWrite \/ RollForWriteFails \/ StartDurableSnapshot
           \/ DurableSnapshotAborts
  <2>1. status = "up" \/ pc # "idle"
    BY Zenon, <1>3 DEF Fsync, CloseRequest, RollForWrite, RollForWriteFails, StartDurableSnapshot,
      DurableSnapshotAborts, SnapshotDue
  <2>2. UNCHANGED <<snapPC, snapCover, snapNext>> \/ BeginRebuild
    BY Zenon, <1>3 DEF Fsync, CloseRequest, RollForWrite, RollForWriteFails, StartDurableSnapshot,
      DurableSnapshotAborts, snap
  <2>3. segments' \in {segments, Synced(current), Put(Synced(current), seq + 1, NewSegment)}
    BY Zenon, <1>3 DEF Fsync, CloseRequest, RollForWrite, RollForWriteFails, StartDurableSnapshot,
      DurableSnapshotAborts, rollSegment, rollSegmentFails
  <2>4. DOMAIN segments \subseteq DOMAIN segments'  BY Zenon, <2>3 DEF Synced, Put
  <2>5. status = "up"  BY Zenon, <2>1, UpFacts
  <2>6. /\ snapshots' = snapshots /\ history' = history /\ status' = status /\ seq' = seq
        /\ shards' = shards /\ stable' \in {stable, snapshots}
    BY Zenon, <1>3 DEF Fsync, CloseRequest, RollForWrite, RollForWriteFails, StartDurableSnapshot,
      DurableSnapshotAborts, rollSegment, rollSegmentFails, config, writer, callers
  <2>7. NamesInv'  BY ZenonT(30), <1>1, <2>4, <2>5, <2>6, NamesKeptRunning
  <2>8. CoversInv'  BY ZenonT(30), <2>2, <2>5, <2>6, CoversKept, CoversBegun
  <2> QED  BY Zenon, <2>7, <2>8
<1>4. CASE StartMemorySnapshot \/ FinalSnapshot
  <2>1. /\ UNCHANGED <<segments, snapshots, stable, history, status, seq, shards>> /\ pc # "idle"
        /\ (BeginCapture \/ BeginRebuild)
    BY Zenon, <1>4 DEF StartMemorySnapshot, FinalSnapshot, SnapshotDue, disk, config, callers
  <2>2. status = "up"  BY Zenon, <2>1, UpFacts
  <2>3. NamesInv'  BY ZenonT(30), <1>1, <2>1, <2>2, NamesKeptRunning
  <2> QED  BY ZenonT(30), <2>1, <2>2, <2>3, CoversBegun
<1>5. CASE WriteRecords \/ WriteFails \/ Crash
  <2>1. /\ UNCHANGED <<snapshots, stable>> /\ (status' = "up" => status = "up" /\ seq' = seq)
        /\ UNCHANGED <<snapPC, snapCover, snapNext, shards>> \/ snapPC' = "idle"
    BY Zenon, <1>5, UpFacts DEF WriteRecords, WriteFails, CanWrite, Crash, ProcessEnds, config, snap
  <2>2. CASE Crash /\ UNCHANGED <<segments, history>>
    <3>1. NamesInv'  BY ZenonT(30), <1>1, <2>1, <2>2, NamesKeptRunning
    <3> QED  BY Zenon, <2>1, <3>1, CoversKept
  <2>3. CASE WriteRecords \/ WriteFails \/ (Crash /\ ~UNCHANGED <<segments, history>>)
    <3>1. PICK whole \in Seq(Cell), tail \in {<<>>, <<Torn>>} :
            segments' = Appended(whole \o tail) /\ history' = history \o whole
      BY Zenon, <2>3, WritesRecords
    <3>2. CanWrite /\ status = "up"  BY ZenonT(30), <2>3, WritesRecords, UpFacts DEF CanWrite
    <3>3. Len(history') \in Nat /\ Len(history) <= Len(history')
      <4>1. history \in Seq(Cell)  BY Zenon, HistoryFacts
      <4> QED  BY SMTT(30), <3>1, <4>1
    <3>4. DOMAIN segments \subseteq DOMAIN segments'  BY ZenonT(30), <3>1 DEF Appended, Put
    <3>5. NamesInv'  BY ZenonT(30), <1>1, <2>1, <3>2, <3>3, <3>4, NamesKeptRunning
    <3> QED  BY Zenon, <2>1, <3>5, CoversKept
  <2> QED  BY Zenon, <1>5, <2>2, <2>3
<1>6. CASE applySet \/ applyDelete
  <2>1. pc = "apply" /\ AfterApply  BY Zenon, <1>6 DEF applySet, applyDelete
  <2>2. UNCHANGED <<segments, snapshots, stable, history, snapPC, snapCover, snapNext, shards>>
    BY Zenon, <2>1 DEF AfterApply, disk, config, snap
  <2>3. status = "up" /\ seq' = seq + 1  BY ZenonT(30), <2>1, LogApplied
  <2>4. seq <= seq' /\ seq' \in Nat  BY SMTT(30), <1>1, <2>3
  <2>5. NamesInv'  BY ZenonT(30), <1>1, <2>2, <2>3, <2>4, NamesKeptRunning
  <2> QED  BY ZenonT(30), <2>2, <2>5, CoversKept
<1>7. CASE CaptureShard \/ RebuildImage \/ SnapshotFails \/ DiscardSnapshot \/ SyncDirectory
           \/ SnapshotInstalled
  <2>1. /\ UNCHANGED <<segments, snapshots, history, status, seq, shards>> /\ snapPC # "idle"
        /\ stable' \in {stable, snapshots}
    BY Zenon, <1>7 DEF CaptureShard, RebuildImage, SnapshotFails, DiscardSnapshot,
      SyncDirectory, SnapshotInstalled, SnapshotOnly, disk, config, writer, callers
  <2>2. status = "up"  BY Zenon, <2>1, UpFacts
  <2>3. NamesInv'  BY ZenonT(30), <1>1, <2>1, <2>2, NamesKeptRunning
  <2>4. CASE CaptureShard  BY ZenonT(30), <2>3, <2>4, CoversCaptured
  <2>5. CASE RebuildImage
    <3>1. snapPC = "rebuild" /\ snapPC' = "ready" /\ UNCHANGED <<snapshots, snapCover, shards>>
      BY Zenon, <2>1, <2>5 DEF RebuildImage
    <3>2. CoversInv'  BY ZenonT(30), <3>1 DEF CoversInv
    <3> QED  BY Zenon, <2>3, <3>2
  <2>6. CASE SyncDirectory
    <3>1. snapPC = "renamed" /\ snapPC' = "remove" /\ UNCHANGED <<snapshots, snapCover>>
      BY Zenon, <2>6 DEF SyncDirectory
    <3>2. CoversInv'  BY Zenon, <3>1 DEF CoversInv, SnapName
    <3> QED  BY Zenon, <2>3, <3>2
  <2>7. CASE SnapshotFails \/ DiscardSnapshot \/ SnapshotInstalled
    <3>1. snapPC' = "idle"
      BY Zenon, <2>7 DEF SnapshotFails, DiscardSnapshot, SnapshotInstalled, SnapshotEnds
    <3> QED  BY ZenonT(30), <2>3, <3>1, CoversKept
  <2> QED  BY ZenonT(30), <1>7, <2>4, <2>5, <2>6, <2>7
<1>8. CASE RenameSnapshot  BY Zenon, <1>8, NamesInstalled
<1>9. CASE removeOtherSnapshots  BY Zenon, <1>9, NamesRemoved
<1>10. CASE deleteSegmentsBefore  BY Zenon, <1>10, NamesPruned
<1>11. CASE PowerLoss  BY Zenon, <1>11, NamesLost
<1>12. CASE OpenFailsAfterInstall \/ \E option \in Options : Open(option[1], option[2])
  BY Zenon, <1>12, NamesOpened
<1> QED  BY ZenonT(30), <1>0, <1>2, <1>3, <1>4, <1>5, <1>6, <1>7, <1>8, <1>9, <1>10, <1>11, <1>12
         DEF Next, WriterStep, SnapshotStep

-----------------------------------------------------------------------------
(* What is kept for good.                                                  *)

(* Time does not go back, a running process appends, a power loss cuts.    *)
LEMMA StepContinues ==
  ASSUME Inv, Inv', RecordsInv, AnswersInv, Next
  PROVE  Continues
<1>1. history \in Seq(Cell) /\ Len(history) \in Nat  BY ZenonT(30), HistoryFacts
<1>2. history' \in Seq(Cell) /\ now \in Time /\ now' \in Time
  BY Zenon DEF Inv, TypeOK, CallersTypeOK
<1>3. now \in Nat /\ now' \in Nat  BY SMTT(30), <1>2, ConstantsAssumption DEF Time
<1>4. now' = now \/ now' = now + 1
  BY ZenonT(30) DEF Next, WriterStep, SnapshotStep, Open, OpenFailsAfterInstall, OpenRefused, DrainWrites,
    Fsync, FsyncFails, CloseRequest, Tick, Crash, PowerLoss, Reclaim, SequenceExhausted, RollForWrite,
    RollForWriteFails, WriteRecords, WriteFails, applySet, applyDelete, AfterApply, NoSnapshotDue,
    StartMemorySnapshot, StartDurableSnapshot, DurableSnapshotAborts, FinalSnapshot, CloseDone,
    CaptureShard, RebuildImage, SnapshotFails, DiscardSnapshot, RenameSnapshot, SyncDirectory,
    removeOtherSnapshots, deleteSegmentsBefore, SnapshotInstalled, SnapshotOnly
<1>5. now <= now'  BY SMTT(30), <1>3, <1>4
<1>6. history' = history \/ PowerLoss \/ WriteRecords \/ WriteFails \/ (Crash /\ ~UNCHANGED <<segments, history>>)
  BY ZenonT(30) DEF Next, WriterStep, SnapshotStep, Open, OpenFailsAfterInstall, OpenRefused, DrainWrites,
    Fsync, FsyncFails, CloseRequest, Tick, Reclaim, SequenceExhausted, RollForWrite,
    RollForWriteFails, applySet, applyDelete, AfterApply, NoSnapshotDue,
    StartMemorySnapshot, StartDurableSnapshot, DurableSnapshotAborts, FinalSnapshot, CloseDone,
    CaptureShard, RebuildImage, SnapshotFails, DiscardSnapshot, RenameSnapshot, SyncDirectory,
    removeOtherSnapshots, deleteSegmentsBefore, SnapshotInstalled, SnapshotOnly, callers
<1>7. /\ \A i \in 1..Len(history') : i <= Len(history) => history'[i] = history[i]
      /\ status = "up" \/ Len(history') <= Len(history)
  <2>1. CASE history' = history  BY SMTT(30), <1>1, <2>1
  <2>2. CASE PowerLoss
    <3>1. PICK n \in 0..Len(history) : history' = SubSeq(history, 1, n)  BY ZenonT(30), <2>2, LogLost
    <3>2. Len(history') = n /\ \A i \in 1..n : history'[i] = history[i]  BY ZenonT(30), <1>1, <3>1, PrefixFacts
    <3>3. Len(history') <= Len(history)  BY SMTT(30), <1>1, <3>2
    <3> QED  BY ZenonT(30), <3>2, <3>3
  <2>3. CASE WriteRecords \/ WriteFails \/ (Crash /\ ~UNCHANGED <<segments, history>>)
    <3>1. PICK whole \in Seq(Cell) : history' = history \o whole  BY ZenonT(30), <2>3, WritesRecords
    <3>2. CanWrite  BY ZenonT(30), <2>3, WritesRecords
    <3>3. status = "up"  BY ZenonT(30), <3>2, UpFacts DEF CanWrite
    <3>4. \A i \in 1..Len(history') : i <= Len(history) => i \in 1..Len(history)  BY SMTT(30), <1>1
    <3>5. \A i \in 1..Len(history) : history'[i] = history[i]  BY SMTT(30), <1>1, <3>1, ConcatFacts
    <3> QED  BY ZenonT(30), <3>3, <3>4, <3>5
  <2> QED  BY ZenonT(30), <1>6, <2>1, <2>2, <2>3
<1> QED  BY ZenonT(30), <1>2, <1>3, <1>5, <1>7 DEF Continues

(* A promised record is in a synced part or under a permanent snapshot.    *)
LEMMA PromisedStable ==
  ASSUME Inv, RecordsInv, AnswersInv, NamesInv, NEW i \in 1..promised
  PROVE  i \in OnStableStorage
<1>1. /\ RecordsInv /\ AnswersInv /\ NamesInv /\ Chain(segments)
      /\ Len(history) \in Nat /\ promised \in Nat
      /\ promised <= Len(history) /\ SyncedThrough(segments, promised)
      /\ \A f \in DOMAIN segments : /\ f \in Nat \ {0} /\ Len(segments[f].cells) \in Nat
                                    /\ segments[f].synced \in Nat
  BY ZenonT(30), HistoryFacts DEF AnswersInv, Inv, LogInv
<1>2. i \in Nat /\ i \in 1..Len(history) /\ 1 <= i /\ i <= Len(history) /\ i <= promised  BY SMTT(30), <1>1
<1>3. ASSUME NEW f \in DOMAIN segments, f <= i  PROVE i \in OnStableStorage
  <2>1. PICK g \in DOMAIN segments :
          /\ g <= i /\ i - g + 1 \in 1..Len(segments[g].cells)
          /\ segments[g].cells[i - g + 1] = history[i] /\ (IsLast(g, segments) \/ Sealed(segments[g]))
    <3>1. Holds(segments, history) /\ EndsAt(segments, Len(history))  BY Zenon, <1>1 DEF RecordsInv
    <3> QED  BY SMTT(30), <1>1, <1>2, <1>3, <3>1, Located
  <2>2. i < g + segments[g].synced
    <3>1. CASE IsLast(g, segments)
      <5>1. promised < g + segments[g].synced  BY ZenonT(30), <1>1, <3>1 DEF SyncedThrough
      <5> QED  BY SMTT(30), <1>1, <1>2, <5>1
    <3>2. CASE Sealed(segments[g])
      <5>1. segments[g].synced = Len(segments[g].cells)  BY ZenonT(30), <3>2 DEF Sealed
      <5> QED  BY SMTT(30), <1>1, <1>2, <2>1, <5>1
    <3> QED  BY ZenonT(30), <2>1, <3>1, <3>2
  <2> QED  BY ZenonT(30), <1>2, <2>1, <2>2 DEF OnStableStorage
<1>4. CASE \A f \in DOMAIN segments : ~(f <= i)
  <2>1. DOMAIN segments # {}
    <3>1. CASE DOMAIN segments = {}
      <5>1. history = <<>>  BY ZenonT(30), <1>1, <3>1 DEF RecordsInv
      <5> QED  BY SMTT(30), <1>2, <5>1
    <3> QED  BY ZenonT(30), <3>1
  <2>2. 1 \notin DOMAIN segments  BY ZenonT(30), <1>2, <1>4
  <2>3. PICK name \in DOMAIN snapshots \cap DOMAIN stable : \E f \in DOMAIN segments : f <= name
    BY ZenonT(30), <1>1, <2>1, <2>2 DEF NamesInv, PrunedCovered
  <2>4. PICK f \in DOMAIN segments : f <= name  BY ZenonT(30), <2>3
  <2>5. name \in Nat  BY SMTT(30) DEF Inv, TypeOK, DiskTypeOK, Sequence
  <2>6. i <= name  BY SMTT(30), <1>1, <1>2, <1>4, <2>4, <2>5
  <2> QED  BY ZenonT(30), <1>2, <2>3, <2>6 DEF OnStableStorage
<1> QED  BY ZenonT(30), <1>3, <1>4
=============================================================================
