------------------------- MODULE DurableStoreProofs -------------------------
(***************************************************************************)
(* For any keys, options, limits and faults: the segment files always form *)
(* one chain of consecutive sequences, and with it the type invariant, the *)
(* silence of a latched store and the safety of pruning; what the files, the*)
(* snapshots and the memory hold is what the history left, and with it what*)
(* a crash, a power loss and a reader may rely on; and as long as the power*)
(* stays on the store is a durable map.                                    *)
(***************************************************************************)
EXTENDS StoreSteps, StoredRecords, RecoveredData, StoreRefinement

-----------------------------------------------------------------------------
(* The steps of the store as steps of a durable map.                       *)

(* The two modules mean the same by an entry and its expiry.               *)
LEMMA SameEntries ==
  /\ Map!NoEntry = NoEntry /\ Map!Entry = Entry
  /\ \A e, t : Map!Live(e, t) = LiveAt(e, t)
  /\ \A k \in Keys : /\ DurableImage[k] = LiveAt(Left(history, k, Len(history)), now)
                     /\ VisibleImage[k] = LiveAt(entries[k], now)
<1>1. Map!NoEntry = NoEntry  BY Zenon DEF Map!NoEntry, NoEntry
<1>2. Map!Entry = Entry  BY Zenon DEF Map!Entry, Entry, Sequence, Time
<1>3. \A e, t : Map!Live(e, t) = LiveAt(e, t)  BY Zenon, <1>1 DEF Map!Live, LiveAt
<1>4. /\ \A k, n : Latest(k, n) = Left(history, k, n)
      /\ \A e : Live(e) = LiveAt(e, now)
  BY Zenon DEF Latest, Left, Live, LiveAt, deadlinePassed
<1>5. \A k \in Keys : /\ DurableImage[k] = Live(Latest(k, Len(history)))
                      /\ VisibleImage[k] = Live(entries[k])
  BY Zenon DEF DurableImage, VisibleImage
<1>6. \A k \in Keys : /\ DurableImage[k] = LiveAt(Left(history, k, Len(history)), now)
                      /\ VisibleImage[k] = LiveAt(entries[k], now)
  BY ZenonT(30), <1>4, <1>5
<1> QED  BY ZenonT(30), <1>1, <1>2, <1>3, <1>6

(* The same after a step.                                                  *)
LEMMA SameEntriesLater ==
  \A k \in Keys : /\ DurableImage'[k] = LiveAt(Left(history', k, Len(history')), now')
                  /\ VisibleImage'[k] = LiveAt(entries'[k], now')
BY Zenon DEF DurableImage, VisibleImage, Latest, Left, Live, LiveAt, deadlinePassed

(* The answers to the records of a chunk, in order.                        *)
LEMMA AnswersFacts ==
  ASSUME NEW p \in Seq(Cell)
  PROVE  /\ Len(Answers(p)) = Len(p) /\ Answers(p) \in [1..Len(p) -> [key : Keys, entry : Entry]]
         /\ \A i \in 1..Len(p) : Answers(p)[i].key = p[i].key /\ Answers(p)[i].entry = EntryOf(p[i])
         /\ p = <<>> <=> Answers(p) = <<>>
         /\ p # <<>> => /\ Answers(Tail(p)) = Tail(Answers(p))
                        /\ Head(Answers(p)).key = Head(p).key /\ Head(Answers(p)).entry = EntryOf(Head(p))
<1> DEFINE R(i) == [key |-> p[i].key, entry |-> EntryOf(p[i])]
           n == Len(p)
           T == [key : Keys, entry : Entry]
<1>1. n \in Nat /\ DOMAIN p = 1..n /\ \A i \in 1..n : p[i] \in Cell  BY SMTT(30)
<1>2. \A i \in 1..n : R(i) \in T  BY ZenonT(30), <1>1, EntryFacts DEF Cell
<1>3. Answers(p) = [i \in 1..n |-> R(i)]  BY Zenon, <1>1 DEF Answers
<1>4. /\ Answers(p) \in [1..n -> T] /\ \A i \in 1..n : Answers(p)[i] = R(i)
      /\ DOMAIN Answers(p) = 1..n
  BY ZenonT(30), <1>2, <1>3
<1>5. \A i \in 1..n : Answers(p)[i].key = p[i].key /\ Answers(p)[i].entry = EntryOf(p[i])
  <2> TAKE i \in 1..n
  <2>1. Answers(p)[i] = [key |-> p[i].key, entry |-> EntryOf(p[i])]  BY ZenonT(30), <1>4
  <2> QED  BY SMTT(30), <2>1
<1> HIDE DEF R, T
<1>6. Answers(p) \in Seq(T) /\ Len(Answers(p)) = n  BY SMTT(30), <1>1, <1>4
<1>7. p = <<>> <=> Answers(p) = <<>>  BY SMTT(30), <1>1, <1>6
<1>8. ASSUME p # <<>>
      PROVE  /\ Answers(Tail(p)) = Tail(Answers(p))
             /\ Head(Answers(p)).key = Head(p).key /\ Head(Answers(p)).entry = EntryOf(Head(p))
  <2>1. /\ n \in Nat \ {0} /\ 1 \in 1..n /\ Head(p) = p[1] /\ Head(Answers(p)) = Answers(p)[1]
    BY SMTT(30), <1>1, <1>6, <1>7, <1>8
  <2>2. /\ DOMAIN Tail(p) = 1..(n - 1) /\ \A i \in 1..(n - 1) : i + 1 \in 1..n /\ Tail(p)[i] = p[i + 1]
    BY SMTT(30), <1>1, <1>8
  <2>3. Answers(Tail(p)) = [i \in 1..(n - 1) |-> [key |-> Tail(p)[i].key, entry |-> EntryOf(Tail(p)[i])]]
    BY ZenonT(30), <2>2 DEF Answers
  <2>4. \A i \in 1..(n - 1) : Answers(p)[i + 1] = [key |-> Tail(p)[i].key, entry |-> EntryOf(Tail(p)[i])]
    BY ZenonT(30), <1>4, <2>2 DEF R
  <2>5. Answers(Tail(p)) = [i \in 1..(n - 1) |-> Answers(p)[i + 1]]  BY ZenonT(30), <2>3, <2>4
  <2>6. Answers(Tail(p)) = Tail(Answers(p))
    <3> DEFINE A == Answers(p)
               B == Answers(Tail(p))
    <3> HIDE DEF A, B
    <3>1. A \in Seq(T) /\ Len(A) = n /\ A # <<>> /\ B = [i \in 1..(n - 1) |-> A[i + 1]]
      BY ZenonT(30), <1>6, <1>7, <1>8, <2>5 DEF A, B
    <3> QED  BY SMTT(30), <2>1, <3>1 DEF A, B
  <2> QED  BY ZenonT(30), <1>5, <2>1, <2>6
<1> QED  BY ZenonT(30), <1>4, <1>5, <1>6, <1>7, <1>8 DEF T

(* Records appended to the history are records the map may grow by, and    *)
(* leave what the map then holds.                                          *)
LEMMA MapGrows ==
  ASSUME Inv, RecordsInv, RecordsInv', NEW r \in Seq(Cell), history' = history \o r, now' = now
  PROVE  /\ Len(history') - Len(history) = Len(r)
         /\ Answers(r) \in Map!Records(Len(r)) /\ Map!Grows(Answers(r))
<1> DEFINE q == Answers(r)
           n == Len(r)
           h == Len(history)
<1>1. /\ history \in Seq(Cell) /\ h \in Nat /\ n \in Nat /\ Len(history') = h + n
      /\ \A i \in 1..n : history'[h + i] = r[i]
  <2>1. history \in Seq(Cell)  BY Zenon, HistoryFacts
  <2> QED  BY SMTT(30), <2>1, ConcatFacts
<1>2. Len(history') - h = n  BY SMTT(30), <1>1
<1>3. /\ Len(q) = n /\ q \in [1..n -> [key : Keys, entry : Entry]]
      /\ \A i \in 1..n : q[i].key = r[i].key /\ q[i].entry = EntryOf(r[i])
  BY ZenonT(30), AnswersFacts
<1> HIDE DEF q
<1>4. q \in Map!Records(n)
  <2>1. ASSUME NEW i \in 1..n  PROVE q[i].entry = NoEntry \/ q[i].entry.seq = h + i
    <3>1. h + i \in 1..Len(history')  BY SMTT(30), <1>1
    <3>2. r[i].seq = h + i  BY ZenonT(30), <1>1, <3>1 DEF RecordsInv, Numbers
    <3>3. EntryOf(r[i]) = NoEntry \/ EntryOf(r[i]) = [seq |-> r[i].seq, deadline |-> r[i].deadline]
      BY Zenon DEF EntryOf
    <3>4. EntryOf(r[i]) = NoEntry \/ EntryOf(r[i]).seq = h + i  BY SMTT(30), <3>2, <3>3
    <3> QED  BY ZenonT(30), <1>3, <3>4
  <2> QED  BY ZenonT(30), <1>3, <2>1, SameEntries DEF Map!Records
<1>5. ASSUME NEW k \in Keys
      PROVE  DurableImage'[k] =
               LET writes == {i \in DOMAIN q : q[i].key = k}
               IN  IF writes = {} THEN DurableImage[k]
                   ELSE Map!Live(q[CHOOSE i \in writes : \A j \in writes : j <= i].entry, now)
  <2> DEFINE W == {i \in DOMAIN q : q[i].key = k}
  <2>1. DurableImage'[k] = LiveAt(Left(history \o r, k, h + n), now)
    BY ZenonT(30), <1>1, SameEntriesLater
  <2>2. DOMAIN q = 1..n /\ \A i \in 1..n : i \in W <=> r[i].key = k  BY Zenon, <1>3
  <2>3. W \subseteq 1..n  BY ZenonT(30), <2>2
  <2> HIDE DEF W
  <2>4. LastDecides(history, r, k)  BY ZenonT(30), <1>1, LeftAppended
  <2>5. CASE W = {}
    <3>1. Left(history \o r, k, h + n) = Left(history, k, h)  BY ZenonT(30), <2>2, <2>4, <2>5 DEF LastDecides
    <3> QED  BY ZenonT(30), <2>1, <2>5, <3>1, SameEntries DEF W
  <2>6. CASE W # {}
    <3> DEFINE m == CHOOSE i \in W : \A j \in W : j <= i
    <3>1. \E i \in W : \A j \in W : j <= i
      <4>1. W \subseteq 0..n  BY SMTT(30), <2>3
      <4> QED  BY ZenonT(30), <1>1, <2>6, <4>1, GreatestNatural
    <3>2. m \in W /\ \A j \in W : j <= m  BY ZenonT(30), <3>1
    <3> HIDE DEF m
    <3>3. m \in 1..n /\ r[m].key = k /\ \A i \in 1..n : r[i].key = k => i <= m  BY ZenonT(30), <2>2, <2>3, <3>2
    <3>4. Left(history \o r, k, h + n) = EntryOf(r[m])  BY ZenonT(30), <2>4, <3>3 DEF LastDecides
    <3>5. q[m].entry = EntryOf(r[m])  BY ZenonT(30), <1>3, <3>3
    <3> QED  BY ZenonT(30), <2>1, <2>6, <3>4, <3>5, SameEntries DEF W, m
  <2> QED  BY ZenonT(30), <2>5, <2>6
<1>6. DurableImage' = Map!After(DurableImage, q)  BY Zenon, <1>5 DEF Map!After, DurableImage
<1>7. Map!Grows(q)  BY ZenonT(30), <1>1, <1>3, <1>6 DEF Map!Grows
<1> QED  BY ZenonT(30), <1>2, <1>4, <1>7 DEF q

(* What readers find changes with memory and time only.                    *)
LEMMA SameVisible ==
  ASSUME UNCHANGED <<entries, now>>
  PROVE  VisibleImage' = VisibleImage
  BY Zenon DEF VisibleImage, Live, deadlinePassed

(* A step of the files, of a snapshot or of the writer that callers cannot *)
(* see.                                                                    *)
LEMMA MapStutters ==
  ASSUME UNCHANGED <<latched, logSequence, now, pending, history>>, status' = "up" <=> status = "up",
         VisibleImage' = VisibleImage
  PROVE  UNCHANGED Map!vars
<1>1. DurableImage' = DurableImage  BY Zenon DEF DurableImage, Latest, Live, deadlinePassed
<1>2. Answers(pending') = Answers(pending)  BY Zenon
<1>3. (status' = "up") = (status = "up")  BY Zenon
<1> QED  BY ZenonT(30), <1>1, <1>2, <1>3 DEF Map!vars

(* An error latches; the write that failed may have left some records.     *)
LEMMA MapFails ==
  ASSUME Inv, RecordsInv, RecordsInv', status = "up", status' = "up", ~latched, latched' = TRUE,
         UNCHANGED <<entries, logSequence, now, pending>>, NEW r \in Seq(Cell), history' = history \o r
  PROVE  Map!Fail
<1>1. VisibleImage' = VisibleImage  BY Zenon, SameVisible
<1>2. Answers(r) \in Map!Records(Len(history') - Len(history)) /\ Map!Grows(Answers(r))
  BY Zenon, MapGrows
<1>3. Answers(pending') = Answers(pending)  BY Zenon
<1> QED  BY ZenonT(30), <1>1, <1>2, <1>3 DEF Map!Fail

(* A chunk is written.                                                     *)
LEMMA MapWrites ==
  ASSUME Inv, RecordsInv, RecordsInv', WriteRecords
  PROVE  Map!Write
<1>1. /\ status = "up" /\ ~latched /\ pending = <<>> /\ Chunk \in Seq(Cell) /\ ChunkLength \in 1..Len(batch)
      /\ Len(Chunk) = ChunkLength
  BY Zenon, WritingFacts, ChunkFacts DEF WriteRecords, CanWrite
<1>2. /\ UNCHANGED <<status, latched, entries, logSequence, now>> /\ pending' = Chunk
      /\ history' = history \o Chunk
  BY Zenon DEF WriteRecords, memory
<1>3. Chunk # <<>>  BY SMTT(30), <1>1
<1>4. <<>> \in Seq(Cell)  BY SMTT(30)
<1>5. Answers(pending) = <<>> /\ Answers(pending') # <<>> /\ Len(Answers(pending')) = Len(Chunk)
  BY ZenonT(30), <1>1, <1>2, <1>3, <1>4, AnswersFacts
<1>6. Answers(pending') \in Map!Records(Len(Answers(pending'))) /\ Map!Grows(Answers(pending'))
  BY ZenonT(30), <1>1, <1>2, <1>5, MapGrows
<1>7. VisibleImage' = VisibleImage  BY ZenonT(30), <1>2, SameVisible
<1> QED  BY Zenon, <1>1, <1>2, <1>5, <1>6, <1>7 DEF Map!Write

(* A record is applied and its caller answered.                            *)
LEMMA MapApplies ==
  ASSUME Inv, RecordsInv, AnswersInv, applySet \/ applyDelete
  PROVE  Map!Apply
<1>1. pc = "apply" /\ AfterApply  BY ZenonT(30) DEF applySet, applyDelete
<1>2. /\ status = "up" /\ logSequence = seq /\ pending # <<>> /\ pending \in Seq(Cell)
      /\ seq + 1 \in 1..Len(history) /\ Head(pending) = history[seq + 1] /\ seq' = seq + 1
  BY ZenonT(30), <1>1, LogApplied, HistoryFacts DEF Inv, WriterInv
<1>3. /\ pending' = Tail(pending) /\ logSequence' = seq' /\ UNCHANGED <<status, latched, now, history>>
  BY ZenonT(30), <1>1 DEF AfterApply
<1>4. Head(pending) \in Cell  BY SMTT(30), <1>2
<1>5. /\ Answers(pending) # <<>> /\ Answers(pending') = Tail(Answers(pending))
      /\ Head(Answers(pending)).key = Head(pending).key
      /\ Head(Answers(pending)).entry = EntryOf(Head(pending))
  BY ZenonT(30), <1>2, <1>3, AnswersFacts
<1>6. DurableImage' = DurableImage  BY Zenon, <1>3 DEF DurableImage, Latest, Live, deadlinePassed
<1> DEFINE k == Head(pending).key
<1>7. k \in Keys  BY Zenon, <1>4 DEF Cell
<1>8. VisibleImage'[k] = Map!Live(EntryOf(Head(pending)), now)
  BY ZenonT(30), <1>3, <1>4, <1>7, AppliedVisible, SameEntries, SameEntriesLater
<1>9. ASSUME NEW j \in Keys \ {k}  PROVE VisibleImage'[j] \in {VisibleImage[j], Map!NoEntry}
  <2>1. entries'[j] \in {entries[j], NoEntry}  BY ZenonT(30), <1>4, AppliedVisible
  <2>2. LiveAt(NoEntry, now) = NoEntry  BY ZenonT(30), EntryFacts DEF LiveAt
  <2>3. VisibleImage'[j] = LiveAt(entries'[j], now) /\ VisibleImage[j] = LiveAt(entries[j], now)
    BY ZenonT(30), <1>3, SameEntries, SameEntriesLater
  <2> QED  BY ZenonT(30), <2>1, <2>2, <2>3, SameEntries
<1>10. DOMAIN VisibleImage' = Keys  BY Zenon DEF VisibleImage
<1> QED  BY ZenonT(30), <1>2, <1>3, <1>5, <1>6, <1>8, <1>9, <1>10 DEF Map!Apply

(* Open.                                                                   *)
LEMMA MapStarts ==
  ASSUME Inv, RecordsInv, NamesInv, DirectoryInv, NEW n \in Nat \ {0}, NEW c, Open(n, c)
  PROVE  Map!Start
<1>1. /\ status = "down" /\ status' = "up" /\ CanRecover /\ logSequence' = RecoveredSequence
      /\ UNCHANGED <<latched, pending, now, history>>
  BY ZenonT(30) DEF Open, callers
<1>2. RecoveredSequence = Len(history)  BY ZenonT(30), <1>1, RecoversHistory
<1>3. DurableImage' = DurableImage  BY Zenon, <1>1 DEF DurableImage, Latest, Live, deadlinePassed
<1>4. Answers(pending') = Answers(pending)  BY Zenon, <1>1
<1>5. ASSUME NEW k \in Keys  PROVE VisibleImage'[k] \in {Map!NoEntry, DurableImage[k]}
  <2>1. LiveAt(entries'[k], now) \in {NoEntry, LiveAt(Left(history, k, Len(history)), now)}
    BY ZenonT(30), OpenedVisible
  <2> QED  BY ZenonT(30), <1>1, <2>1, SameEntries, SameEntriesLater
<1>6. DOMAIN VisibleImage' = Keys  BY Zenon DEF VisibleImage
<1> QED  BY ZenonT(30), <1>1, <1>2, <1>3, <1>4, <1>5, <1>6 DEF Map!Start

(* The process ends, by Close or a crash, in the middle of a write or not. *)
LEMMA MapStops ==
  ASSUME Inv, RecordsInv, RecordsInv', status = "up", ProcessEnds, now' = now,
         NEW r \in Seq(Cell), history' = history \o r, r = <<>> \/ (~latched /\ pending = <<>>)
  PROVE  Map!Stop
<1>1. /\ status' = "down" /\ latched' = FALSE /\ entries' = NoImage /\ logSequence' = 0 /\ pending' = <<>>
  BY Zenon DEF ProcessEnds
<1>2. VisibleImage' = Map!Nothing
  <2>1. ASSUME NEW k \in Keys  PROVE VisibleImage'[k] = Map!NoEntry
    <3>1. entries'[k] = NoEntry /\ LiveAt(NoEntry, now') = NoEntry
      BY ZenonT(30), <1>1, EntryFacts DEF NoImage, LiveAt
    <3> QED  BY ZenonT(30), <3>1, SameEntries, SameEntriesLater
  <2> QED  BY Zenon, <2>1 DEF VisibleImage, Map!Nothing
<1>3. Answers(pending') = <<>>
  <2>1. <<>> \in Seq(Cell)  BY SMTT(30)
  <2> QED  BY ZenonT(30), <1>1, <2>1, AnswersFacts
<1>4. \E q \in Map!Records(Len(history') - Len(history)) : Map!Grows(q)  BY Zenon, MapGrows
<1>5. latched \/ Answers(pending) # <<>> => Len(history') = Len(history) /\ DurableImage' = DurableImage
  <2> SUFFICES ASSUME latched \/ Answers(pending) # <<>>
               PROVE  Len(history') = Len(history) /\ DurableImage' = DurableImage
    BY SMTT(30)
  <2>1. <<>> \in Seq(Cell)  BY SMTT(30)
  <2>2. r = <<>>  BY ZenonT(30), <2>1, AnswersFacts
  <2>3. history' = history  BY SMTT(30), <2>2, HistoryFacts
  <2> QED  BY ZenonT(30), <2>3 DEF DurableImage, Latest, Live, deadlinePassed
<1>6. status' # "up"  BY ZenonT(30), <1>1
<1> QED  BY ZenonT(30), <1>1, <1>2, <1>3, <1>4, <1>5, <1>6 DEF Map!Stop

(* Time passes.                                                            *)
LEMMA MapPasses ==
  ASSUME Inv, RecordsInv, Tick
  PROVE  Map!Pass
<1>1. now' = now + 1 /\ UNCHANGED <<status, entries, logSequence, latched, pending, history>>
  BY Zenon DEF Tick, memory, writer, callers
<1>2. now \in Nat /\ now' \in Nat /\ now' > now /\ now <= now'
  BY SMTT(30), <1>1, ConstantsAssumption DEF Inv, TypeOK, CallersTypeOK, Time
<1>3. ASSUME NEW k \in Keys
      PROVE  /\ DurableImage'[k] = Map!Live(DurableImage[k], now')
             /\ VisibleImage'[k] = Map!Live(VisibleImage[k], now')
  <2>1. entries[k] \in Entry  BY Zenon DEF Inv, TypeOK, ProcessTypeOK, Image
  <2>2. Left(history, k, Len(history)) \in Entry
    <3>1. history \in Seq(Cell) /\ Len(history) \in 0..Len(history) /\ Numbers(history)
      BY SMTT(30), HistoryFacts DEF RecordsInv
    <3> QED  BY ZenonT(30), <3>1, LeftType
  <2>3. \A e \in Entry : LiveAt(LiveAt(e, now), now') = LiveAt(e, now')  BY ZenonT(30), <1>2, LiveAgain
  <2> QED  BY ZenonT(30), <1>1, <2>1, <2>2, <2>3, SameEntries, SameEntriesLater
<1>4. DurableImage' = [k \in Keys |-> Map!Live(DurableImage[k], now')]  BY Zenon, <1>3 DEF DurableImage
<1>5. VisibleImage' = [k \in Keys |-> Map!Live(VisibleImage[k], now')]  BY ZenonT(30), <1>3 DEF VisibleImage
<1> QED  BY ZenonT(30), <1>1, <1>2, <1>4, <1>5 DEF Map!Pass

(* Every step that is not a power loss.                                    *)
LEMMA MapNext ==
  ASSUME Inv, RecordsInv, RecordsInv', AnswersInv, NamesInv, DirectoryInv, Next, "power" \notin Faults
  PROVE  Map!Next \/ UNCHANGED Map!vars
<1>1. CASE SnapshotStep \/ OpenFailsAfterInstall \/ OpenRefused \/ DrainWrites \/ Fsync \/ RollForWrite
           \/ NoSnapshotDue \/ StartMemorySnapshot \/ StartDurableSnapshot \/ FinalSnapshot
  <2>1. /\ UNCHANGED <<entries, latched, logSequence, now, pending, history>>
        /\ status' = status \/ OpenRefused
    BY ZenonT(30), <1>1 DEF SnapshotStep, OpenFailsAfterInstall, OpenRefused, DrainWrites, Fsync, RollForWrite,
      NoSnapshotDue, StartMemorySnapshot, StartDurableSnapshot, FinalSnapshot, CaptureShard, RebuildImage,
      SnapshotFails, DiscardSnapshot, RenameSnapshot, SyncDirectory, removeOtherSnapshots,
      deleteSegmentsBefore, SnapshotInstalled, SnapshotOnly, memory, writer, callers
  <2>2. status' = "up" <=> status = "up"  BY ZenonT(30), <2>1 DEF OpenRefused
  <2> QED  BY ZenonT(30), <2>1, <2>2, SameVisible, MapStutters
<1>2. CASE \E k \in Keys : Reclaim(k)
  <2>1. PICK x \in Keys : Reclaim(x)  BY Zenon, <1>2
  <2>2. /\ UNCHANGED <<status, latched, logSequence, now, pending, history>>
        /\ entries' = Without(entries, {x}) /\ deadlinePassed(entries[x])
    BY ZenonT(30), <2>1 DEF Reclaim, writer, callers
  <2>3. LiveAt(entries[x], now) = NoEntry /\ LiveAt(NoEntry, now) = NoEntry
    BY ZenonT(30), <2>2, EntryFacts DEF LiveAt, deadlinePassed
  <2>4. ASSUME NEW k \in Keys  PROVE VisibleImage'[k] = VisibleImage[k]
    <3>1. entries'[k] = IF k = x THEN NoEntry ELSE entries[k]  BY ZenonT(30), <2>2 DEF Without
    <3>2. LiveAt(entries'[k], now) = LiveAt(entries[k], now)  BY ZenonT(30), <2>3, <3>1
    <3> QED  BY ZenonT(30), <2>2, <3>2, SameEntries, SameEntriesLater
  <2>5. VisibleImage' = VisibleImage  BY ZenonT(30), <2>4 DEF VisibleImage
  <2> QED  BY ZenonT(30), <2>2, <2>5, MapStutters
<1>3. CASE SequenceExhausted \/ RollForWriteFails \/ FsyncFails \/ CloseRequest \/ DurableSnapshotAborts
  <2>1. /\ UNCHANGED <<status, entries, logSequence, now, pending, history>> /\ status = "up"
        /\ latched' = latched \/ latched' = TRUE
    <3>1. /\ UNCHANGED <<status, entries, logSequence, now, pending, history>>
          /\ latched' = latched \/ latched' = TRUE
          /\ status = "up" \/ pc # "idle"
      BY ZenonT(30), <1>3 DEF SequenceExhausted, RollForWriteFails, FsyncFails, CloseRequest,
        DurableSnapshotAborts, SnapshotDue, FailBatch, memory, writer, callers
    <3> QED  BY ZenonT(30), <3>1, UpFacts
  <2>2. CASE latched' = latched  BY ZenonT(30), <2>1, <2>2, SameVisible, MapStutters
  <2>3. CASE ~latched /\ latched' = TRUE
    <3>1. <<>> \in Seq(Cell) /\ history \o <<>> = history  BY SMTT(30), HistoryFacts
    <3>2. Map!Fail  BY ZenonT(30), <2>1, <2>3, <3>1, MapFails
    <3> QED  BY Zenon, <3>2 DEF Map!Next
  <2>4. latched \in BOOLEAN  BY Zenon DEF Inv, TypeOK, ProcessTypeOK
  <2> QED  BY ZenonT(30), <2>1, <2>2, <2>3, <2>4
<1>4. CASE WriteFails
  <2>1. PICK r \in Seq(Cell) : history' = history \o r  BY ZenonT(30), <1>4, WritesRecords
  <2>2. /\ pc = "write" /\ latched' = TRUE /\ UNCHANGED <<status, entries, logSequence, now, pending>>
    BY ZenonT(30), <1>4 DEF WriteFails, CanWrite, FailBatch, memory
  <2>3. status = "up" /\ ~latched  BY ZenonT(30), <2>2, WritingFacts
  <2>4. Map!Fail  BY ZenonT(30), <2>1, <2>2, <2>3, MapFails
  <2> QED  BY ZenonT(30), <2>4 DEF Map!Next
<1>5. CASE WriteRecords  BY ZenonT(30), <1>5, MapWrites DEF Map!Next
<1>6. CASE applySet \/ applyDelete  BY ZenonT(30), <1>6, MapApplies DEF Map!Next
<1>7. CASE \E option \in Options : Open(option[1], option[2])
  <2>1. PICK option \in Options : Open(option[1], option[2])  BY ZenonT(30), <1>7
  <2>2. option[1] \in Nat \ {0}  BY SMTT(30), ConstantsAssumption
  <2> QED  BY ZenonT(30), <2>1, <2>2, MapStarts DEF Map!Next
<1>8. CASE CloseDone \/ Crash
  <2>1. status = "up" /\ ProcessEnds /\ now' = now
    <3>1. ProcessEnds /\ now' = now /\ (status = "up" \/ pc # "idle")  BY ZenonT(30), <1>8 DEF CloseDone, Crash
    <3> QED  BY ZenonT(30), <3>1, UpFacts
  <2>2. CASE history' = history
    <3>1. <<>> \in Seq(Cell) /\ history \o <<>> = history  BY SMTT(30), HistoryFacts
    <3>2. Map!Stop  BY ZenonT(30), <2>1, <2>2, <3>1, MapStops
    <3> QED  BY ZenonT(30), <3>2 DEF Map!Next
  <2>3. CASE history' # history
    <3>1. Crash /\ ~UNCHANGED <<segments, history>>  BY ZenonT(30), <1>8, <2>3 DEF CloseDone, callers
    <3>2. PICK r \in Seq(Cell) : history' = history \o r  BY ZenonT(30), <3>1, WritesRecords
    <3>3. pc = "write"  BY ZenonT(30), <3>1, WritesRecords DEF CanWrite
    <3>4. ~latched /\ pending = <<>>  BY ZenonT(30), <3>3, WritingFacts
    <3>5. Map!Stop  BY ZenonT(30), <2>1, <3>2, <3>4, MapStops
    <3> QED  BY ZenonT(30), <3>5 DEF Map!Next
  <2> QED  BY ZenonT(30), <2>2, <2>3
<1>9. CASE Tick  BY ZenonT(30), <1>9, MapPasses DEF Map!Next
<1>10. ~PowerLoss  BY Zenon DEF PowerLoss
<1> QED  BY ZenonT(30), <1>1, <1>2, <1>3, <1>4, <1>5, <1>6, <1>7, <1>8, <1>9, <1>10 DEF Next, WriterStep

(* An empty directory is an empty map.                                     *)
LEMMA MapInit == Init => Map!Init
<1> SUFFICES ASSUME Init PROVE Map!Init  BY SMTT(30)
<1>1. /\ status = "down" /\ latched = FALSE /\ entries = NoImage /\ logSequence = 0 /\ pending = <<>>
      /\ now = 0 /\ history = <<>>
  BY ZenonT(30) DEF Init
<1>2. LiveAt(NoEntry, now) = NoEntry  BY ZenonT(30), EntryFacts DEF LiveAt
<1>3. Len(history) = 0 /\ <<>> \in Seq(Cell)  BY SMTT(30), <1>1
<1>4. \A k \in Keys : DurableImage[k] = Map!NoEntry /\ VisibleImage[k] = Map!NoEntry
  BY ZenonT(30), <1>1, <1>2, <1>3, LeftZero, SameEntries DEF NoImage
<1>5. DurableImage = Map!Nothing  BY Zenon, <1>4 DEF DurableImage, Map!Nothing
<1>6. VisibleImage = Map!Nothing  BY ZenonT(30), <1>4 DEF VisibleImage, Map!Nothing
<1>7. Answers(pending) = <<>>  BY ZenonT(30), <1>1, <1>3, AnswersFacts
<1>8. status # "up"  BY Zenon, <1>1
<1> QED  BY ZenonT(30), <1>1, <1>3, <1>5, <1>6, <1>7, <1>8 DEF Map!Init

-----------------------------------------------------------------------------
(* The data: the records, the answers, the snapshots and the memory.       *)

(* Without power losses Open never refuses the directory.                  *)
Accepted == "power" \notin Faults => status # "refused"

DataInv ==
  /\ RecordsInv /\ AnswersInv /\ NamesInv /\ CoversInv
  /\ DirectoryInv /\ MemoryInv /\ ImageInv /\ Accepted

(* An empty directory holds the empty history.                             *)
LEMMA InitData == Init => DataInv
<1> SUFFICES ASSUME Init PROVE DataInv  OBVIOUS
<1>1. /\ DOMAIN segments = {} /\ DOMAIN snapshots = {} /\ DOMAIN stable = {} /\ history = <<>>
      /\ acked = 0 /\ promised = 0 /\ status = "down" /\ snapPC = "idle"
  BY SMTT(30) DEF Init
<1>2. RecordsInv
  <2>1. Numbers(history)  BY SMTT(30), <1>1 DEF Numbers
  <2> QED  BY ZenonT(30), <1>1, <2>1 DEF RecordsInv, Holds, EndsAt
<1>3. AnswersInv
  <2>1. acked <= Len(history) /\ promised <= Len(history)  BY SMTT(30), <1>1
  <2> QED  BY ZenonT(30), <1>1, <2>1 DEF AnswersInv, SyncedThrough
<1>4. NamesInv  BY ZenonT(30), <1>1 DEF NamesInv, Ordered, Within, PrunedCovered
<1>5. CoversInv /\ DirectoryInv /\ MemoryInv /\ ImageInv /\ Accepted
  BY ZenonT(30), <1>1 DEF CoversInv, DirectoryInv, TruthfulIn, MemoryInv, ImageInv, Accepted
<1> QED  BY ZenonT(30), <1>2, <1>3, <1>4, <1>5 DEF DataInv

(* Only a directory that cannot be recovered is refused.                   *)
LEMMA AcceptedNext ==
  ASSUME Inv, DataInv, Next
  PROVE  Accepted'
<1> SUFFICES ASSUME "power" \notin Faults PROVE status' # "refused"  BY Zenon DEF Accepted
<1>1. CanRecover  BY ZenonT(30), AlwaysRecoverable DEF DataInv, DirectoryInv
<1>2. ~OpenRefused /\ status # "refused"  BY ZenonT(30), <1>1 DEF OpenRefused, DataInv, Accepted
<1>3. CASE \E option \in Options : Open(option[1], option[2])  BY ZenonT(30), <1>3 DEF Open
<1>4. CASE \E k \in Keys : Reclaim(k)  BY ZenonT(30), <1>2, <1>4 DEF Reclaim
<1>5. CASE WriterStep \/ SnapshotStep \/ OpenFailsAfterInstall \/ DrainWrites \/ Fsync \/ FsyncFails
           \/ CloseRequest \/ Tick \/ Crash \/ PowerLoss
  <2>1. status' \in {status, "up", "down"}
    BY ZenonT(30), <1>5 DEF WriterStep, SnapshotStep, OpenFailsAfterInstall, DrainWrites, Fsync, FsyncFails,
      CloseRequest, Tick, Crash, PowerLoss, ProcessEnds, SequenceExhausted, RollForWrite, RollForWriteFails,
      WriteRecords, WriteFails, applySet, applyDelete, AfterApply, NoSnapshotDue, StartMemorySnapshot,
      StartDurableSnapshot, DurableSnapshotAborts, FinalSnapshot, CloseDone, CaptureShard, RebuildImage,
      SnapshotFails, DiscardSnapshot, RenameSnapshot, SyncDirectory, removeOtherSnapshots,
      deleteSegmentsBefore, SnapshotInstalled, SnapshotOnly
  <2> QED  BY ZenonT(30), <1>2, <2>1
<1> QED  BY ZenonT(30), <1>2, <1>3, <1>4, <1>5 DEF Next

(* A step that changes nothing keeps the data.                             *)
LEMMA DataStutters ==
  ASSUME Inv, Inv', DataInv, UNCHANGED vars
  PROVE  DataInv'
<1>1. UNCHANGED <<segments, snapshots, stable, status, shards, entries, evictionGeneration, seq, pending,
                  snap, now, history, acked, promised>>
  BY Zenon DEF vars, disk, config, memory, writer, callers
<1>2. RecordsInv' /\ AnswersInv'  BY ZenonT(30), <1>1, LogKept DEF DataInv
<1>3. NamesInv'
  BY ZenonT(30), <1>1 DEF DataInv, NamesInv, Ordered, Within, PrunedCovered
<1>4. CoversInv'  BY ZenonT(30), <1>1, CoversKept DEF DataInv, snap
<1>5. Continues
  <2>1. history \in Seq(Cell) /\ now \in Nat /\ now <= now /\ Len(history) <= Len(history)
    BY SMTT(30), HistoryFacts, NoImageType DEF Inv, TypeOK, CallersTypeOK, Time
  <2> QED  BY ZenonT(30), <1>1, <2>1 DEF Continues
<1>6. DirectoryInv'  BY ZenonT(30), <1>1, <1>5, DirectoryKept DEF DataInv
<1>7. MemoryInv'  BY ZenonT(30), <1>1, <1>2, <1>5, MemoryKept DEF DataInv
<1>8. ImageInv'  BY ZenonT(30), <1>1, <1>2, <1>5, ImageKept DEF DataInv
<1>9. Accepted'  BY ZenonT(30), <1>1 DEF DataInv, Accepted
<1> QED  BY ZenonT(30), <1>2, <1>3, <1>4, <1>6, <1>7, <1>8, <1>9 DEF DataInv

(* What a history leaves, as the properties of the store write it.         *)
LEMMA LatestIsLeft ==
  /\ \A k, n : Latest(k, n) = Left(history, k, n)
  /\ \A e : Live(e) = LiveAt(e, now)
BY Zenon DEF Latest, Left, Live, LiveAt, deadlinePassed

(* recoverLog finds the records of the history, whatever the shard count.  *)
LEMMA RecoversExactly ==
  ASSUME Inv, DataInv, CanRecover
  PROVE  RecoveryIsExact
<1>1. RecoveredSequence = Len(history)  BY ZenonT(30), RecoversHistory DEF DataInv
<1>2. ASSUME NEW n \in ShardCounts, NEW k \in Keys
      PROVE  Live(RecoveredImage(n)[k]) = Live(Latest(k, Len(history)))
  <2>1. n \in Nat \ {0}  BY SMTT(30), ConstantsAssumption DEF ShardCounts
  <2>2. LiveAt(RecoveredImage(n)[k], now) = LiveAt(Left(history, k, Len(history)), now)
    BY ZenonT(30), <2>1, RecoveredExact DEF DataInv, DirectoryInv
  <2> QED  BY ZenonT(30), <2>2, LatestIsLeft
<1> QED  BY ZenonT(30), <1>1, <1>2 DEF RecoveryIsExact

-----------------------------------------------------------------------------
(* The theorems.                                                           *)

INSTANCE FiniteSetTheorems

(* There are finitely many keys.                                           *)
LEMMA KeysCount == Counts
<1> SUFFICES ASSUME NEW gone \in SUBSET Keys
             PROVE  Cardinality(gone) \in Nat /\ (gone # {} => Cardinality(gone) # 0)
  BY ZenonT(30) DEF Counts
<1>1. IsFiniteSet(gone)  BY ZenonT(30), ConstantsAssumption, FS_Subset
<1>2. Cardinality(gone) \in Nat  BY ZenonT(30), <1>1, FS_CardinalityType
<1>3. gone # {} => Cardinality(gone) # 0  BY ZenonT(30), <1>1, FS_EmptySet
<1> QED  BY ZenonT(30), <1>2, <1>3

(* The inductive invariant: the directory is a chain that ends where the   *)
(* writer is, through crashes, power losses, failed writes and pruning.    *)
THEOREM Invariance == Spec => []Inv
<1>1. Inv /\ [Next]_vars => Inv'  BY ZenonT(30), NextInv, KeysCount
<1> QED  BY <1>1, InitInv, PTL DEF Spec

(* Every variable stays in its type: TypeOK for all keys, options, limits  *)
(* and faults.                                                             *)
THEOREM TypeCorrectness == Spec => []TypeOK
<1>1. Inv => TypeOK  BY ZenonT(30) DEF Inv
<1> QED  BY <1>1, Invariance, PTL

(* A latched store appends nothing, acknowledges nothing and promises      *)
(* nothing: the writer takes no batch and the ticker syncs nothing once    *)
(* latched, and no failure leaves it in the middle of a batch.             *)
THEOREM LatchIsSilent == Spec => LatchedStoreIsSilent
<1> DEFINE Silent == latched /\ latched' => UNCHANGED <<history, acked, promised>>
<1>1. Inv /\ [Next]_vars => [Silent]_vars
  <2> SUFFICES ASSUME Inv, Next, latched, latched' PROVE UNCHANGED <<history, acked, promised>>
    BY SMTT(30)
  <2> QED  BY ZenonT(30), SilentStep
<1> QED  BY <1>1, Invariance, PTL DEF Spec, LatchedStoreIsSilent

(* A segment is removed only when a snapshot that is on stable storage     *)
(* covers every record in it on every shard: deleteSegmentsBefore runs     *)
(* after the directory sync, and the chain puts the records of a file      *)
(* before the start of the next one.                                       *)
THEOREM PruningIsCovered == Spec => PruneOnlyCovered
<1> DEFINE Covered == \A f \in DOMAIN segments \ DOMAIN segments' :
                        \E name \in DOMAIN stable \cap DOMAIN snapshots :
                          f + Len(segments[f].cells) - 1 <= Lowest(stable[name])
<1>1. Inv /\ [Next]_vars => [Covered]_vars
  <2> SUFFICES ASSUME Inv, Next, NEW f \in DOMAIN segments \ DOMAIN segments'
               PROVE  \E name \in DOMAIN stable \cap DOMAIN snapshots :
                        f + Len(segments[f].cells) - 1 <= Lowest(stable[name])
    BY SMTT(30)
  <2> QED  BY ZenonT(30), CoveredStep
<1> QED  BY <1>1, Invariance, PTL DEF Spec, PruneOnlyCovered

(* The data invariant is inductive: what is stored, captured, installed    *)
(* and remembered stays true to the history through every step.            *)
THEOREM DataInvariance == Spec => []DataInv
<1>1. Inv /\ Inv' /\ DataInv /\ [Next]_vars => DataInv'
  <2> SUFFICES ASSUME Inv, Inv', DataInv, [Next]_vars PROVE DataInv'  BY SMTT(30)
  <2>1. CASE Next
    <3>1. RecordsInv' /\ AnswersInv'  BY ZenonT(30), <2>1, RecordsNext DEF DataInv
    <3>2. NamesInv' /\ CoversInv'  BY ZenonT(30), <2>1, NamesNext DEF DataInv
    <3>3. Continues  BY ZenonT(30), <2>1, StepContinues DEF DataInv
    <3>4. DirectoryInv' /\ MemoryInv' /\ ImageInv'  BY ZenonT(30), <2>1, <3>1, <3>3, KeysCount, DataNext DEF DataInv
    <3> QED  BY ZenonT(30), <2>1, <3>1, <3>2, <3>4, AcceptedNext DEF DataInv
  <2>2. CASE UNCHANGED vars  BY ZenonT(30), <2>2, DataStutters
  <2> QED  BY ZenonT(30), <2>1, <2>2
<1> QED  BY <1>1, InitData, Invariance, PTL DEF Spec

(* A read sees the last applied write of its key or, after an eviction,    *)
(* possibly nothing: applySet, applyDelete, evictions and expiry change    *)
(* memory only in step with the log, and Open rebuilds it from the files.  *)
THEOREM CurrentReads == Spec => []ReadsAreCurrent
<1>1. Inv /\ DataInv => ReadsAreCurrent
  <2> SUFFICES ASSUME Inv, DataInv, status = "up", NEW k \in Keys
               PROVE  \/ Live(entries[k]) = Live(Latest(k, logSequence))
                      \/ entries[k] = NoEntry /\ evictionGeneration # 0
    BY ZenonT(30) DEF ReadsAreCurrent
  <2>1. logSequence = seq  BY ZenonT(30) DEF Inv, WriterInv
  <2>2. Remembered(k)  BY Zenon DEF DataInv, MemoryInv
  <2> QED  BY ZenonT(30), <2>1, <2>2, LatestIsLeft DEF Remembered
<1> QED  BY <1>1, Invariance, DataInvariance, PTL

(* After any crashes and power losses, a directory that Open accepts       *)
(* recovers exactly the records that survived, and what an fsync promised  *)
(* is among them.                                                          *)
THEOREM HonestAfterPowerLoss == Spec => []PowerLossHonest
<1>1. Inv /\ DataInv => PowerLossHonest
  BY ZenonT(30), RecoversExactly DEF DataInv, AnswersInv, PowerLossHonest
<1> QED  BY <1>1, Invariance, DataInvariance, PTL

(* Where only processes die and calls fail, the directory can be opened at *)
(* every moment, recovers exactly the records written, and holds whatever  *)
(* was acknowledged.                                                       *)
THEOREM RecoverableAfterCrash == "power" \notin Faults => (Spec => []CrashRecoverable)
<1> SUFFICES ASSUME "power" \notin Faults PROVE Spec => []CrashRecoverable  BY SMTT(30)
<1>1. Inv /\ DataInv => CrashRecoverable
  <2> SUFFICES ASSUME Inv, DataInv PROVE CrashRecoverable  BY SMTT(30)
  <2>1. CanRecover  BY ZenonT(30), AlwaysRecoverable DEF DataInv, DirectoryInv
  <2>2. RecoveryIsExact  BY ZenonT(30), <2>1, RecoversExactly
  <2> QED  BY ZenonT(30), <2>1, <2>2 DEF DataInv, AnswersInv, Accepted, CrashRecoverable
<1> QED  BY <1>1, Invariance, DataInvariance, PTL

(* Every snapshot installSnapshot has put in place holds what the log left *)
(* at the sequence of each shard, although the shards were captured one by *)
(* one beside the writer, the evictions and the expiry.                    *)
THEOREM TruthfulSnapshots == "power" \notin Faults => (Spec => []InstalledSnapshotsTruthful)
<1> SUFFICES ASSUME "power" \notin Faults PROVE Spec => []InstalledSnapshotsTruthful  OBVIOUS
<1>1. Inv /\ DataInv => InstalledSnapshotsTruthful
  <2> SUFFICES ASSUME Inv, DataInv, NEW name \in DOMAIN snapshots, NEW k \in Keys
               PROVE  LET s == snapshots[name]
                      IN  /\ s.cover[ShardOf(k, s.shards)] <= Len(history)
                          /\ Live(s.image[k]) = Live(Latest(k, s.cover[ShardOf(k, s.shards)]))
    BY ZenonT(30) DEF InstalledSnapshotsTruthful, SnapshotTruthful
  <2> DEFINE s == snapshots[name]
  <2>1. Shaped(s)  BY ZenonT(30), DirectoryShaped
  <2>2. \A j \in DOMAIN s.cover : s.cover[j] <= Len(history)  BY ZenonT(30) DEF DataInv, NamesInv, Within
  <2>3. ShardOf(k, s.shards) \in DOMAIN s.cover  BY ZenonT(30), <2>1, ShapeFacts, ShardFacts DEF Shaped
  <2>4. Truthful(s, history, now)  BY ZenonT(30) DEF DataInv, DirectoryInv, TruthfulIn
  <2>5. LiveAt(s.image[k], now) = LiveAt(Left(history, k, CoverOf(s, k)), now)
    BY ZenonT(30), <2>2, <2>4 DEF Truthful
  <2> QED  BY ZenonT(30), <2>2, <2>3, <2>5, LatestIsLeft DEF CoverOf
<1> QED  BY <1>1, Invariance, DataInvariance, PTL

(* What a successful fsync covered is in the synced part of a segment or   *)
(* under a snapshot that the directory holds for good: rollSegment synced  *)
(* every earlier file, and pruning waited for the directory sync.          *)
THEOREM StableOnceSynced == Spec => []SyncedIsStable
<1>1. Inv /\ DataInv => SyncedIsStable
  <2> SUFFICES ASSUME Inv, DataInv, NEW i \in 1..promised PROVE i \in OnStableStorage
    BY ZenonT(30) DEF SyncedIsStable
  <2>1. RecordsInv /\ AnswersInv /\ NamesInv  BY Zenon DEF DataInv
  <2> QED  BY ZenonT(30), <2>1, PromisedStable
<1> QED  BY <1>1, Invariance, DataInvariance, PTL

(* Seen from its callers the store is a durable map: as long as the power  *)
(* stays on, every step of Open, of the writer, of a snapshot, of Close,   *)
(* of a crash and of the clock is a step of DurableMap or invisible, for   *)
(* any keys, options, limits and other faults.                             *)
THEOREM RefinesDurableMap == "power" \notin Faults => (Spec => ImplementsDurableMap)
<1> SUFFICES ASSUME "power" \notin Faults PROVE Spec => ImplementsDurableMap  BY SMTT(30)
<1>1. Inv /\ DataInv /\ DataInv' /\ [Next]_vars => [Map!Next]_(Map!vars)
  <2> SUFFICES ASSUME Inv, DataInv, DataInv', [Next]_vars PROVE Map!Next \/ UNCHANGED Map!vars  BY SMTT(30)
  <2>1. CASE Next
    <3>1. RecordsInv /\ RecordsInv' /\ AnswersInv /\ NamesInv /\ DirectoryInv  BY ZenonT(30) DEF DataInv
    <3> QED  BY ZenonT(30), <2>1, <3>1, MapNext
  <2>2. CASE UNCHANGED vars
    <3>1. UNCHANGED <<status, entries, latched, logSequence, now, pending, history>>
      BY ZenonT(30), <2>2 DEF vars, memory, writer, callers
    <3> QED  BY ZenonT(30), <3>1, SameVisible, MapStutters
  <2> QED  BY ZenonT(30), <2>1, <2>2
<1> QED  BY <1>1, MapInit, Invariance, DataInvariance, PTL DEF Spec, ImplementsDurableMap, Map!Spec
=============================================================================
