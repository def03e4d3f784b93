--------------------------- MODULE RecoveredData ----------------------------
(***************************************************************************)
(* Replaying the log over a truthful snapshot gives what the history left; *)
(* what memory, the image in progress and the installed snapshots hold is  *)
(* what the history left, step by step.                                    *)
(***************************************************************************)
EXTENDS StoreInvariant

(* Latest and Live with the history and the time they are read at.         *)
Left(H, k, n) ==
  LET writes == {i \in 1..n : H[i].key = k}
  IN  IF writes = {} THEN NoEntry ELSE EntryOf(H[Max(writes)])
LiveAt(e, t) == IF e.deadline # 0 /\ t >= e.deadline THEN NoEntry ELSE e

(* The shard of key k in snapshot s was captured at this sequence.         *)
CoverOf(s, k) == s.cover[ShardOf(k, s.shards)]

(* Snapshot s is what history H left, as far as H goes.                    *)
Truthful(s, H, t) ==
  /\ SnapshotLoads(s)
  /\ (\A j \in DOMAIN s.cover : s.cover[j] <= Len(H)) =>
       \A k \in Keys : LiveAt(s.image[k], t) = LiveAt(Left(H, k, CoverOf(s, k)), t)

-----------------------------------------------------------------------------
(* What a history leaves.                                                  *)

(* The last record of a key decides.                                       *)
LEMMA LeftLast ==
  ASSUME NEW H, NEW k, NEW n \in Nat, NEW m \in 1..n, H[m].key = k,
         \A i \in 1..n : i > m => H[i].key # k
  PROVE  Left(H, k, n) = EntryOf(H[m])
<1> DEFINE W == {i \in 1..n : H[i].key = k}
<1>1. m \in W /\ W # {}  BY Zenon
<1>2. W \subseteq 0..n  OBVIOUS
<1>3. Left(H, k, n) = EntryOf(H[Max(W)])  BY Zenon, <1>1 DEF Left
<1>4. \A i \in W : i \in 1..n /\ ~(i > m)  BY Zenon
<1> HIDE DEF W
<1>5. Max(W) \in W /\ \A y \in W : y <= Max(W)  BY Zenon, <1>1, <1>2, MaxFacts
<1>6. Max(W) \in 1..n /\ ~(Max(W) > m) /\ m <= Max(W)  BY Zenon, <1>1, <1>4, <1>5
<1>7. Max(W) = m  BY <1>6
<1> QED  BY Zenon, <1>3, <1>7

(* A key with no record leaves nothing, and records of other keys change   *)
(* nothing.                                                                *)
LEMMA LeftNone ==
  ASSUME NEW H, NEW k, NEW n \in Nat, NEW c \in 0..n, \A i \in 1..n : i > c => H[i].key # k
  PROVE  Left(H, k, n) = Left(H, k, c)
<1> DEFINE W(x) == {i \in 1..x : H[i].key = k}
<1>1. \A i \in 1..n : ~(i > c) => i \in 1..c  OBVIOUS
<1>2. \A i \in 1..c : i \in 1..n  OBVIOUS
<1>3. W(n) = W(c)  BY Zenon, <1>1, <1>2
<1> QED  BY Zenon, <1>3 DEF Left

(* Only the records up to n decide what the first n leave.                 *)
LEMMA LeftPrefix ==
  ASSUME NEW H, NEW G, NEW k, NEW n \in Nat, \A i \in 1..n : G[i] = H[i]
  PROVE  Left(G, k, n) = Left(H, k, n)
<1> DEFINE W(F) == {i \in 1..n : F[i].key = k}
<1>1. W(G) = W(H)  BY Zenon
<1>2. CASE W(H) = {}  BY Zenon, <1>1, <1>2 DEF Left
<1>3. CASE W(H) # {}
  <2>1. W(H) \subseteq 0..n  OBVIOUS
  <2>2. Max(W(H)) \in W(H)
    <3> HIDE DEF W
    <3> QED  BY Zenon, <1>3, <2>1, MaxFacts
  <2>3. G[Max(W(H))] = H[Max(W(H))]  BY Zenon, <2>2
  <2> QED  BY Zenon, <1>1, <1>3, <2>3 DEF Left
<1> QED  BY Zenon, <1>2, <1>3

(* One record more.                                                        *)
LEMMA LeftNext ==
  ASSUME NEW H, NEW k, NEW n \in Nat
  PROVE  Left(H, k, n + 1) = IF H[n + 1].key = k THEN EntryOf(H[n + 1]) ELSE Left(H, k, n)
<1>1. n + 1 \in Nat /\ n + 1 \in 1..(n + 1) /\ n \in 0..(n + 1)  OBVIOUS
<1>2. \A i \in 1..(n + 1) : ~(i > n + 1) /\ (i > n => i = n + 1)  OBVIOUS
<1>3. CASE H[n + 1].key = k
  <2> DEFINE m == n + 1
  <2>1. m \in Nat /\ m \in 1..m /\ H[m].key = k /\ \A i \in 1..m : i > m => H[i].key # k
    BY Zenon, <1>1, <1>2, <1>3
  <2> HIDE DEF m
  <2>2. Left(H, k, m) = EntryOf(H[m])  BY Zenon, <2>1, LeftLast
  <2> QED  BY Zenon, <1>3, <2>2 DEF m
<1>4. CASE H[n + 1].key # k
  <2>1. \A i \in 1..(n + 1) : i > n => H[i].key # k  BY Zenon, <1>2, <1>4
  <2>2. Left(H, k, n + 1) = Left(H, k, n)  BY Zenon, <1>1, <2>1, LeftNone
  <2> QED  BY Zenon, <1>4, <2>2
<1> QED  BY Zenon, <1>3, <1>4

(* What a record leaves is an entry that carries its sequence, or none.    *)
LEMMA EntryFacts ==
  /\ NoEntry \in Entry /\ NoEntry.seq = 0 /\ NoEntry.deadline = 0
  /\ \A c \in Cell : EntryOf(c) \in Entry /\ EntryOf(c).seq \in {0, c.seq}
<1>1. NoEntry \in Entry /\ NoEntry.seq = 0 /\ NoEntry.deadline = 0
  BY ConstantsAssumption DEF NoEntry, Entry, Sequence, Time
<1>2. ASSUME NEW c \in Cell  PROVE EntryOf(c) \in Entry /\ EntryOf(c).seq \in {0, c.seq}
  <2>1. CASE c.op = "set"
    <3>1. EntryOf(c) = [seq |-> c.seq, deadline |-> c.deadline]  BY Zenon, <2>1 DEF EntryOf
    <3>2. c.seq \in Sequence /\ c.deadline \in Time  BY Zenon DEF Cell
    <3>3. EntryOf(c) \in Entry  BY SMTT(30), <3>1, <3>2 DEF Entry
    <3>4. EntryOf(c).seq = c.seq  BY SMTT(30), <3>1
    <3> QED  BY Zenon, <3>3, <3>4
  <2>2. CASE c.op # "set"
    <3>1. EntryOf(c) = NoEntry  BY Zenon, <2>2 DEF EntryOf
    <3> QED  BY Zenon, <1>1, <3>1
  <2> QED  BY Zenon, <2>1, <2>2
<1> QED  BY Zenon, <1>1, <1>2

(* What a history leaves is an entry no later than the history.            *)
LEMMA LeftType ==
  ASSUME NEW H \in Seq(Cell), Numbers(H), NEW k, NEW n \in 0..Len(H)
  PROVE  Left(H, k, n) \in Entry /\ Left(H, k, n).seq <= n
<1> DEFINE W == {i \in 1..n : H[i].key = k}
<1>1. n \in Nat /\ Len(H) \in Nat /\ 0 <= n  OBVIOUS
<1>2. CASE W = {}
  <2>1. Left(H, k, n) = NoEntry  BY Zenon, <1>2 DEF Left
  <2> QED  BY Zenon, <1>1, <2>1, EntryFacts
<1>3. CASE W # {}
  <2>1. W \subseteq 0..n /\ W \subseteq 1..n  OBVIOUS
  <2>2. Left(H, k, n) = EntryOf(H[Max(W)])  BY Zenon, <1>3 DEF Left
  <2> HIDE DEF W
  <2>3. Max(W) \in 1..n  BY ZenonT(30), <1>1, <1>3, <2>1, MaxFacts
  <2>4. Max(W) \in 1..Len(H) /\ Max(W) <= n  BY SMTT(30), <1>1, <2>3
  <2>5. H[Max(W)] \in Cell  BY SMTT(30), <2>4
  <2>6. H[Max(W)].seq = Max(W)  BY Zenon, <2>4 DEF Numbers
  <2>7. EntryOf(H[Max(W)]).seq <= n
    <3>1. EntryOf(H[Max(W)]).seq \in {0, Max(W)}  BY Zenon, <2>5, <2>6, EntryFacts
    <3> QED  BY Zenon, <1>1, <2>4, <3>1
  <2> QED  BY ZenonT(30), <2>2, <2>5, <2>7, EntryFacts
<1> QED  BY Zenon, <1>2, <1>3

(* Entries that agree now, up to expiry, agree later.                      *)
LEMMA AgreeLater ==
  ASSUME NEW e \in Entry, NEW d \in Entry, NEW t \in Nat, NEW u \in Nat, t <= u,
         LiveAt(e, t) = LiveAt(d, t)
  PROVE  LiveAt(e, u) = LiveAt(d, u)
<1>1. e.deadline \in Nat /\ d.deadline \in Nat  BY SMTT(30), ConstantsAssumption DEF Entry, Time
<1>2. \A x \in Nat : t >= x => u >= x  OBVIOUS
<1>3. NoEntry.deadline = 0  BY Zenon, EntryFacts
<1>4. LiveAt(NoEntry, u) = NoEntry  BY Zenon, <1>3 DEF LiveAt
<1>5. CASE e.deadline # 0 /\ t >= e.deadline
  <2>1. LiveAt(e, t) = NoEntry /\ LiveAt(e, u) = NoEntry  BY Zenon, <1>1, <1>2, <1>5 DEF LiveAt
  <2>2. CASE d.deadline # 0 /\ t >= d.deadline
    <3>1. LiveAt(d, u) = NoEntry  BY Zenon, <1>1, <1>2, <2>2 DEF LiveAt
    <3> QED  BY Zenon, <2>1, <3>1
  <2>3. CASE ~(d.deadline # 0 /\ t >= d.deadline)
    <3>1. LiveAt(d, t) = d  BY Zenon, <2>3 DEF LiveAt
    <3>2. d = NoEntry  BY Zenon, <2>1, <3>1
    <3> QED  BY Zenon, <2>1, <3>2, <1>4
  <2> QED  BY Zenon, <2>2, <2>3
<1>6. CASE ~(e.deadline # 0 /\ t >= e.deadline)
  <2>1. LiveAt(e, t) = e  BY Zenon, <1>6 DEF LiveAt
  <2>2. CASE d.deadline # 0 /\ t >= d.deadline
    <3>1. LiveAt(d, t) = NoEntry /\ LiveAt(d, u) = NoEntry  BY Zenon, <1>1, <1>2, <2>2 DEF LiveAt
    <3>2. e = NoEntry  BY Zenon, <2>1, <3>1
    <3> QED  BY Zenon, <3>1, <3>2, <1>4
  <2>3. CASE ~(d.deadline # 0 /\ t >= d.deadline)
    <3>1. LiveAt(d, t) = d  BY Zenon, <2>3 DEF LiveAt
    <3> QED  BY ZenonT(30), <2>1, <3>1
  <2> QED  BY Zenon, <2>2, <2>3
<1> QED  BY Zenon, <1>5, <1>6

-----------------------------------------------------------------------------
(* Replay.                                                                 *)

(* Replay reads from the last file that starts early enough.               *)
LEMMA StartFacts ==
  ASSUME Inv, NEW s, Shaped(s), DOMAIN segments # {}, Min(DOMAIN segments) <= FirstRequired(s)
  PROVE  /\ StartSegment(s) \in DOMAIN segments /\ StartSegment(s) \in Nat \ {0}
         /\ StartSegment(s) <= Lowest(s) + 1
<1>1. Lowest(s) \in Sequence /\ TypeOK  BY Zenon, ShapeFacts DEF Inv
<1>2. MaxSequence \in Sequence /\ MaxSequence \in Nat \ {0}  BY NoImageType DEF Sequence
<1>3. StartSegment(s) \in DOMAIN segments /\ StartSegment(s) \in 1..MaxSequence
  BY Zenon, <1>1, <1>2, ReplayFacts
<1>4. StartSegment(s) <= FirstRequired(s)
  <2> DEFINE early == {f \in DOMAIN segments : f <= FirstRequired(s)}
  <2>1. DOMAIN segments \subseteq Nat /\ MaxSequence + 1 \in Nat  BY <1>2 DEF Inv, TypeOK, DiskTypeOK
  <2>2. Min(DOMAIN segments) \in DOMAIN segments  BY Zenon, <2>1, MinFacts
  <2>3. early # {}  BY Zenon, <2>2
  <2>4. early \subseteq 0..(MaxSequence + 1)  BY <1>2 DEF Inv, TypeOK, DiskTypeOK
  <2>5. StartSegment(s) = Max(early)  BY Zenon DEF StartSegment
  <2>6. \A f \in early : f <= FirstRequired(s)  BY Zenon
  <2> HIDE DEF early
  <2>7. Max(early) \in early  BY Zenon, <2>1, <2>3, <2>4, MaxFacts
  <2> QED  BY ZenonT(30), <2>5, <2>6, <2>7
<1>5. FirstRequired(s) <= Lowest(s) + 1 /\ FirstRequired(s) \in Nat
  BY SMTT(30), <1>1, <1>2 DEF FirstRequired, Sequence
<1>6. StartSegment(s) \in Nat \ {0} /\ Lowest(s) \in Nat  BY SMTT(30), <1>1, <1>2, <1>3 DEF Sequence
<1> QED  BY SMTT(30), <1>3, <1>4, <1>5, <1>6

(* What replay reads: the records from the start of the first file to the  *)
(* boundary or to the end of the history.                                  *)
LEMMA ReplayedRecords ==
  ASSUME Inv, RecordsInv, NEW s, Shaped(s), DOMAIN segments # {}, Min(DOMAIN segments) <= FirstRequired(s),
         NEW through \in Nat, NEW m \in Nat, m <= Len(history), m <= through, m = Len(history) \/ m = through
  PROVE  /\ \A c \in Replayed(s, through) : c.seq \in StartSegment(s)..m /\ c = history[c.seq]
         /\ \A i \in StartSegment(s)..m : history[i] \in Replayed(s, through) /\ history[i].seq = i
<1> DEFINE start == StartSegment(s)
<1>1. start \in DOMAIN segments /\ start \in Nat \ {0}  BY Zenon, StartFacts
<1>2. /\ Len(history) \in Nat /\ Numbers(history) /\ Holds(segments, history)
      /\ EndsAt(segments, Len(history)) /\ Chain(segments)
  BY Zenon, HistoryFacts DEF RecordsInv, Inv, LogInv
<1>3. \A f : f \in ReplayFiles(s, through) <=> f \in DOMAIN segments /\ start <= f /\ f <= through
  BY Zenon DEF ReplayFiles
<1>4. \A c : c \in Replayed(s, through) <=>
        /\ \E f \in ReplayFiles(s, through) : c \in Range(segments[f].cells)
        /\ c.op # "torn" /\ c.seq <= through
  BY Zenon DEF Replayed
<1> HIDE DEF start
<1>5. ASSUME NEW c \in Replayed(s, through)  PROVE c.seq \in start..m /\ c = history[c.seq]
  <2>1. PICK f \in DOMAIN segments : start <= f /\ c \in Range(segments[f].cells)  BY Zenon, <1>3, <1>4
  <2>2. f \in Nat \ {0} /\ segments[f].cells \in Seq(Cell)  BY Zenon, HistoryFacts
  <2>3. PICK i \in 1..Len(segments[f].cells) : c = segments[f].cells[i]  BY SMTT(30), <2>1, <2>2 DEF Range
  <2>4. c.op # "torn" /\ c.seq <= through  BY Zenon, <1>4
  <2>5. f + i - 1 <= Len(history) /\ c = history[f + i - 1]  BY ZenonT(30), <1>2, <2>3, <2>4 DEF Holds
  <2>6. f + i - 1 \in 1..Len(history) /\ start <= f + i - 1
    <3>1. Len(segments[f].cells) \in Nat /\ i \in Nat \ {0}  BY <2>2
    <3> QED  BY SMTT(30), <1>1, <1>2, <2>1, <2>2, <2>5, <3>1
  <2>7. c.seq = f + i - 1  BY Zenon, <1>2, <2>5, <2>6 DEF Numbers
  <2>8. c.seq \in start..m
    <3>1. c.seq \in Nat /\ start <= c.seq /\ c.seq <= Len(history) /\ c.seq <= through
      BY SMTT(30), <2>4, <2>6, <2>7, <1>1, <1>2
    <3> QED  BY SMTT(30), <3>1, <1>1
  <2> QED  BY ZenonT(30), <2>5, <2>7, <2>8
<1>6. ASSUME NEW i \in start..m  PROVE history[i] \in Replayed(s, through) /\ history[i].seq = i
  <2>1. i \in Nat /\ start <= i /\ i <= m /\ i <= Len(history) /\ i \in 1..Len(history) /\ i <= through
    BY SMTT(30), <1>1, <1>2
  <2>2. PICK g \in DOMAIN segments :
          /\ start <= g /\ g <= i /\ i - g + 1 \in 1..Len(segments[g].cells)
          /\ segments[g].cells[i - g + 1] = history[i] /\ segments[g].cells[i - g + 1].op # "torn"
          /\ IsLast(g, segments) \/ Sealed(segments[g])
    <3>1. /\ start \in DOMAIN segments /\ i \in Nat /\ start <= i /\ i <= Len(history)
          /\ Chain(segments) /\ Holds(segments, history) /\ EndsAt(segments, Len(history)) /\ Len(history) \in Nat
      BY Zenon, <1>1, <1>2, <2>1
    <3> QED  BY SMTT(30), <3>1, Located
  <2>3. g \in Nat \ {0} /\ segments[g].cells \in Seq(Cell)  BY Zenon, HistoryFacts
  <2>4. g <= through  BY SMTT(30), <2>1, <2>2, <2>3
  <2>5. g \in ReplayFiles(s, through)  BY Zenon, <1>3, <2>2, <2>4
  <2>6. history[i] \in Range(segments[g].cells)  BY SMTT(30), <2>2, <2>3 DEF Range
  <2>7. history[i].seq = i /\ history[i].op # "torn"  BY Zenon, <1>2, <2>1 DEF Numbers
  <2>8. history[i].seq <= through  BY Zenon, <2>1, <2>7
  <2> QED  BY ZenonT(30), <1>4, <2>5, <2>6, <2>7, <2>8
<1> QED  BY Zenon, <1>5, <1>6 DEF start

(* Replay over a truthful snapshot gives what the history left, whatever   *)
(* the shard count of the store.                                           *)
LEMMA ReplayExact ==
  ASSUME Inv, RecordsInv, NEW s, Shaped(s), DOMAIN segments # {}, Min(DOMAIN segments) <= FirstRequired(s),
         NEW through \in Nat, NEW m \in Nat, m <= Len(history), m <= through, m = Len(history) \/ m = through,
         NEW t, Truthful(s, history, t), \A j \in DOMAIN s.cover : s.cover[j] <= m,
         NEW n \in Nat \ {0}, NEW k \in Keys
  PROVE  /\ LiveAt(ReplayImage(s, n, through)[k], t) = LiveAt(Left(history, k, m), t)
         /\ ReplayImage(s, n, through)[k].seq <= m
<1> DEFINE start == StartSegment(s)
           cutoff == Cutoff(s, n, k)
           cover == CoverOf(s, k)
           later == {c \in Replayed(s, through) : c.key = k /\ c.seq > cutoff}
<1>1. start \in Nat \ {0} /\ start <= Lowest(s) + 1  BY Zenon, StartFacts
<1>2. /\ \A c \in Replayed(s, through) : c.seq \in start..m /\ c = history[c.seq]
      /\ \A i \in start..m : history[i] \in Replayed(s, through) /\ history[i].seq = i
  BY Zenon, ReplayedRecords
<1>3. /\ Lowest(s) \in Sequence /\ ShardOf(k, s.shards) \in DOMAIN s.cover
      /\ \A i \in DOMAIN s.cover : s.cover[i] \in Sequence /\ Lowest(s) <= s.cover[i]
  BY Zenon, ShapeFacts
<1>4. cutoff \in {Lowest(s), cover}  BY Zenon DEF Cutoff, CoverOf
<1>5. cover \in Nat /\ cover <= m /\ cutoff \in Nat /\ cutoff <= cover /\ start <= cutoff + 1
  <2>1. Sequence \subseteq Nat  BY NoImageType DEF Sequence
  <2>2. cover \in Nat /\ cover <= m /\ Lowest(s) \in Nat /\ Lowest(s) <= cover
    BY Zenon, <2>1, <1>3 DEF CoverOf
  <2> HIDE DEF cover, cutoff, start
  <2> QED  BY SMTT(30), <2>2, <1>1, <1>4
<1>6. ReplayImage(s, n, through)[k] =
        IF later = {} THEN s.image[k] ELSE EntryOf(CHOOSE c \in later : \A d \in later : d.seq <= c.seq)
  BY Zenon DEF ReplayImage
<1>7. \A c \in later : c.seq \in start..m /\ c = history[c.seq] /\ c.key = k /\ c.seq > cutoff
  BY Zenon, <1>2
<1>8. \A i \in 1..m : i > cutoff /\ history[i].key = k => history[i] \in later /\ history[i].seq = i
  <2>1. \A i \in 1..m : i > cutoff => i \in start..m
    <3> HIDE DEF start, cutoff, cover
    <3> QED  BY SMTT(30), <1>1, <1>5
  <2> TAKE i \in 1..m
  <2> HAVE i > cutoff /\ history[i].key = k
  <2>2. history[i] \in Replayed(s, through) /\ history[i].seq = i  BY Zenon, <1>2, <2>1
  <2> QED  BY Zenon, <2>2
<1> HIDE DEF start, cutoff, later
<1>9. CASE later = {}
  <2>1. ReplayImage(s, n, through)[k] = s.image[k]  BY Zenon, <1>6, <1>9
  <2>2. \A i \in 1..m : i > cover => i > cutoff
    <3> HIDE DEF cover
    <3> QED  BY <1>5
  <2>3. \A i \in 1..m : i > cover => history[i].key # k  BY Zenon, <1>8, <1>9, <2>2
  <2>4. Left(history, k, m) = Left(history, k, cover)
    <3>1. cover \in 0..m  BY SMTT(30), <1>5
    <3> HIDE DEF cover
    <3> QED  BY ZenonT(30), <3>1, <2>3, LeftNone
  <2>5. \A j \in DOMAIN s.cover : s.cover[j] <= Len(history)
    <3> TAKE j \in DOMAIN s.cover
    <3>1. s.cover[j] \in Nat /\ s.cover[j] <= m  BY SMTT(30), <1>3, NoImageType DEF Sequence
    <3> QED  BY SMTT(30), <3>1, HistoryFacts
  <2>6. LiveAt(s.image[k], t) = LiveAt(Left(history, k, cover), t)  BY Zenon, <2>5 DEF Truthful
  <2>7. s.image[k].seq <= m
    <3>1. s.image[k].seq <= cover  BY Zenon DEF Truthful, SnapshotLoads, CoverOf
    <3>2. s.image[k] \in Entry  BY Zenon, ShapeFacts
    <3>3. s.image[k].seq \in Nat  BY SMTT(30), <3>2, NoImageType DEF Entry, Sequence
    <3> HIDE DEF cover
    <3> QED  BY SMTT(30), <3>1, <3>3, <1>5
  <2> QED  BY ZenonT(30), <2>1, <2>4, <2>6, <2>7
<1>10. CASE later # {}
  <2> DEFINE last == CHOOSE c \in later : \A d \in later : d.seq <= c.seq
  <2>1. \A c \in later : c.seq \in 0..m  BY SMTT(30), <1>1, <1>7
  <2>2. last \in later /\ \A d \in later : d.seq <= last.seq  BY ZenonT(30), <1>10, <2>1, LatestRecord
  <2>3. ReplayImage(s, n, through)[k] = EntryOf(last)  BY Zenon, <1>6, <1>10
  <2> HIDE DEF last
  <2> DEFINE p == last.seq
  <2>4. last = history[p] /\ last.key = k /\ p \in start..m /\ p > cutoff  BY ZenonT(30), <1>7, <2>2
  <2> HIDE DEF p
  <2>5. p \in 1..m  BY SMTT(30), <1>1, <2>4
  <2>6. \A i \in 1..m : i > p => history[i].key # k
    <3> SUFFICES ASSUME NEW i \in 1..m, i > p, history[i].key = k PROVE FALSE  BY SMTT(30)
    <3>1. i > cutoff
      <4> HIDE DEF cover
      <4> QED  BY SMTT(30), <1>5, <2>4, <2>5
    <3>2. history[i] \in later /\ history[i].seq = i  BY ZenonT(30), <3>1, <1>8
    <3>3. i <= p  BY Zenon, <3>2, <2>2 DEF p
    <3> QED  BY SMTT(30), <3>3, <2>5
  <2>7. Left(history, k, m) = EntryOf(history[p])  BY ZenonT(30), <2>4, <2>5, <2>6, LeftLast
  <2>8. EntryOf(last).seq <= m
    <3>1. p \in 1..Len(history) /\ p <= m /\ 0 <= m  BY <2>5, HistoryFacts
    <3>2. history[p] \in Cell  BY SMTT(30), <3>1, HistoryFacts
    <3>3. EntryOf(last).seq \in {0, last.seq}  BY Zenon, <3>2, <2>4, EntryFacts
    <3>4. EntryOf(last).seq \in {0, p}  BY Zenon, <3>3 DEF p
    <3> QED  BY Zenon, <3>1, <3>4
  <2> QED  BY ZenonT(30), <2>3, <2>4, <2>7, <2>8
<1> QED  BY Zenon, <1>9, <1>10

-----------------------------------------------------------------------------
(* Recovery and rebuild.                                                   *)

TruthfulIn(S) == \A name \in DOMAIN S : Truthful(S[name], history, now)

(* Nothing is left by no records.                                          *)
LEMMA LeftZero ==
  ASSUME NEW H, NEW k
  PROVE  Left(H, k, 0) = NoEntry
<1>1. {i \in 1..0 : H[i].key = k} = {}  OBVIOUS
<1> QED  BY Zenon, <1>1 DEF Left

(* The sequences of the log never pass maxSequence.                        *)
LEMMA HistoryBound ==
  ASSUME Inv, RecordsInv
  PROVE  Len(history) <= MaxSequence
<1>1. history \in Seq(Cell) /\ Len(history) \in Nat  BY Zenon, HistoryFacts
<1>2. CASE Len(history) = 0  BY SMTT(30), <1>2, NoImageType
<1>3. CASE Len(history) # 0
  <2>1. Len(history) \in 1..Len(history)  BY SMTT(30), <1>1, <1>3
  <2>2. history[Len(history)] \in Cell  BY SMTT(30), <1>1, <2>1
  <2>3. history[Len(history)].seq \in Sequence  BY Zenon, <2>2 DEF Cell
  <2>4. history[Len(history)].seq = Len(history)  BY Zenon, <2>1 DEF RecordsInv, Numbers
  <2> QED  BY SMTT(30), <2>3, <2>4, NoImageType DEF Sequence
<1> QED  BY Zenon, <1>2, <1>3

(* The absent snapshot says truthfully that nothing is covered.            *)
LEMMA AbsentTruthful ==
  ASSUME NEW H, NEW t
  PROVE  Truthful(NoSnapshot, H, t) /\ Lowest(NoSnapshot) = 0 /\ Highest(NoSnapshot) = 0
<1>1. NoSnapshot.shards = 1 /\ NoSnapshot.cover = [i \in 0..0 |-> 0] /\ NoSnapshot.image = NoImage
  BY Zenon DEF NoSnapshot
<1>2. 1 \in Nat \ {0} /\ 0..(1 - 1) = 0..0  OBVIOUS
<1>3. \A k \in Keys : ShardOf(k, 1) \in 0..0  BY Zenon, <1>2, ShardFacts
<1>4. \A k \in Keys : CoverOf(NoSnapshot, k) = 0 /\ NoSnapshot.image[k] = NoEntry
  BY Zenon, <1>1, <1>3 DEF CoverOf, NoImage
<1>5. 0 <= 0 /\ NoEntry.seq = 0  BY EntryFacts
<1>6. SnapshotLoads(NoSnapshot)  BY Zenon, <1>4, <1>5 DEF SnapshotLoads, CoverOf
<1>7. \A k \in Keys : Left(H, k, CoverOf(NoSnapshot, k)) = NoEntry  BY Zenon, <1>4, LeftZero
<1>8. Truthful(NoSnapshot, H, t)  BY Zenon, <1>4, <1>6, <1>7 DEF Truthful
<1>9. Range(NoSnapshot.cover) = {0}  BY <1>1 DEF Range
<1>10. Min({0}) \in {0} /\ Max({0}) \in {0}
  <2>1. {0} \subseteq Nat /\ {0} # {} /\ {0} \subseteq 0..0 /\ 0 \in Nat  OBVIOUS
  <2> QED  BY Zenon, <2>1, MinFacts, MaxFacts
<1> QED  BY Zenon, <1>8, <1>9, <1>10 DEF Lowest, Highest

(* The snapshot Open loads is truthful.                                    *)
LEMMA LoadedTruthful ==
  ASSUME Inv, TruthfulIn(snapshots)
  PROVE  Truthful(loadSnapshot, history, now)
<1>1. CASE DOMAIN snapshots = {}
  <2>1. loadSnapshot = NoSnapshot  BY Zenon, <1>1 DEF loadSnapshot
  <2> QED  BY Zenon, <2>1, AbsentTruthful
<1>2. CASE DOMAIN snapshots # {}
  <2>1. \E m \in DOMAIN snapshots : loadSnapshot = snapshots[m]  BY Zenon, <1>2, LoadsGreatest
  <2> QED  BY Zenon, <2>1 DEF TruthfulIn
<1> QED  BY Zenon, <1>1, <1>2

(* What Open recovers is what the history left.                            *)
LEMMA RecoveredExact ==
  ASSUME Inv, RecordsInv, NamesInv, TruthfulIn(snapshots), CanRecover, NEW n \in Nat \ {0}, NEW k \in Keys
  PROVE  /\ LiveAt(RecoveredImage(n)[k], now) = LiveAt(Left(history, k, Len(history)), now)
         /\ RecoveredImage(n)[k].seq <= Len(history)
<1>1. /\ Len(history) \in Nat /\ MaxSequence \in Nat
      /\ Len(history) <= MaxSequence /\ Len(history) <= Len(history)
  BY SMTT(30), HistoryFacts, HistoryBound, NoImageType
<1>2. CASE DOMAIN segments = {}
  <2>1. history = <<>> /\ loadSnapshot = NoSnapshot  BY Zenon, <1>2 DEF RecordsInv, loadSnapshot
  <2>2. Len(history) = 0 /\ 0 <= 0  BY <2>1
  <2>3. RecoveredImage(n) = NoImage  BY Zenon, <1>2, <2>1 DEF RecoveredImage, NoSnapshot
  <2>4. RecoveredImage(n)[k] = NoEntry  BY Zenon, <2>3 DEF NoImage
  <2>5. Left(history, k, Len(history)) = NoEntry  BY Zenon, <2>2, LeftZero
  <2>6. NoEntry.seq <= Len(history)  BY Zenon, <2>2, EntryFacts
  <2> QED  BY Zenon, <2>4, <2>5, <2>6
<1>3. CASE DOMAIN segments # {}
  <2> DEFINE s == loadSnapshot
             m == Len(history)
  <2>1. RecoveredImage(n) = ReplayImage(s, n, MaxSequence)  BY Zenon, <1>3 DEF RecoveredImage
  <2>2. Shaped(s) /\ Min(DOMAIN segments) <= FirstRequired(s) /\ Truthful(s, history, now)
    BY ZenonT(30), <1>3, DirectoryShaped, LoadedTruthful DEF CanRecover, ScansLog
  <2>3. \A j \in DOMAIN s.cover : s.cover[j] <= m
    <3>1. Highest(s) <= m  BY Zenon, RecoverableWithin
    <3>2. Highest(s) \in Sequence /\ \A j \in DOMAIN s.cover : s.cover[j] \in Sequence /\ s.cover[j] <= Highest(s)
      BY Zenon, <2>2, ShapeFacts
    <3> HIDE DEF s
    <3> TAKE j \in DOMAIN s.cover
    <3>3. s.cover[j] \in Nat /\ s.cover[j] <= Highest(s) /\ Highest(s) \in Nat
      BY SMTT(30), <3>2, NoImageType DEF Sequence
    <3> QED  BY SMTT(30), <3>1, <3>3, <1>1
  <2> HIDE DEF s
  <2>4. /\ LiveAt(ReplayImage(s, n, MaxSequence)[k], now) = LiveAt(Left(history, k, m), now)
        /\ ReplayImage(s, n, MaxSequence)[k].seq <= m
    BY Zenon, <1>1, <1>3, <2>2, <2>3, ReplayExact
  <2> QED  BY Zenon, <2>1, <2>4
<1> QED  BY Zenon, <1>2, <1>3

(* What the snapshot of an evicting store rebuilds is what the history left*)
(* at the sequence it stops at.                                            *)
LEMMA RebuiltExact ==
  ASSUME Inv, RecordsInv, NamesInv, TruthfulIn(snapshots), NEW through \in Nat, through <= Len(history),
         DOMAIN segments # {}, CanRebuild(through), NEW n \in Nat \ {0}, NEW k \in Keys
  PROVE  /\ LiveAt(RebuiltImage(n, through)[k], now) = LiveAt(Left(history, k, through), now)
         /\ RebuiltImage(n, through)[k].seq <= through
<1> DEFINE s == loadSnapshot
<1>1. Shaped(s) /\ Truthful(s, history, now) /\ SnapshotLoads(s) /\ Highest(s) <= through
  BY Zenon, DirectoryShaped, LoadedTruthful DEF CanRebuild
<1>2. /\ Highest(s) \in Nat /\ Lowest(s) \in Nat /\ Lowest(s) <= CoverOf(s, k)
      /\ \A j \in DOMAIN s.cover : s.cover[j] \in Nat /\ s.cover[j] <= Highest(s)
      /\ CoverOf(s, k) \in Nat /\ CoverOf(s, k) <= Highest(s)
  <2>1. Sequence \subseteq Nat  BY SMTT(30), NoImageType DEF Sequence
  <2> QED  BY ZenonT(30), <2>1, <1>1, ShapeFacts DEF CoverOf
<1>3. \A j \in DOMAIN s.cover : s.cover[j] <= through /\ s.cover[j] <= Len(history)
  <2> HIDE DEF s
  <2>1. Len(history) \in Nat  BY Zenon, HistoryFacts
  <2> QED  BY SMTT(30), <1>1, <1>2, <2>1
<1>4. CASE DOMAIN snapshots # {} /\ CoveredBySnapshot(through)
  <2>1. RebuiltImage(n, through) = s.image  BY Zenon, <1>4 DEF RebuiltImage
  <2>2. Highest(s) = through /\ \A f \in DOMAIN segments : f > through  BY Zenon, <1>4 DEF CoveredBySnapshot
  <2>3. \A f \in DOMAIN segments : f \in Nat  BY Zenon, HistoryFacts
  <2>4. ASSUME NEW name \in DOMAIN snapshots, NEW f \in DOMAIN segments, f <= name  PROVE FALSE
    <3>1. PICK g \in DOMAIN snapshots : s = snapshots[g] /\ \A a \in DOMAIN snapshots : a <= g
      BY Zenon, <1>4, LoadsGreatest
    <3>2. Lowest(s) = g /\ name <= g /\ name \in Nat /\ g \in Nat
      BY Zenon, <3>1, DirectoryShaped DEF NamesInv, Ordered
    <3>3. f > through  BY Zenon, <2>2
    <3> HIDE DEF s
    <3> QED  BY SMTT(30), <2>2, <2>3, <2>4, <3>2, <3>3, <1>2
  <2>5. 1 \in DOMAIN segments  BY Zenon, <2>4 DEF NamesInv, PrunedCovered
  <2>6. 1 > through  BY ZenonT(30), <2>2, <2>5
  <2>7. through = 0 /\ CoverOf(s, k) = 0
    <3> HIDE DEF s
    <3> QED  BY SMTT(30), <1>2, <2>2, <2>6
  <2>8. LiveAt(s.image[k], now) = LiveAt(Left(history, k, CoverOf(s, k)), now)
    BY Zenon, <1>1, <1>3 DEF Truthful
  <2>9. s.image[k].seq <= CoverOf(s, k)  BY Zenon, <1>1 DEF SnapshotLoads, CoverOf
  <2> QED  BY Zenon, <2>1, <2>7, <2>8, <2>9
<1>5. CASE ~(DOMAIN snapshots # {} /\ CoveredBySnapshot(through))
  <2>1. RebuiltImage(n, through) = ReplayImage(s, n, through)  BY Zenon, <1>5 DEF RebuiltImage
  <2>2. Min(DOMAIN segments) <= FirstRequired(s)  BY Zenon, <1>5 DEF CanRebuild
  <2>3. through <= through  OBVIOUS
  <2> HIDE DEF s
  <2>4. /\ LiveAt(ReplayImage(s, n, through)[k], now) = LiveAt(Left(history, k, through), now)
        /\ ReplayImage(s, n, through)[k].seq <= through
    BY ZenonT(30), <1>1, <1>3, <2>2, <2>3, ReplayExact
  <2> QED  BY Zenon, <2>1, <2>4
<1> QED  BY ZenonT(30), <1>4, <1>5

(* Unless a power loss can take a snapshot or a record away, the directory *)
(* is always one that recoverLog accepts.                                  *)
LEMMA AlwaysRecoverable ==
  ASSUME Inv, RecordsInv, NamesInv, TruthfulIn(snapshots), "power" \notin Faults
  PROVE  CanRecover
<1> DEFINE s == loadSnapshot
<1>1. Shaped(s) /\ SnapshotLoads(s)  BY Zenon, DirectoryShaped, LoadedTruthful DEF Truthful
<1>2. MaxSequence \in Nat \ {0} /\ Lowest(s) \in 0..MaxSequence /\ Highest(s) \in 0..MaxSequence
  BY ZenonT(30), <1>1, ShapeFacts, NoImageType DEF Sequence
<1>3. CASE DOMAIN segments = {}
  <2>1. s = NoSnapshot  BY Zenon, <1>3 DEF RecordsInv, loadSnapshot
  <2>2. Lowest(s) = 0 /\ Highest(s) = 0  BY Zenon, <2>1, AbsentTruthful
  <2>3. MaxSequence # 0  BY Zenon, <1>2
  <2> QED  BY ZenonT(30), <1>1, <1>3, <2>2, <2>3 DEF CanRecover
<1>4. CASE DOMAIN segments # {}
  <2>1. \A f \in DOMAIN segments : f \in Nat \ {0} /\ segments[f].cells \in Seq(Cell)
                                   /\ Len(segments[f].cells) \in Nat /\ Numbered(f, segments[f].cells)
    BY Zenon, HistoryFacts
  <2>2. Min(DOMAIN segments) \in DOMAIN segments /\ \A f \in DOMAIN segments : Min(DOMAIN segments) <= f
    <3>1. DOMAIN segments \subseteq Nat  BY Zenon, <2>1
    <3> QED  BY Zenon, <1>4, <3>1, MinFacts
  <2>3. Min(DOMAIN segments) <= FirstRequired(s)
    <3>1. FirstRequired(s) \in Nat \ {0} /\ Lowest(s) <= FirstRequired(s)
      <4> HIDE DEF s
      <4> QED  BY SMTT(30), <1>2 DEF FirstRequired
    <3>2. CASE 1 \in DOMAIN segments
      <4>1. Min(DOMAIN segments) <= 1 /\ Min(DOMAIN segments) \in Nat  BY Zenon, <2>1, <2>2, <3>2
      <4> HIDE DEF s
      <4> QED  BY SMTT(30), <4>1, <3>1
    <3>3. ASSUME NEW name \in DOMAIN snapshots, NEW f \in DOMAIN segments, f <= name
          PROVE  Min(DOMAIN segments) <= FirstRequired(s)
      <4>1. PICK g \in DOMAIN snapshots : s = snapshots[g] /\ \A a \in DOMAIN snapshots : a <= g
        BY Zenon, LoadsGreatest
      <4>2. Lowest(s) = g /\ name <= g /\ name \in Nat /\ g \in Nat
        BY Zenon, <4>1, DirectoryShaped DEF NamesInv, Ordered
      <4>3. Min(DOMAIN segments) <= f /\ Min(DOMAIN segments) \in Nat /\ f \in Nat  BY Zenon, <2>1, <2>2
      <4> HIDE DEF s
      <4> QED  BY SMTT(30), <4>2, <4>3, <3>1, <3>3
    <3> QED  BY Zenon, <1>4, <3>2, <3>3 DEF NamesInv, PrunedCovered
  <2>4. Linked(segments)  BY Zenon DEF Inv, LogInv, Chain
  <2>5. LastSegment \in DOMAIN segments /\ \A f \in DOMAIN segments : f <= LastSegment
    <3>1. DOMAIN segments \subseteq 0..(MaxSequence + 1) /\ MaxSequence + 1 \in Nat
      BY SMTT(30), NoImageType DEF Inv, TypeOK, DiskTypeOK
    <3> QED  BY Zenon, <1>4, <3>1, MaxFacts DEF LastSegment
  <2>6. ASSUME NEW f \in DOMAIN segments  PROVE recoverSegment(f, f = LastSegment, MaxSequence)
    <3> DEFINE cells == segments[f].cells
    <3>1. DOMAIN cells = 1..Len(cells)  BY <2>1
    <3>2. \A i \in DOMAIN cells : \/ cells[i].op # "torn" /\ cells[i].seq = f + i - 1
                                  \/ cells[i].op = "torn" /\ i = Len(cells)
      BY Zenon, <2>1, <3>1 DEF Numbered
    <3>3. \A i \in DOMAIN cells : cells[i].op = "torn" => f = LastSegment
      <4>1. CASE f = LastSegment  BY Zenon, <4>1
      <4>2. CASE f # LastSegment
        <5>1. f < LastSegment  BY SMTT(30), <2>1, <2>5, <4>2
        <5> QED  BY ZenonT(30), <5>1, <2>4, <2>5 DEF Linked, Sealed, Whole
      <4> QED  BY ZenonT(30), <4>1, <4>2
    <3> QED  BY ZenonT(30), <3>2, <3>3 DEF recoverSegment
  <2> DEFINE start == StartSegment(s)
  <2>7. start \in DOMAIN segments  BY ZenonT(30), <1>1, <1>4, <2>3, StartFacts
  <2>8. \A f : f \in ReplayFiles(s, MaxSequence) <=> f \in DOMAIN segments /\ start <= f /\ f <= MaxSequence
    BY Zenon DEF ReplayFiles
  <2>9. Chained(s, MaxSequence)
    <3> SUFFICES ASSUME NEW f \in ReplayFiles(s, MaxSequence), f # start
                 PROVE  \E g \in ReplayFiles(s, MaxSequence) : g < f /\ g + Len(segments[g].cells) = f
      BY Zenon DEF Chained
    <3>1. f \in DOMAIN segments /\ start <= f /\ f <= MaxSequence  BY Zenon, <2>8
    <3> HIDE DEF start
    <3>2. start < f  BY SMTT(30), <2>1, <2>7, <3>1
    <3>3. PICK g \in DOMAIN segments : g < f /\ g + Len(segments[g].cells) = f
      BY ZenonT(30), <2>4, <2>7, <3>1, <3>2 DEF Linked
    <3>4. start <= g
      <4> SUFFICES ASSUME g < start PROVE FALSE  BY SMTT(30), <2>1, <2>7, <3>3
      <4>1. g + Len(segments[g].cells) <= start  BY ZenonT(30), <2>4, <2>7 DEF Linked
      <4> QED  BY SMTT(30), <2>1, <2>7, <3>2, <3>3, <4>1
    <3>5. g <= MaxSequence  BY SMTT(30), <2>1, <1>2, <3>1, <3>3
    <3> QED  BY ZenonT(30), <2>8, <3>3, <3>4, <3>5
  <2>10. LastReplayed(s, MaxSequence) >= Highest(s)
    <3> DEFINE seqs == {start - 1} \cup {c.seq : c \in Replayed(s, MaxSequence)}
    <3>1. /\ Len(history) \in Nat /\ Len(history) <= MaxSequence /\ MaxSequence \in Nat
          /\ Len(history) <= Len(history)
      BY SMTT(30), HistoryFacts, HistoryBound, NoImageType
    <3>2. /\ \A c \in Replayed(s, MaxSequence) : c.seq \in start..Len(history)
          /\ \A i \in start..Len(history) : history[i] \in Replayed(s, MaxSequence) /\ history[i].seq = i
      BY ZenonT(30), <1>1, <1>4, <2>3, <3>1, ReplayedRecords
    <3>3. start \in Nat \ {0} /\ start <= MaxSequence + 1
      BY SMTT(30), <2>7, NoImageType DEF Inv, TypeOK, DiskTypeOK
    <3>4. start - 1 \in seqs /\ \A i \in start..Len(history) : i \in seqs
      <4>1. start - 1 \in seqs  BY Zenon
      <4>2. ASSUME NEW i \in start..Len(history)  PROVE i \in seqs
        <5>1. history[i] \in Replayed(s, MaxSequence) /\ history[i].seq = i  BY Zenon, <3>2
        <5> QED  BY Zenon, <5>1
      <4> QED  BY Zenon, <4>1, <4>2
    <3>5. seqs \subseteq 0..MaxSequence
      <4>1. start - 1 \in 0..MaxSequence /\ start..Len(history) \subseteq 0..MaxSequence
        <5> HIDE DEF start
        <5> QED  BY SMTT(30), <3>1, <3>3
      <4> QED  BY ZenonT(30), <3>2, <4>1
    <3>6. LastReplayed(s, MaxSequence) = Max(seqs)  BY Zenon DEF LastReplayed
    <3> HIDE DEF seqs
    <3>7. Max(seqs) \in seqs /\ \A x \in seqs : x <= Max(seqs)  BY ZenonT(30), <3>1, <3>4, <3>5, MaxFacts
    <3>8. Len(history) <= Max(seqs) /\ Max(seqs) \in Nat
      <4> HIDE DEF start, s
      <4>0. Max(seqs) \in 0..MaxSequence /\ start - 1 <= Max(seqs)  BY ZenonT(30), <3>4, <3>5, <3>7
      <4>1. Max(seqs) \in Nat /\ start - 1 <= Max(seqs)  BY SMTT(30), <4>0
      <4>2. \A i \in start..Len(history) : i <= Max(seqs)  BY ZenonT(30), <3>4, <3>7
      <4>3. CASE Len(history) < start  BY SMTT(30), <4>1, <4>3, <3>1, <3>3
      <4>4. CASE ~(Len(history) < start)
        <5>1. Len(history) \in start..Len(history)  BY SMTT(30), <4>4, <3>1, <3>3
        <5> QED  BY ZenonT(30), <5>1, <4>1, <4>2
      <4> QED  BY Zenon, <4>3, <4>4
    <3>9. Highest(s) <= Len(history)
      <4>1. CASE DOMAIN snapshots = {}
        <5>1. s = NoSnapshot  BY ZenonT(30), <4>1 DEF loadSnapshot
        <5>2. Highest(s) = 0 /\ 0 <= Len(history)  BY SMTT(30), <5>1, <3>1, AbsentTruthful
        <5> QED  BY Zenon, <5>2
      <4>2. CASE DOMAIN snapshots # {}
        <5>1. PICK g \in DOMAIN snapshots : s = snapshots[g]  BY Zenon, <4>2, LoadsGreatest
        <5>2. \A j \in DOMAIN s.cover : s.cover[j] <= Len(history)  BY Zenon, <5>1 DEF NamesInv, Within
        <5>3. Highest(s) \in Range(s.cover)
          <6>1. Range(s.cover) \subseteq 0..MaxSequence /\ Range(s.cover) # {}
            <7>1. DOMAIN s.cover # {} /\ \A j \in DOMAIN s.cover : s.cover[j] \in 0..MaxSequence
              BY ZenonT(30), <1>1, ShapeFacts DEF Sequence
            <7> QED  BY Zenon, <7>1 DEF Range
          <6> QED  BY ZenonT(30), <6>1, <3>1, MaxFacts DEF Highest
        <5> QED  BY ZenonT(30), <5>2, <5>3 DEF Range
      <4> QED  BY ZenonT(30), <4>1, <4>2
    <3> HIDE DEF s
    <3>10. Max(seqs) >= Highest(s)  BY SMTT(30), <3>1, <3>8, <3>9, <1>2
    <3> QED  BY ZenonT(30), <3>6, <3>10
  <2>11. \A f \in ReplayFiles(s, MaxSequence) : recoverSegment(f, f = LastSegment, MaxSequence)
    BY Zenon, <2>6, <2>8
  <2> QED  BY ZenonT(30), <1>1, <1>4, <2>3, <2>9, <2>10, <2>11 DEF CanRecover, ScansLog
<1> QED  BY Zenon, <1>3, <1>4

-----------------------------------------------------------------------------
(* What memory and the image in progress hold.                             *)

(* Memory holds what the applied records left under key k or, after an     *)
(* eviction, possibly nothing.                                             *)
Remembered(k) ==
  /\ entries[k].seq <= seq
  /\ \/ LiveAt(entries[k], now) = LiveAt(Left(history, k, seq), now)
     \/ entries[k] = NoEntry /\ evictionGeneration # 0
MemoryInv == status = "up" => \A k \in Keys : Remembered(k)

(* So does the image in progress at the sequence of the shard, unless an   *)
(* eviction has overtaken an image of memory.                              *)
Captured(k) ==
  LET n == snapCover[ShardOf(k, shards)]
  IN  /\ snapImage[k].seq <= n
      /\ \/ LiveAt(snapImage[k], now) = LiveAt(Left(history, k, n), now)
         \/ snapMode = "memory" /\ evictionGeneration # 0

ImageInv ==
  /\ snapPC # "idle" /\ snapMode = "memory" => snapGeneration = 0
  /\ snapPC = "capture" => snapMode = "memory" /\ snapNext < shards
  /\ snapPC = "rebuild" => snapMode = "durable" /\ \A j \in 0..(shards - 1) : snapCover[j] = snapThrough
  /\ \A k \in Keys :
       snapPC = "ready" \/ (snapPC = "capture" /\ ShardOf(k, shards) < snapNext) => Captured(k)

DirectoryInv == TruthfulIn(snapshots) /\ TruthfulIn(stable)

-----------------------------------------------------------------------------
(* What goes on is not contradicted.                                       *)

(* What the first records left is what they leave.                         *)
LEMMA LeftGoesOn ==
  ASSUME Inv, RecordsInv, Continues, NEW k, NEW n \in Nat, n <= Len(history), n <= Len(history'),
         NEW e \in Entry, LiveAt(e, now) = LiveAt(Left(history, k, n), now)
  PROVE  LiveAt(e, now') = LiveAt(Left(history', k, n), now')
<1>1. history \in Seq(Cell) /\ Len(history) \in Nat /\ Numbers(history)
  BY ZenonT(30), HistoryFacts DEF RecordsInv
<1>2. Len(history') \in Nat  BY DEF Continues
<1>3. \A i \in 1..n : i \in 1..Len(history') /\ i <= Len(history)  BY SMTT(30), <1>1, <1>2
<1>4. \A i \in 1..n : history'[i] = history[i]  BY Zenon, <1>3 DEF Continues
<1>5. Left(history', k, n) = Left(history, k, n)  BY ZenonT(40), <1>4, LeftPrefix
<1>6. n \in 0..Len(history)  BY <1>1
<1>7. Left(history, k, n) \in Entry  BY Zenon, <1>1, <1>6, LeftType
<1>8. LiveAt(e, now') = LiveAt(Left(history, k, n), now')  BY Zenon, <1>7, AgreeLater DEF Continues
<1> QED  BY ZenonT(30), <1>5, <1>8

(* A truthful snapshot stays one: a running process only appends past what *)
(* its snapshots cover, and a power loss makes no snapshot cover less.     *)
LEMMA TruthGoesOn ==
  ASSUME Inv, RecordsInv, AnswersInv, Continues, NEW S,
         \A name \in DOMAIN S : Shaped(S[name]), TruthfulIn(S), status = "up" => Within(S, seq)
  PROVE  \A name \in DOMAIN S : Truthful(S[name], history', now')
<1> SUFFICES ASSUME NEW name \in DOMAIN S PROVE Truthful(S[name], history', now')  OBVIOUS
<1> DEFINE s == S[name]
<1>1. Shaped(s) /\ Truthful(s, history, now)  BY Zenon DEF TruthfulIn
<1>2. Len(history) \in Nat /\ seq \in Nat  BY Zenon, HistoryFacts
<1>3. Len(history') \in Nat  BY DEF Continues
<1>4. \A j \in DOMAIN s.cover : s.cover[j] \in Nat
  <2>1. Sequence \subseteq Nat  BY SMTT(30), NoImageType DEF Sequence
  <2> QED  BY ZenonT(30), <2>1, <1>1, ShapeFacts
<1> SUFFICES ASSUME \A j \in DOMAIN s.cover : s.cover[j] <= Len(history'), NEW k \in Keys
             PROVE  LiveAt(s.image[k], now') = LiveAt(Left(history', k, CoverOf(s, k)), now')
  BY Zenon, <1>1 DEF Truthful
<1>5. \A j \in DOMAIN s.cover : s.cover[j] <= Len(history)
  <2> TAKE j \in DOMAIN s.cover
  <2>1. s.cover[j] \in Nat /\ s.cover[j] <= Len(history')  BY ZenonT(30), <1>4
  <2>2. CASE status = "up"
    <3>1. s.cover[j] <= seq /\ seq + Len(pending) <= Len(history) /\ Len(pending) \in Nat
      BY ZenonT(30), <2>2, HistoryFacts DEF Within, AnswersInv
    <3> HIDE DEF s
    <3> QED  BY SMTT(30), <3>1, <2>1, <1>2
  <2>3. CASE Len(history') <= Len(history)
    <3> HIDE DEF s
    <3> QED  BY SMTT(30), <2>1, <2>3, <1>2, <1>3
  <2> QED  BY ZenonT(30), <2>2, <2>3 DEF Continues
<1>6. /\ CoverOf(s, k) \in Nat /\ CoverOf(s, k) <= Len(history) /\ CoverOf(s, k) <= Len(history')
      /\ s.image[k] \in Entry
  BY ZenonT(30), <1>1, <1>4, <1>5, ShapeFacts DEF CoverOf
<1>7. LiveAt(s.image[k], now) = LiveAt(Left(history, k, CoverOf(s, k)), now)
  BY Zenon, <1>1, <1>5 DEF Truthful
<1> HIDE DEF s
<1> QED  BY Zenon, <1>6, <1>7, LeftGoesOn

(* The installed snapshots stay truthful.                                  *)
LEMMA DirectoryGoesOn ==
  ASSUME Inv, RecordsInv, AnswersInv, NamesInv, DirectoryInv, Continues
  PROVE  /\ \A name \in DOMAIN snapshots : Truthful(snapshots[name], history', now')
         /\ \A name \in DOMAIN stable : Truthful(stable[name], history', now')
<1>1. status = "up" => Within(snapshots, seq) /\ Within(stable, seq)  BY Zenon DEF NamesInv
<1>2. TruthfulIn(snapshots) /\ TruthfulIn(stable)  BY Zenon DEF DirectoryInv
<1> QED  BY ZenonT(30), <1>1, <1>2, DirectoryShaped, TruthGoesOn

(* A step that leaves the records memory is about alone, or removes an     *)
(* entry that has expired.                                                 *)
LEMMA MemoryKept ==
  ASSUME Inv, RecordsInv, AnswersInv, AnswersInv', Inv', MemoryInv, Continues,
         status' = "up" => status = "up" /\ UNCHANGED <<seq, evictionGeneration>>,
         \A k \in Keys : entries'[k] = entries[k] \/ (entries'[k] = NoEntry /\ LiveAt(entries[k], now) = NoEntry)
  PROVE  MemoryInv'
<1> SUFFICES ASSUME status' = "up", NEW k \in Keys PROVE Remembered(k)'  BY Zenon DEF MemoryInv
<1>1. status = "up" /\ seq' = seq /\ evictionGeneration' = evictionGeneration /\ Remembered(k)
  BY Zenon DEF MemoryInv
<1>2. seq \in Nat /\ Len(history) \in Nat /\ Len(pending) \in Nat /\ seq + Len(pending) <= Len(history)
  BY ZenonT(30), <1>1, HistoryFacts DEF AnswersInv
<1>3. seq' + Len(pending') <= Len(history')  BY ZenonT(30) DEF AnswersInv
<1>4. Len(pending') \in Nat /\ Len(history') \in Nat  BY SMTT(30) DEF Inv, TypeOK, ProcessTypeOK, CallersTypeOK
<1>5. seq <= Len(history) /\ seq <= Len(history')  BY SMTT(30), <1>1, <1>2, <1>3, <1>4
<1>6. entries[k] \in Entry /\ 0 <= seq  BY SMTT(30), <1>2 DEF Inv, TypeOK, ProcessTypeOK, Image
<1>7. NoEntry \in Entry /\ LiveAt(NoEntry, now) = NoEntry /\ NoEntry.seq = 0
  BY Zenon, EntryFacts DEF LiveAt
<1>8. /\ entries'[k] \in Entry /\ entries'[k].seq <= seq
      /\ LiveAt(entries'[k], now) = LiveAt(entries[k], now)
      /\ entries[k] = NoEntry => entries'[k] = NoEntry
  <2>1. CASE entries'[k] = entries[k]  BY ZenonT(30), <2>1, <1>1, <1>6 DEF Remembered
  <2>2. CASE entries'[k] = NoEntry /\ LiveAt(entries[k], now) = NoEntry  BY ZenonT(30), <2>2, <1>6, <1>7
  <2> QED  BY ZenonT(30), <2>1, <2>2
<1>9. CASE LiveAt(entries[k], now) = LiveAt(Left(history, k, seq), now)
  <2>1. LiveAt(entries'[k], now) = LiveAt(Left(history, k, seq), now)  BY ZenonT(30), <1>8, <1>9
  <2>2. LiveAt(entries'[k], now') = LiveAt(Left(history', k, seq), now')
    BY Zenon, <2>1, <1>2, <1>5, <1>8, LeftGoesOn
  <2> QED  BY ZenonT(30), <1>1, <1>8, <2>2 DEF Remembered
<1>10. CASE entries[k] = NoEntry /\ evictionGeneration # 0
  BY ZenonT(30), <1>1, <1>8, <1>10 DEF Remembered
<1> QED  BY ZenonT(30), <1>1, <1>9, <1>10 DEF Remembered

-----------------------------------------------------------------------------
(* The image in progress.                                                  *)

(* A shard of the image is captured at a sequence the history has reached. *)
LEMMA CapturedShard ==
  ASSUME Inv, AnswersInv, snapPC # "idle", NEW k \in Keys
  PROVE  /\ status = "up" /\ ShardOf(k, shards) \in 0..(shards - 1) /\ shards \in Nat \ {0}
         /\ snapCover[ShardOf(k, shards)] \in Nat
         /\ snapCover[ShardOf(k, shards)] <= seq /\ snapCover[ShardOf(k, shards)] <= Len(history)
<1>1. /\ status = "up" /\ shards \in Nat \ {0} /\ snapCover \in [0..(shards - 1) -> Sequence]
      /\ \A i \in 0..(shards - 1) : snapCover[i] <= seq
  BY Zenon, UpFacts DEF Inv, SnapInv, TypeOK, ProcessTypeOK, SnapshotTypeOK
<1>2. ShardOf(k, shards) \in 0..(shards - 1)  BY Zenon, <1>1, ShardFacts
<1> DEFINE n == snapCover[ShardOf(k, shards)]
<1>3. n \in Sequence /\ n <= seq  BY Zenon, <1>1, <1>2
<1>4. seq \in Nat /\ Len(history) \in Nat /\ Len(pending) \in Nat /\ seq + Len(pending) <= Len(history)
  BY ZenonT(30), <1>1, HistoryFacts DEF AnswersInv
<1> HIDE DEF n
<1>5. n \in Nat /\ n <= Len(history)  BY SMTT(30), <1>3, <1>4, NoImageType DEF Sequence
<1> QED  BY ZenonT(30), <1>1, <1>2, <1>3, <1>5 DEF n

(* A captured shard stays what the history left at its sequence.           *)
LEMMA CapturedKept ==
  ASSUME Inv, Inv', RecordsInv, AnswersInv, AnswersInv', Continues, snapPC # "idle", snapPC' # "idle",
         evictionGeneration # 0 => evictionGeneration' # 0, NEW k \in Keys, Captured(k),
         UNCHANGED <<shards, snapMode>>, snapImage'[k] = snapImage[k],
         snapCover'[ShardOf(k, shards)] = snapCover[ShardOf(k, shards)]
  PROVE  Captured(k)'
<1> DEFINE n == snapCover[ShardOf(k, shards)]
<1>1. n \in Nat /\ n <= Len(history)  BY Zenon, CapturedShard
<1>2. /\ snapCover'[ShardOf(k, shards')] = n /\ snapMode' = snapMode  BY Zenon
<1>3. n <= Len(history')
  <2>1. status' = "up" /\ shards' \in Nat \ {0}
        /\ \A i \in 0..(shards' - 1) : snapCover'[i] <= seq'
    BY Zenon DEF Inv, WriterInv, SnapInv, TypeOK, ProcessTypeOK
  <2>2. ShardOf(k, shards') \in 0..(shards' - 1)  BY ZenonT(30), <2>1, ShardFacts
  <2>3. n <= seq'  BY ZenonT(30), <1>2, <2>1, <2>2
  <2>4. seq' + Len(pending') <= Len(history')  BY ZenonT(30), <2>1 DEF AnswersInv
  <2>5. Len(pending') \in Nat /\ Len(history') \in Nat /\ seq' \in Nat
    <3>1. pending' \in Seq(Cell) /\ history' \in Seq(Cell) /\ seq' \in Sequence
      BY Zenon DEF Inv, TypeOK, ProcessTypeOK, CallersTypeOK
    <3> QED  BY SMTT(30), <3>1, NoImageType DEF Sequence
  <2> HIDE DEF n
  <2> QED  BY SMTT(30), <1>1, <2>3, <2>4, <2>5
<1>4. snapImage[k] \in Entry  BY Zenon DEF Inv, TypeOK, SnapshotTypeOK, Image
<1>5. snapImage[k].seq <= n  BY Zenon DEF Captured
<1>6. CASE LiveAt(snapImage[k], now) = LiveAt(Left(history, k, n), now)
  <2> HIDE DEF n
  <2>1. LiveAt(snapImage[k], now') = LiveAt(Left(history', k, n), now')
    BY ZenonT(30), <1>1, <1>3, <1>4, <1>6, LeftGoesOn
  <2> QED  BY ZenonT(30), <1>2, <1>5, <2>1 DEF Captured
<1>7. CASE snapMode = "memory" /\ evictionGeneration # 0  BY ZenonT(30), <1>2, <1>5, <1>7 DEF Captured
<1> QED  BY ZenonT(30), <1>6, <1>7 DEF Captured

(* A step beside the snapshot, or one that ends it.                        *)
LEMMA ImageKept ==
  ASSUME Inv, Inv', RecordsInv, AnswersInv, AnswersInv', Continues, ImageInv,
         \/ snapPC' = "idle"
         \/ UNCHANGED <<shards, snap>> /\ (evictionGeneration # 0 => evictionGeneration' # 0)
  PROVE  ImageInv'
<1>1. CASE snapPC' = "idle"  BY Zenon, <1>1 DEF ImageInv
<1>2. CASE snapPC' # "idle"
  <2>1. UNCHANGED <<shards, snapPC, snapMode, snapGeneration, snapThrough, snapNext, snapCover, snapImage>>
    BY Zenon, <1>2 DEF snap
  <2>2. ASSUME NEW k \in Keys, Captured(k)  PROVE Captured(k)'
    BY ZenonT(30), <1>2, <2>1, <2>2, CapturedKept
  <2> QED  BY ZenonT(30), <2>1, <2>2 DEF ImageInv
<1> QED  BY ZenonT(30), <1>1, <1>2

(* An image of memory is begun only before any eviction.                   *)
LEMMA ImageBegun ==
  ASSUME Inv, UNCHANGED shards, BeginRebuild \/ (BeginCapture /\ evictionGeneration = 0)
  PROVE  ImageInv'
<1>1. shards \in Nat \ {0}  BY Zenon DEF Inv, TypeOK, ProcessTypeOK
<1>2. CASE BeginRebuild
  <2>1. /\ snapPC' = "rebuild" /\ snapMode' = "durable" /\ snapThrough' = seq
        /\ snapCover' = [i \in 0..(shards - 1) |-> seq]
    BY ZenonT(30), <1>2 DEF BeginRebuild
  <2> QED  BY Zenon, <2>1 DEF ImageInv
<1>3. CASE BeginCapture /\ evictionGeneration = 0
  <2>1. snapPC' = "capture" /\ snapMode' = "memory" /\ snapGeneration' = 0 /\ snapNext' = 0
    BY ZenonT(30), <1>3 DEF BeginCapture
  <2>2. 0 < shards  BY SMTT(30), <1>1
  <2>3. \A k \in Keys : ~(ShardOf(k, shards) < 0)
    <3> TAKE k \in Keys
    <3>1. ShardOf(k, shards) \in 0..(shards - 1)  BY ZenonT(30), <1>1, ShardFacts
    <3> QED  BY SMTT(30), <3>1
  <2> QED  BY ZenonT(30), <2>1, <2>2, <2>3 DEF ImageInv
<1> QED  BY ZenonT(30), <1>2, <1>3

(* From the rename on the image is not used any more.                      *)
LEMMA ImageInstalled ==
  ASSUME ImageInv, snapPC # "idle", snapPC' \in {"renamed", "remove", "prune"},
         UNCHANGED <<snapMode, snapGeneration>>
  PROVE  ImageInv'
  BY Zenon DEF ImageInv

(* One more shard of the image is what memory holds there.                 *)
LEMMA ImageCaptured ==
  ASSUME Inv, Inv', RecordsInv, AnswersInv, AnswersInv', Continues, MemoryInv, ImageInv, CaptureShard
  PROVE  ImageInv'
<1>1. /\ snapPC = "capture" /\ snapCover' = [snapCover EXCEPT ![snapNext] = logSequence]
      /\ snapImage' = [k \in Keys |-> IF ShardOf(k, shards) = snapNext THEN entries[k] ELSE snapImage[k]]
      /\ snapNext' = snapNext + 1 /\ snapPC' = (IF snapNext + 1 = shards THEN "ready" ELSE "capture")
      /\ UNCHANGED <<snapMode, snapGeneration, shards, evictionGeneration, history, now>>
  BY Zenon DEF CaptureShard, SnapshotOnly, config, memory, callers
<1>2. /\ status = "up" /\ logSequence = seq  BY ZenonT(30), <1>1, UpFacts DEF Inv, WriterInv
<1>3. /\ snapNext \in Nat /\ shards \in Nat \ {0} /\ snapCover \in [0..(shards - 1) -> Sequence]
      /\ snapNext < shards /\ snapMode = "memory"
  BY ZenonT(30), <1>1 DEF Inv, TypeOK, ProcessTypeOK, SnapshotTypeOK, ImageInv
<1>4. /\ snapPC' \in {"ready", "capture"} /\ snapPC' # "idle" /\ (snapPC' = "capture" => snapNext + 1 # shards)
      /\ (snapPC' = "ready" => snapNext + 1 = shards)
  BY Zenon, <1>1
<1>5. snapPC' = "capture" => snapNext' < shards'
  <2>1. snapNext + 1 # shards => snapNext + 1 < shards  BY SMTT(30), <1>3
  <2> QED  BY ZenonT(30), <1>1, <1>4, <2>1
<1>6. ASSUME NEW k \in Keys,
             snapPC' = "ready" \/ (snapPC' = "capture" /\ ShardOf(k, shards) < snapNext + 1)
      PROVE  Captured(k)'
  <2> DEFINE j == ShardOf(k, shards)
  <2>1. j \in 0..(shards - 1)  BY ZenonT(30), <1>3, ShardFacts
  <2>2. CASE j = snapNext
    <3>1. snapCover'[j] = seq /\ snapImage'[k] = entries[k]
      BY ZenonT(30), <1>1, <1>2, <1>3, <2>1, <2>2
    <3>2. Remembered(k)  BY Zenon, <1>2 DEF MemoryInv
    <3>3. snapCover'[ShardOf(k, shards')] = seq  BY ZenonT(30), <3>1, <1>1
    <3> QED  BY ZenonT(30), <1>1, <1>3, <3>1, <3>2, <3>3 DEF Captured, Remembered
  <2>3. CASE j # snapNext
    <3>1. snapCover'[j] = snapCover[j] /\ snapImage'[k] = snapImage[k]
      BY ZenonT(30), <1>1, <1>3, <2>1, <2>3
    <3>2. j < snapNext
      <4>1. j < snapNext + 1
        <5>1. CASE snapPC' = "ready"
          <6>1. snapNext + 1 = shards  BY ZenonT(30), <1>4, <5>1
          <6> HIDE DEF j
          <6> QED  BY SMTT(30), <6>1, <1>3, <2>1
        <5>2. CASE snapPC' # "ready"  BY ZenonT(30), <1>6, <5>2
        <5> QED  BY ZenonT(30), <5>1, <5>2
      <4> HIDE DEF j
      <4> QED  BY SMTT(30), <4>1, <2>1, <2>3, <1>3
    <3>3. Captured(k)  BY ZenonT(30), <1>1, <3>2 DEF ImageInv
    <3>4. snapPC # "idle"  BY Zenon, <1>1
    <3> QED  BY ZenonT(30), <1>1, <1>4, <3>1, <3>3, <3>4, CapturedKept
  <2> QED  BY ZenonT(30), <2>2, <2>3
<1> QED  BY ZenonT(30), <1>1, <1>3, <1>4, <1>5, <1>6 DEF ImageInv

(* The rebuilt image is what the history left at the boundary.             *)
LEMMA ImageRebuilt ==
  ASSUME Inv, RecordsInv, AnswersInv, NamesInv, DirectoryInv, ImageInv, RebuildImage
  PROVE  ImageInv'
<1>1. /\ snapPC = "rebuild" /\ snapPC # "idle" /\ CanRebuild(snapThrough) /\ snapPC' = "ready"
      /\ snapImage' = RebuiltImage(shards, snapThrough)
      /\ UNCHANGED <<snapMode, snapGeneration, snapCover, shards, history, now>>
  BY Zenon DEF RebuildImage, SnapshotOnly, config, callers
<1>2. snapMode = "durable" /\ \A j \in 0..(shards - 1) : snapCover[j] = snapThrough
  BY ZenonT(30), <1>1 DEF ImageInv
<1>3. DOMAIN segments # {}  BY ZenonT(30), <1>1, UpFacts
<1>4. ASSUME NEW k \in Keys  PROVE Captured(k)'
  <2>1. /\ ShardOf(k, shards) \in 0..(shards - 1) /\ shards \in Nat \ {0}
        /\ snapCover[ShardOf(k, shards)] \in Nat /\ snapCover[ShardOf(k, shards)] <= Len(history)
    BY ZenonT(30), <1>1, CapturedShard
  <2>2. snapCover[ShardOf(k, shards)] = snapThrough  BY ZenonT(30), <1>2, <2>1
  <2>3. snapThrough \in Nat /\ snapThrough <= Len(history)  BY ZenonT(30), <2>1, <2>2
  <2>4. /\ LiveAt(RebuiltImage(shards, snapThrough)[k], now) = LiveAt(Left(history, k, snapThrough), now)
        /\ RebuiltImage(shards, snapThrough)[k].seq <= snapThrough
    BY ZenonT(30), <1>1, <1>3, <2>1, <2>3, RebuiltExact DEF DirectoryInv
  <2>5. snapCover'[ShardOf(k, shards')] = snapThrough  BY ZenonT(30), <1>1, <2>2
  <2> QED  BY ZenonT(30), <1>1, <2>4, <2>5 DEF Captured
<1> QED  BY ZenonT(30), <1>1, <1>2, <1>4 DEF ImageInv

-----------------------------------------------------------------------------
(* The directory.                                                          *)

(* A step after which the directory holds only snapshots it held before.   *)
LEMMA DirectoryKept ==
  ASSUME Inv, RecordsInv, AnswersInv, NamesInv, DirectoryInv, Continues,
         snapshots' \in {snapshots, stable}, stable' \in {snapshots, stable}
  PROVE  DirectoryInv'
<1>1. /\ \A name \in DOMAIN snapshots : Truthful(snapshots[name], history', now')
      /\ \A name \in DOMAIN stable : Truthful(stable[name], history', now')
  BY Zenon, DirectoryGoesOn
<1>2. \A name \in DOMAIN snapshots' : Truthful(snapshots'[name], history', now')  BY Zenon, <1>1
<1>3. \A name \in DOMAIN stable' : Truthful(stable'[name], history', now')  BY Zenon, <1>1
<1> QED  BY ZenonT(30), <1>2, <1>3 DEF DirectoryInv, TruthfulIn

(* removeOtherSnapshots only removes.                                      *)
LEMMA DirectoryRemoved ==
  ASSUME Inv, RecordsInv, AnswersInv, NamesInv, DirectoryInv, Continues, removeOtherSnapshots
  PROVE  DirectoryInv'
<1>1. /\ \A name \in DOMAIN snapshots : Truthful(snapshots[name], history', now')
      /\ \A name \in DOMAIN stable : Truthful(stable[name], history', now')
  BY ZenonT(30), DirectoryGoesOn
<1>2. /\ stable' = stable
      /\ \/ snapshots' = snapshots
         \/ \E x : snapshots' = Restrict(snapshots, DOMAIN snapshots \ {x})
  BY Zenon DEF removeOtherSnapshots
<1>3. \A name \in DOMAIN snapshots' : name \in DOMAIN snapshots /\ snapshots'[name] = snapshots[name]
  BY Zenon, <1>2 DEF Restrict
<1>4. \A name \in DOMAIN snapshots' : Truthful(snapshots'[name], history', now')  BY ZenonT(30), <1>1, <1>3
<1>5. \A name \in DOMAIN stable' : Truthful(stable'[name], history', now')  BY ZenonT(30), <1>1, <1>2
<1> QED  BY ZenonT(30), <1>4, <1>5 DEF DirectoryInv, TruthfulIn

(* The image that is renamed into place is truthful: no eviction has       *)
(* overtaken it since its generation was read.                             *)
LEMMA DirectoryInstalled ==
  ASSUME Inv, RecordsInv, AnswersInv, NamesInv, DirectoryInv, ImageInv, Continues, RenameSnapshot
  PROVE  DirectoryInv'
<1> DEFINE new == [shards |-> shards, cover |-> snapCover, image |-> snapImage]
<1>1. /\ snapPC = "ready" /\ snapPC # "idle" /\ ~Overtaken /\ snapshots' = Put(snapshots, SnapName, new)
      /\ UNCHANGED <<stable, history, now>>
  BY Zenon DEF RenameSnapshot, SnapshotOnly, callers
<1>2. new.shards = shards /\ new.cover = snapCover /\ new.image = snapImage  BY Zenon
<1> HIDE DEF new
<1>3. ~(snapMode = "memory" /\ evictionGeneration # 0)
  BY ZenonT(30), <1>1 DEF Overtaken, ImageInv
<1>4. \A k \in Keys :
        /\ snapImage[k].seq <= snapCover[ShardOf(k, shards)]
        /\ LiveAt(snapImage[k], now) = LiveAt(Left(history, k, snapCover[ShardOf(k, shards)]), now)
  BY ZenonT(30), <1>1, <1>3 DEF ImageInv, Captured
<1>5. SnapshotLoads(new)  BY ZenonT(30), <1>2, <1>4 DEF SnapshotLoads
<1>6. \A k \in Keys : LiveAt(new.image[k], now) = LiveAt(Left(history, k, CoverOf(new, k)), now)
  BY ZenonT(30), <1>2, <1>4 DEF CoverOf
<1>7. Truthful(new, history, now)  BY ZenonT(30), <1>5, <1>6 DEF Truthful
<1>8. Truthful(new, history', now')  BY ZenonT(30), <1>1, <1>7
<1>9. /\ \A name \in DOMAIN snapshots : Truthful(snapshots[name], history', now')
      /\ \A name \in DOMAIN stable : Truthful(stable[name], history', now')
  BY Zenon, DirectoryGoesOn
<1>10. \A name \in DOMAIN snapshots' :
         \/ snapshots'[name] = new
         \/ name \in DOMAIN snapshots /\ snapshots'[name] = snapshots[name]
  BY ZenonT(30), <1>1 DEF Put
<1>11. \A name \in DOMAIN snapshots' : Truthful(snapshots'[name], history', now')
  BY ZenonT(30), <1>8, <1>9, <1>10
<1>12. \A name \in DOMAIN stable' : Truthful(stable'[name], history', now')  BY ZenonT(30), <1>1, <1>9
<1> QED  BY ZenonT(30), <1>11, <1>12 DEF DirectoryInv, TruthfulIn

-----------------------------------------------------------------------------
(* What callers can tell of a step.                                        *)

(* What records r leave under key k after history H: of those with the key *)
(* the last one, or what was there.                                        *)
LastDecides(H, r, k) ==
  /\ (\A i \in 1..Len(r) : r[i].key # k) =>
       Left(H \o r, k, Len(H) + Len(r)) = Left(H, k, Len(H))
  /\ \A m \in 1..Len(r) :
       r[m].key = k /\ (\A i \in 1..Len(r) : r[i].key = k => i <= m) =>
         Left(H \o r, k, Len(H) + Len(r)) = EntryOf(r[m])

(* The records appended to a history decide over those before them.        *)
LEMMA LeftAppended ==
  ASSUME NEW H \in Seq(Cell), NEW r \in Seq(Cell), NEW k
  PROVE  LastDecides(H, r, k)
<1> DEFINE G == H \o r
           n == Len(H) + Len(r)
<1>1. /\ Len(H) \in Nat /\ Len(r) \in Nat /\ \A i \in 1..Len(H) : G[i] = H[i]
      /\ \A i \in 1..Len(r) : G[Len(H) + i] = r[i]
  BY SMTT(30), ConcatFacts
<1>2. n \in Nat /\ Len(H) \in 0..n  BY SMTT(30), <1>1
<1>3. \A i \in 1..n : i > Len(H) => i - Len(H) \in 1..Len(r) /\ i = Len(H) + (i - Len(H))  BY SMTT(30), <1>1
<1> HIDE DEF G, n
<1>4. \A i \in 1..n : i > Len(H) => i - Len(H) \in 1..Len(r) /\ G[i] = r[i - Len(H)]
  BY Zenon, <1>1, <1>3
<1>5. ASSUME \A i \in 1..Len(r) : r[i].key # k  PROVE Left(G, k, n) = Left(H, k, Len(H))
  <2>1. \A i \in 1..n : i > Len(H) => G[i].key # k  BY ZenonT(30), <1>4, <1>5
  <2>2. Left(G, k, n) = Left(G, k, Len(H))  BY ZenonT(30), <1>2, <2>1, LeftNone
  <2>3. Left(G, k, Len(H)) = Left(H, k, Len(H))  BY SMTT(30), <1>1, LeftPrefix
  <2> QED  BY ZenonT(30), <2>2, <2>3
<1>6. ASSUME NEW m \in 1..Len(r), r[m].key = k, \A i \in 1..Len(r) : r[i].key = k => i <= m
      PROVE  Left(G, k, n) = EntryOf(r[m])
  <2> DEFINE p == Len(H) + m
  <2>1. p \in 1..n /\ \A i \in 1..n : i > p => i > Len(H) /\ ~(i - Len(H) <= m)  BY SMTT(30), <1>1 DEF n
  <2>2. G[p] = r[m]  BY Zenon, <1>1
  <2> HIDE DEF p
  <2>3. \A i \in 1..n : i > p => G[i].key # k  BY ZenonT(30), <1>4, <1>6, <2>1
  <2>4. Left(G, k, n) = EntryOf(G[p])  BY SMTT(30), <1>2, <1>6, <2>1, <2>2, <2>3, LeftLast
  <2> QED  BY ZenonT(30), <2>2, <2>4
<1> QED  BY ZenonT(30), <1>5, <1>6 DEF G, n, LastDecides

(* What has expired stays so.                                              *)
LEMMA LiveAgain ==
  ASSUME NEW e \in Entry, NEW t \in Nat, NEW u \in Nat, t <= u
  PROVE  LiveAt(LiveAt(e, t), u) = LiveAt(e, u)
<1>1. e.deadline \in Nat  BY SMTT(30), ConstantsAssumption DEF Entry, Time
<1>2. t >= e.deadline => u >= e.deadline  BY SMTT(30), <1>1
<1>3. LiveAt(NoEntry, u) = NoEntry  BY Zenon, EntryFacts DEF LiveAt
<1>4. CASE e.deadline # 0 /\ t >= e.deadline
  <2>1. LiveAt(e, t) = NoEntry /\ LiveAt(e, u) = NoEntry  BY Zenon, <1>2, <1>4 DEF LiveAt
  <2> QED  BY Zenon, <1>3, <2>1
<1>5. CASE ~(e.deadline # 0 /\ t >= e.deadline)
  <2>1. LiveAt(e, t) = e  BY Zenon, <1>5 DEF LiveAt
  <2> QED  BY Zenon, <2>1
<1> QED  BY Zenon, <1>4, <1>5

(* applyRecord shows readers the record's entry, and of the others what    *)
(* they saw or nothing: the entry just written is no candidate for         *)
(* eviction.                                                               *)
LEMMA AppliedVisible ==
  ASSUME Inv, applySet \/ applyDelete, Head(pending) \in Cell, NEW k \in Keys
  PROVE  IF k = Head(pending).key
         THEN LiveAt(entries'[k], now) = LiveAt(EntryOf(Head(pending)), now)
         ELSE entries'[k] \in {entries[k], NoEntry}
<1> DEFINE c == Head(pending)
           image == [entries EXCEPT ![c.key] = EntryOf(c)]
<1>1. entries \in [Keys -> Entry] /\ c.key \in Keys  BY Zenon DEF Inv, TypeOK, ProcessTypeOK, Image, Cell
<1>2. \A x \in Keys : image[x] = IF x = c.key THEN EntryOf(c) ELSE entries[x]  BY ZenonT(30), <1>1
<1>3. LiveAt(NoEntry, now) = NoEntry  BY Zenon, EntryFacts DEF LiveAt
<1>4. CASE applyDelete
  <2>1. c.op # "set" /\ entries' = Without(entries, {c.key})  BY ZenonT(30), <1>4 DEF applyDelete
  <2>2. EntryOf(c) = NoEntry  BY ZenonT(30), <2>1 DEF EntryOf
  <2>3. entries'[k] = IF k = c.key THEN NoEntry ELSE entries[k]  BY ZenonT(30), <2>1 DEF Without
  <2> QED  BY ZenonT(30), <2>2, <2>3
<1>5. CASE applySet /\ deadlinePassed(image[c.key])
  <2>1. entries' = Without(image, {c.key})  BY ZenonT(30), <1>5 DEF applySet
  <2>2. LiveAt(EntryOf(c), now) = NoEntry  BY ZenonT(30), <1>1, <1>2, <1>5 DEF LiveAt, deadlinePassed
  <2> HIDE DEF image
  <2>3. entries'[k] = IF k = c.key THEN NoEntry ELSE image[k]  BY ZenonT(30), <2>1 DEF Without
  <2> QED  BY ZenonT(30), <1>2, <1>3, <2>2, <2>3
<1>6. CASE applySet /\ ~deadlinePassed(image[c.key])
  <2>1. PICK gone \in SUBSET Keys :
          /\ entries' = Without(image, gone)
          /\ Evicts(image, ShardOf(c.key, shards), shards, capacity, Keys \ {c.key}, gone)
    BY ZenonT(30), <1>6 DEF applySet
  <2>2. c.key \notin gone  BY ZenonT(30), <2>1 DEF Evicts
  <2> HIDE DEF image
  <2>3. entries'[k] = IF k \in gone THEN NoEntry ELSE image[k]  BY ZenonT(30), <2>1 DEF Without
  <2> QED  BY ZenonT(30), <1>2, <2>2, <2>3
<1> QED  BY ZenonT(30), <1>4, <1>5, <1>6

(* Open shows readers what the history left, or nothing.                   *)
LEMMA OpenedVisible ==
  ASSUME Inv, RecordsInv, NamesInv, DirectoryInv, NEW n \in Nat \ {0}, NEW c, Open(n, c), NEW k \in Keys
  PROVE  LiveAt(entries'[k], now) \in {NoEntry, LiveAt(Left(history, k, Len(history)), now)}
<1> DEFINE image == RecoveredImage(n)
           expired == {x \in Keys : deadlinePassed(image[x])}
<1>1. CanRecover  BY ZenonT(30) DEF Open
<1>2. PICK gone \in SUBSET Keys : entries' = Without(Without(image, expired), gone)  BY ZenonT(30) DEF Open
<1>3. LiveAt(NoEntry, now) = NoEntry  BY Zenon, EntryFacts DEF LiveAt
<1>4. LiveAt(image[k], now) = LiveAt(Left(history, k, Len(history)), now)
  BY ZenonT(30), <1>1, RecoveredExact DEF DirectoryInv
<1> HIDE DEF image, expired
<1>5. entries'[k] \in {NoEntry, image[k]}  BY ZenonT(30), <1>2 DEF Without
<1> QED  BY ZenonT(30), <1>3, <1>4, <1>5

-----------------------------------------------------------------------------
(* What memory holds after a record and after Open.                        *)

(* Counting what is evicted makes the generation nonzero for good.         *)
LEMMA EvictionCounts ==
  ASSUME Counts, NEW n \in Nat, NEW gone \in SUBSET Keys
  PROVE  n # 0 \/ gone # {} => n + Cardinality(gone) # 0
<1>1. Cardinality(gone) \in Nat /\ (gone # {} => Cardinality(gone) # 0)  BY ZenonT(30) DEF Counts
<1> QED  BY SMTT(30), <1>1

(* Before the shard is trimmed, memory with the record in it is what one   *)
(* record more leaves.                                                     *)
LEMMA RecordApplied ==
  ASSUME Inv, RecordsInv, AnswersInv, MemoryInv, status = "up", NEW c, c = history[seq + 1],
         seq + 1 \in 1..Len(history), NEW k \in Keys, NEW e, e = IF k = c.key THEN EntryOf(c) ELSE entries[k]
  PROVE  /\ e \in Entry /\ e.seq <= seq + 1
         /\ \/ LiveAt(e, now) = LiveAt(Left(history, k, seq + 1), now)
            \/ e = NoEntry /\ evictionGeneration # 0
<1>1. seq \in Nat /\ history \in Seq(Cell)  BY Zenon, HistoryFacts
<1>2. c \in Cell  BY SMTT(30), <1>1
<1>3. c.seq = seq + 1  BY Zenon DEF RecordsInv, Numbers
<1>4. Left(history, k, seq + 1) = IF c.key = k THEN EntryOf(c) ELSE Left(history, k, seq)
  BY ZenonT(30), <1>1, LeftNext
<1>5. CASE k = c.key
  <2>1. e = EntryOf(c) /\ Left(history, k, seq + 1) = e  BY ZenonT(30), <1>4, <1>5
  <2>2. e \in Entry /\ e.seq \in {0, seq + 1}  BY ZenonT(30), <2>1, <1>2, <1>3, EntryFacts
  <2>3. e.seq <= seq + 1  BY SMTT(30), <2>2, <1>1
  <2> QED  BY ZenonT(30), <2>1, <2>2, <2>3
<1>6. CASE k # c.key
  <2>1. e = entries[k] /\ Left(history, k, seq + 1) = Left(history, k, seq)  BY ZenonT(30), <1>4, <1>6
  <2>2. Remembered(k) /\ e \in Entry  BY Zenon, <2>1 DEF MemoryInv, Inv, TypeOK, ProcessTypeOK, Image
  <2>3. e.seq <= seq + 1
    <3>1. e.seq <= seq  BY ZenonT(30), <2>1, <2>2 DEF Remembered
    <3>2. e.seq \in Nat  BY SMTT(30), <2>2, NoImageType DEF Entry, Sequence
    <3> QED  BY SMTT(30), <3>1, <3>2, <1>1
  <2> QED  BY ZenonT(30), <2>1, <2>2, <2>3 DEF Remembered
<1> QED  BY ZenonT(30), <1>5, <1>6

(* applyRecord leaves the record's entry, nothing where it has expired or  *)
(* deletes, and the other entries except the counted evictions.            *)
LEMMA AppliedEntries ==
  ASSUME Counts, Inv, applySet \/ applyDelete, Head(pending) \in Cell
  PROVE  /\ evictionGeneration # 0 => evictionGeneration' # 0
         /\ \A k \in Keys :
              LET e == IF k = Head(pending).key THEN EntryOf(Head(pending)) ELSE entries[k]
              IN  \/ entries'[k] = e
                  \/ entries'[k] = NoEntry /\ (LiveAt(e, now) = NoEntry \/ evictionGeneration' # 0)
<1> DEFINE c == Head(pending)
           image == [entries EXCEPT ![c.key] = EntryOf(c)]
           E(k) == IF k = c.key THEN EntryOf(c) ELSE entries[k]
<1>1. entries \in [Keys -> Entry] /\ evictionGeneration \in Nat /\ c.key \in Keys
  BY Zenon DEF Inv, TypeOK, ProcessTypeOK, Image, Cell
<1>2. \A k \in Keys : image[k] = E(k)  BY ZenonT(30), <1>1
<1>3. CASE applyDelete
  <2>1. c.op # "set" /\ entries' = Without(entries, {c.key}) /\ evictionGeneration' = evictionGeneration
    BY ZenonT(30), <1>3 DEF applyDelete
  <2>2. EntryOf(c) = NoEntry  BY ZenonT(30), <2>1 DEF EntryOf
  <2>3. \A k \in Keys : entries'[k] = E(k)  BY ZenonT(30), <2>1, <2>2 DEF Without
  <2> QED  BY ZenonT(30), <2>1, <2>3
<1>4. CASE applySet /\ deadlinePassed(image[c.key])
  <2>1. entries' = Without(image, {c.key}) /\ evictionGeneration' = evictionGeneration
    BY ZenonT(30), <1>4 DEF applySet
  <2>2. LiveAt(E(c.key), now) = NoEntry  BY ZenonT(30), <1>1, <1>2, <1>4 DEF LiveAt, deadlinePassed
  <2> HIDE DEF image
  <2>3. \A k \in Keys : entries'[k] = IF k = c.key THEN NoEntry ELSE image[k]
    BY ZenonT(30), <2>1 DEF Without
  <2>4. \A k \in Keys : entries'[k] = E(k) \/ (entries'[k] = NoEntry /\ LiveAt(E(k), now) = NoEntry)
    BY ZenonT(30), <1>2, <2>2, <2>3
  <2> QED  BY ZenonT(30), <2>1, <2>4
<1>5. CASE applySet /\ ~deadlinePassed(image[c.key])
  <2>1. PICK gone \in SUBSET Keys :
          /\ entries' = Without(image, gone)
          /\ evictionGeneration' = evictionGeneration + Cardinality({v \in gone : ~deadlinePassed(image[v])})
    BY ZenonT(30), <1>5 DEF applySet
  <2> DEFINE evicted == {v \in gone : ~deadlinePassed(image[v])}
  <2>2. evicted \in SUBSET Keys  BY Zenon
  <2>3. evictionGeneration' = evictionGeneration + Cardinality(evicted)  BY ZenonT(30), <2>1
  <2>4. \A k \in Keys : k \in evicted \/ entries'[k] = E(k)
                          \/ (entries'[k] = NoEntry /\ LiveAt(E(k), now) = NoEntry)
    <3> TAKE k \in Keys
    <3>1. CASE k \notin gone  BY ZenonT(30), <2>1, <1>2, <3>1 DEF Without
    <3>2. CASE k \in gone /\ deadlinePassed(image[k])
      <4>1. entries'[k] = NoEntry  BY ZenonT(30), <2>1, <3>2 DEF Without
      <4>2. deadlinePassed(E(k))  BY ZenonT(30), <1>2, <3>2
      <4>3. LiveAt(E(k), now) = NoEntry  BY ZenonT(30), <4>2 DEF LiveAt, deadlinePassed
      <4> QED  BY ZenonT(30), <4>1, <4>3
    <3>3. CASE k \in gone /\ ~deadlinePassed(image[k])  BY ZenonT(30), <3>3
    <3> QED  BY ZenonT(30), <3>1, <3>2, <3>3
  <2>5. \A k \in evicted : entries'[k] = NoEntry  BY ZenonT(30), <2>1 DEF Without
  <2> HIDE DEF evicted
  <2>6. evictionGeneration # 0 \/ evicted # {} => evictionGeneration' # 0
    BY ZenonT(30), <1>1, <2>2, <2>3, EvictionCounts
  <2> QED  BY ZenonT(30), <2>4, <2>5, <2>6
<1> QED  BY ZenonT(30), <1>3, <1>4, <1>5

(* Memory after a record is what one record more leaves.                   *)
LEMMA MemoryApplied ==
  ASSUME Counts, Inv, RecordsInv, AnswersInv, MemoryInv, applySet \/ applyDelete
  PROVE  MemoryInv' /\ (evictionGeneration # 0 => evictionGeneration' # 0)
<1>1. pc = "apply" /\ AfterApply  BY ZenonT(30) DEF applySet, applyDelete
<1>2. /\ seq' = seq + 1 /\ seq + 1 \in 1..Len(history) /\ Head(pending) = history[seq + 1] /\ status = "up"
  BY ZenonT(30), <1>1, LogApplied
<1>3. history' = history /\ now' = now  BY ZenonT(30), <1>1 DEF AfterApply
<1>4. Head(pending) \in Cell
  <2>1. history \in Seq(Cell)  BY ZenonT(30), HistoryFacts
  <2> QED  BY SMTT(30), <1>2, <2>1
<1>5. evictionGeneration # 0 => evictionGeneration' # 0  BY ZenonT(30), <1>4, AppliedEntries
<1>6. ASSUME NEW k \in Keys  PROVE Remembered(k)'
  <2> DEFINE e == IF k = Head(pending).key THEN EntryOf(Head(pending)) ELSE entries[k]
  <2>1. \/ entries'[k] = e
        \/ entries'[k] = NoEntry /\ (LiveAt(e, now) = NoEntry \/ evictionGeneration' # 0)
    BY ZenonT(30), <1>4, AppliedEntries
  <2>0. e = IF k = Head(pending).key THEN EntryOf(Head(pending)) ELSE entries[k]  BY SMTT(30)
  <2> HIDE DEF e
  <2>2. /\ e \in Entry /\ e.seq <= seq + 1
        /\ \/ LiveAt(e, now) = LiveAt(Left(history, k, seq + 1), now)
           \/ e = NoEntry /\ evictionGeneration # 0
    BY SMTT(30), <1>2, <2>0, RecordApplied
  <2>3. NoEntry.seq = 0 /\ LiveAt(NoEntry, now) = NoEntry  BY ZenonT(30), EntryFacts DEF LiveAt
  <2>4. 0 <= seq + 1  BY SMTT(30), HistoryFacts
  <2>5. CASE entries'[k] = e
    <3>1. entries'[k].seq <= seq'  BY ZenonT(30), <1>2, <2>2, <2>5
    <3>2. \/ LiveAt(entries'[k], now') = LiveAt(Left(history', k, seq'), now')
          \/ entries'[k] = NoEntry /\ evictionGeneration' # 0
      BY Zenon, <1>2, <1>3, <1>5, <2>2, <2>5
    <3> QED  BY ZenonT(30), <3>1, <3>2 DEF Remembered
  <2>6. CASE entries'[k] = NoEntry /\ (LiveAt(e, now) = NoEntry \/ evictionGeneration' # 0)
    <3>1. entries'[k].seq <= seq'  BY ZenonT(30), <1>2, <2>3, <2>4, <2>6
    <3>2. \/ LiveAt(entries'[k], now') = LiveAt(Left(history', k, seq'), now')
          \/ entries'[k] = NoEntry /\ evictionGeneration' # 0
      BY ZenonT(30), <1>2, <1>3, <1>5, <2>2, <2>3, <2>6
    <3> QED  BY Zenon, <3>1, <3>2 DEF Remembered
  <2> QED  BY ZenonT(30), <2>1, <2>5, <2>6
<1> QED  BY ZenonT(30), <1>5, <1>6 DEF MemoryInv

(* Open fills memory with what the history left, less what has expired and *)
(* the counted evictions.                                                  *)
LEMMA MemoryOpened ==
  ASSUME Counts, Inv, RecordsInv, AnswersInv, NamesInv, DirectoryInv, NEW n \in Nat \ {0}, NEW c, Open(n, c)
  PROVE  MemoryInv'
<1> DEFINE image == RecoveredImage(n)
           expired == {k \in Keys : deadlinePassed(image[k])}
<1>1. CanRecover /\ history' = history /\ now' = now /\ seq' = Len(history)
  BY ZenonT(30), RecoversHistory DEF Open, callers
<1>2. PICK gone \in SUBSET Keys :
        entries' = Without(Without(image, expired), gone) /\ evictionGeneration' = Cardinality(gone)
  BY ZenonT(30) DEF Open
<1>3. gone # {} => evictionGeneration' # 0  BY ZenonT(30), <1>2 DEF Counts
<1>4. NoEntry.seq = 0 /\ LiveAt(NoEntry, now) = NoEntry  BY ZenonT(30), EntryFacts DEF LiveAt
<1>5. 0 <= Len(history)  BY SMTT(30), HistoryFacts
<1>6. ASSUME NEW k \in Keys  PROVE Remembered(k)'
  <2>1. /\ LiveAt(image[k], now) = LiveAt(Left(history, k, Len(history)), now) /\ image[k].seq <= Len(history)
    BY ZenonT(30), <1>1, RecoveredExact DEF DirectoryInv
  <2>2. CASE k \in gone
    <3>1. entries'[k] = NoEntry /\ evictionGeneration' # 0  BY ZenonT(30), <1>2, <1>3, <2>2 DEF Without
    <3>2. entries'[k].seq <= seq'  BY ZenonT(30), <1>1, <1>4, <1>5, <3>1
    <3> QED  BY ZenonT(30), <3>1, <3>2 DEF Remembered
  <2>3. CASE k \notin gone /\ k \in expired
    <3>1. entries'[k] = NoEntry  BY ZenonT(30), <1>2, <2>3 DEF Without
    <3>2. deadlinePassed(image[k])  BY ZenonT(30), <2>3
    <3>3. LiveAt(image[k], now) = NoEntry  BY ZenonT(30), <3>2 DEF LiveAt, deadlinePassed
    <3>4. entries'[k].seq <= seq'  BY ZenonT(30), <1>1, <1>4, <1>5, <3>1
    <3>5. LiveAt(entries'[k], now') = LiveAt(Left(history', k, seq'), now')
      BY ZenonT(30), <1>1, <1>4, <2>1, <3>1, <3>3
    <3> QED  BY ZenonT(30), <3>4, <3>5 DEF Remembered
  <2>4. CASE k \notin gone /\ k \notin expired
    <3>1. entries'[k] = image[k]  BY ZenonT(30), <1>2, <2>4 DEF Without
    <3> HIDE DEF image, expired
    <3>2. entries'[k].seq <= seq'  BY ZenonT(30), <1>1, <2>1, <3>1
    <3>3. LiveAt(entries'[k], now') = LiveAt(Left(history', k, seq'), now')  BY ZenonT(30), <1>1, <2>1, <3>1
    <3> QED  BY Zenon, <3>2, <3>3 DEF Remembered
  <2> QED  BY ZenonT(30), <2>2, <2>3, <2>4
<1> QED  BY ZenonT(30), <1>6 DEF MemoryInv

-----------------------------------------------------------------------------
(* Every step.                                                             *)

(* Every step keeps memory, the image in progress and the snapshots true   *)
(* to the history.                                                         *)
LEMMA DataNext ==
  ASSUME Counts, Inv, Inv', RecordsInv, AnswersInv, AnswersInv', NamesInv, DirectoryInv, MemoryInv, ImageInv,
         Continues, Next
  PROVE  DirectoryInv' /\ MemoryInv' /\ ImageInv'
<1>1. Continues  OBVIOUS
<1>2. CASE OpenFailsAfterInstall \/ \E option \in Options : Open(option[1], option[2])
  <2>1. /\ snapshots' = snapshots /\ stable' \in {snapshots, stable} /\ status = "down" /\ snapPC' = snapPC
    BY Zenon, <1>2 DEF OpenFailsAfterInstall, Open, snap
  <2>2. DirectoryInv'  BY ZenonT(30), <1>1, <2>1, DirectoryKept
  <2>3. snapPC' = "idle"  BY ZenonT(30), <2>1 DEF Inv, WriterInv
  <2>4. ImageInv'  BY ZenonT(30), <1>1, <2>3, ImageKept
  <2>5. MemoryInv'
    <3>1. CASE OpenFailsAfterInstall
      <4>1. status' = "down"  BY ZenonT(30), <3>1 DEF OpenFailsAfterInstall
      <4> QED  BY ZenonT(30), <4>1 DEF MemoryInv
    <3>2. ASSUME NEW option \in Options, Open(option[1], option[2])  PROVE MemoryInv'
      <4>1. option[1] \in Nat \ {0}  BY SMTT(30), ConstantsAssumption
      <4> QED  BY ZenonT(30), <3>2, <4>1, MemoryOpened
    <3> QED  BY ZenonT(30), <1>2, <3>1, <3>2
  <2> QED  BY ZenonT(30), <2>2, <2>4, <2>5
<1>3. CASE OpenRefused \/ DrainWrites \/ Fsync \/ FsyncFails \/ CloseRequest \/ SequenceExhausted
           \/ RollForWrite \/ RollForWriteFails \/ WriteRecords \/ WriteFails \/ NoSnapshotDue
           \/ DurableSnapshotAborts \/ Tick
  <2>1. snapshots' = snapshots /\ stable' \in {snapshots, stable}
    BY ZenonT(30), <1>3 DEF OpenRefused, DrainWrites, Fsync, FsyncFails, CloseRequest, SequenceExhausted,
      RollForWrite, RollForWriteFails, WriteRecords, WriteFails, NoSnapshotDue, DurableSnapshotAborts, Tick,
      rollSegment, rollSegmentFails, disk
  <2>2. UNCHANGED <<entries, evictionGeneration>>
    BY ZenonT(30), <1>3 DEF OpenRefused, DrainWrites, Fsync, FsyncFails, CloseRequest, SequenceExhausted,
      RollForWrite, RollForWriteFails, WriteRecords, WriteFails, NoSnapshotDue, DurableSnapshotAborts, Tick, memory
  <2>3. status' = "up" => status = "up" /\ seq' = seq
    BY ZenonT(30), <1>3 DEF OpenRefused, DrainWrites, Fsync, FsyncFails, CloseRequest, SequenceExhausted,
      RollForWrite, RollForWriteFails, WriteRecords, WriteFails, NoSnapshotDue, DurableSnapshotAborts, Tick, writer
  <2>4. UNCHANGED <<shards, snap>>
    BY ZenonT(30), <1>3 DEF OpenRefused, DrainWrites, Fsync, FsyncFails, CloseRequest, SequenceExhausted,
      RollForWrite, RollForWriteFails, WriteRecords, WriteFails, NoSnapshotDue, DurableSnapshotAborts, Tick, config
  <2>5. DirectoryInv'  BY ZenonT(30), <1>1, <2>1, DirectoryKept
  <2>6. MemoryInv'  BY ZenonT(30), <1>1, <2>2, <2>3, MemoryKept
  <2>7. ImageInv'  BY ZenonT(30), <1>1, <2>2, <2>4, ImageKept
  <2> QED  BY ZenonT(30), <2>5, <2>6, <2>7
<1>4. CASE CloseDone \/ Crash \/ PowerLoss
  <2>1. /\ snapshots' \in {snapshots, stable} /\ stable' \in {snapshots, stable}
        /\ status' = "down" /\ snapPC' = "idle"
    BY ZenonT(30), <1>4 DEF CloseDone, Crash, PowerLoss, ProcessEnds, disk
  <2>2. DirectoryInv'  BY ZenonT(30), <1>1, <2>1, DirectoryKept
  <2>3. MemoryInv'  BY ZenonT(30), <2>1 DEF MemoryInv
  <2>4. ImageInv'  BY ZenonT(30), <1>1, <2>1, ImageKept
  <2> QED  BY Zenon, <2>2, <2>3, <2>4
<1>5. CASE \E k \in Keys : Reclaim(k)
  <2>1. PICK x \in Keys : Reclaim(x)  BY ZenonT(30), <1>5
  <2>2. /\ UNCHANGED <<snapshots, stable, status, seq, evictionGeneration, shards, snap>>
        /\ entries' = Without(entries, {x}) /\ deadlinePassed(entries[x])
    BY ZenonT(30), <2>1 DEF Reclaim, disk, config, writer
  <2>3. LiveAt(entries[x], now) = NoEntry  BY ZenonT(30), <2>2 DEF LiveAt, deadlinePassed
  <2>4. \A k \in Keys : entries'[k] = entries[k] \/ (entries'[k] = NoEntry /\ LiveAt(entries[k], now) = NoEntry)
    BY ZenonT(30), <2>2, <2>3 DEF Without
  <2>5. DirectoryInv'  BY ZenonT(30), <1>1, <2>2, DirectoryKept
  <2>6. MemoryInv'  BY ZenonT(30), <1>1, <2>2, <2>4, MemoryKept
  <2>7. ImageInv'  BY ZenonT(30), <1>1, <2>2, ImageKept
  <2> QED  BY ZenonT(30), <2>5, <2>6, <2>7
<1>6. CASE applySet \/ applyDelete
  <2>1. UNCHANGED <<snapshots, stable, shards, snap>>
    BY ZenonT(30), <1>6 DEF applySet, applyDelete, AfterApply, disk, config
  <2>2. MemoryInv' /\ (evictionGeneration # 0 => evictionGeneration' # 0)  BY ZenonT(30), <1>6, MemoryApplied
  <2>3. DirectoryInv'  BY ZenonT(30), <1>1, <2>1, DirectoryKept
  <2>4. ImageInv'  BY ZenonT(30), <1>1, <2>1, <2>2, ImageKept
  <2> QED  BY ZenonT(30), <2>2, <2>3, <2>4
<1>7. CASE StartMemorySnapshot \/ StartDurableSnapshot \/ FinalSnapshot
  <2>1. /\ snapshots' = snapshots /\ stable' \in {snapshots, stable}
        /\ UNCHANGED <<status, seq, entries, evictionGeneration, shards>>
        /\ BeginRebuild \/ (BeginCapture /\ evictionGeneration = 0)
    BY ZenonT(30), <1>7 DEF StartMemorySnapshot, StartDurableSnapshot, FinalSnapshot, rollSegment, disk, memory, config
  <2>2. DirectoryInv'  BY ZenonT(30), <1>1, <2>1, DirectoryKept
  <2>3. MemoryInv'  BY ZenonT(30), <1>1, <2>1, MemoryKept
  <2>4. ImageInv'  BY ZenonT(30), <2>1, ImageBegun
  <2> QED  BY Zenon, <2>2, <2>3, <2>4
<1>8. CASE SnapshotStep
  <2>1. UNCHANGED <<status, seq, entries, evictionGeneration, shards>> /\ snapPC # "idle"
    BY ZenonT(30), <1>8 DEF SnapshotStep, CaptureShard, RebuildImage, SnapshotFails, DiscardSnapshot, RenameSnapshot,
      SyncDirectory, removeOtherSnapshots, deleteSegmentsBefore, SnapshotInstalled, SnapshotOnly, memory, config, writer
  <2>2. MemoryInv'  BY ZenonT(30), <1>1, <2>1, MemoryKept
  <2>3. DirectoryInv'
    <3>1. RenameSnapshot \/ removeOtherSnapshots \/ (snapshots' = snapshots /\ stable' \in {snapshots, stable})
      BY ZenonT(30), <1>8 DEF SnapshotStep, CaptureShard, RebuildImage, SnapshotFails, DiscardSnapshot,
        SyncDirectory, deleteSegmentsBefore, SnapshotInstalled, disk
    <3> QED  BY ZenonT(30), <1>1, <3>1, DirectoryInstalled, DirectoryRemoved, DirectoryKept
  <2>4. ImageInv'
    <3>1. \/ CaptureShard \/ RebuildImage \/ snapPC' = "idle"
          \/ snapPC' \in {"renamed", "remove", "prune"} /\ UNCHANGED <<snapMode, snapGeneration>>
      BY ZenonT(30), <1>8 DEF SnapshotStep, SnapshotFails, DiscardSnapshot, RenameSnapshot, SyncDirectory,
        removeOtherSnapshots, deleteSegmentsBefore, SnapshotInstalled, SnapshotEnds, snap
    <3> QED  BY ZenonT(30), <1>1, <2>1, <3>1, ImageCaptured, ImageRebuilt, ImageKept, ImageInstalled
  <2> QED  BY ZenonT(30), <2>2, <2>3, <2>4
<1> QED  BY ZenonT(30), <1>2, <1>3, <1>4, <1>5, <1>6, <1>7, <1>8 DEF Next, WriterStep
=============================================================================
