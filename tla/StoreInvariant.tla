--------------------------- MODULE StoreInvariant ---------------------------
(***************************************************************************)
(* The invariant of the store: the segment files form one chain of         *)
(* consecutive sequences that ends where the writer is; the invariants that*)
(* relate the files and the names of the snapshots to the history; and the *)
(* facts about them that the proofs about every part of the store use.     *)
(***************************************************************************)
EXTENDS DurableStore, WellFoundedInduction, TLAPS

-----------------------------------------------------------------------------
(* The least and the greatest element of a set of naturals.                *)

(* A set of naturals that is not empty has a least element.                *)
LEMMA LeastNatural ==
  ASSUME NEW T, T \subseteq Nat, T # {}
  PROVE  \E x \in T : \A y \in T : x <= y
<1> DEFINE R == OpToRel(<, Nat)
<1>1. IsWellFoundedOn(R, Nat)  BY ZenonT(30), NatLessThanWellFounded
<1>2. PICK x \in T : \A y \in T : ~ (<<y, x>> \in R)
  <2> HIDE DEF R
  <2> QED  BY ZenonT(30), <1>1, WFMin
<1>3. \A y \in T : <<y, x>> \notin R => x <= y  BY DEF OpToRel
<1> QED  BY ZenonT(30), <1>2, <1>3

(* Min is that element.                                                    *)
LEMMA MinFacts ==
  ASSUME NEW T, T \subseteq Nat, T # {}
  PROVE  Min(T) \in T /\ \A y \in T : Min(T) <= y
  BY ZenonT(30), LeastNatural DEF Min

(* A bounded set of naturals that is not empty has a greatest element.     *)
LEMMA GreatestNatural ==
  ASSUME NEW T, NEW n \in Nat, T \subseteq 0..n, T # {}
  PROVE  \E x \in T : \A y \in T : y <= x
<1> DEFINE U == {n - x : x \in T}
<1>1. \A x \in T : n - x \in Nat  OBVIOUS
<1>2. PICK u \in U : \A v \in U : u <= v
  <2>1. U \subseteq Nat /\ U # {}  BY ZenonT(30), <1>1
  <2> HIDE DEF U
  <2> QED  BY ZenonT(30), <2>1, LeastNatural
<1>3. PICK x \in T : u = n - x  BY <1>2
<1>4. \A y \in T : y <= x
  <2> TAKE y \in T
  <2>1. n - x <= n - y  BY ZenonT(30), <1>2, <1>3
  <2> QED  BY <2>1
<1> QED  BY <1>4

(* Max is that element.                                                    *)
LEMMA MaxFacts ==
  ASSUME NEW T, NEW n \in Nat, T \subseteq 0..n, T # {}
  PROVE  Max(T) \in T /\ \A y \in T : y <= Max(T)
<1>1. \E x \in T : \A y \in T : x >= y
  <2>1. PICK x \in T : \A y \in T : y <= x  BY ZenonT(30), GreatestNatural
  <2>2. \A y \in T : x >= y  BY <2>1
  <2> QED  BY <2>2
<1>2. Max(T) \in T /\ \A y \in T : Max(T) >= y  BY ZenonT(30), <1>1 DEF Max
<1> QED  BY <1>2

(* A set of records with bounded sequences has one with the greatest.      *)
LEMMA LatestRecord ==
  ASSUME NEW T, NEW n \in Nat, \A c \in T : c.seq \in 0..n, T # {}
  PROVE  \E c \in T : \A d \in T : d.seq <= c.seq
<1> DEFINE U == {c.seq : c \in T}
<1>1. U \subseteq 0..n /\ U # {}  OBVIOUS
<1>2. PICK u \in U : \A v \in U : v <= u
  <2> HIDE DEF U
  <2> QED  BY ZenonT(30), <1>1, GreatestNatural
<1> QED  BY <1>2

-----------------------------------------------------------------------------
(* The chain of segments.                                                  *)

(* The cells of the segment named f carry the sequences f, f + 1, ...; an  *)
(* incomplete record can only be the last cell.                            *)
Numbered(f, cells) ==
  \A i \in 1..Len(cells) :
    \/ cells[i].op # "torn" /\ cells[i].seq = f + i - 1
    \/ cells[i].op = "torn" /\ i = Len(cells)

(* The segments form a chain: a segment that has a successor is complete   *)
(* and synced, segments do not overlap, and each starts where its          *)
(* predecessor ends.                                                       *)
SegmentsType(S) ==
  /\ DOMAIN S \subseteq 1..(MaxSequence + 1) /\ S \in [DOMAIN S -> Segment]
  /\ \A f \in DOMAIN S : S[f].synced <= Len(S[f].cells)
Sealed(segment) == Whole(segment.cells) /\ segment.synced = Len(segment.cells)
Linked(S) ==
  /\ \A f, g \in DOMAIN S : f < g => Sealed(S[f]) /\ f + Len(S[f].cells) <= g
  /\ \A g \in DOMAIN S :
       (\E f \in DOMAIN S : f < g) => \E f \in DOMAIN S : f < g /\ f + Len(S[f].cells) = g
Chain(S) ==
  /\ SegmentsType(S)
  /\ \A f \in DOMAIN S : Numbered(f, S[f].cells)
  /\ Linked(S)

-----------------------------------------------------------------------------
(* Files of the directory, as a function of their names.                   *)

(* Creating or rewriting one file leaves the others alone.                 *)
LEMMA PutFacts ==
  ASSUME NEW F, NEW x, NEW v
  PROVE  /\ DOMAIN Put(F, x, v) = DOMAIN F \cup {x}
         /\ Put(F, x, v)[x] = v
         /\ \A y \in DOMAIN F : y # x => Put(F, x, v)[y] = F[y]
  BY Zenon DEF Put

(* What appending one buffer to a file does, cell by cell.                 *)
LEMMA ConcatFacts ==
  ASSUME NEW T, NEW s \in Seq(T), NEW t \in Seq(T)
  PROVE  /\ s \o t \in Seq(T) /\ Len(s) \in Nat /\ Len(t) \in Nat
         /\ Len(s \o t) = Len(s) + Len(t)
         /\ \A i \in 1..Len(s) : (s \o t)[i] = s[i]
         /\ \A i \in 1..Len(t) : (s \o t)[Len(s) + i] = t[i]
  OBVIOUS

(* What cutting a file to its first n cells leaves.                        *)
LEMMA PrefixFacts ==
  ASSUME NEW T, NEW s \in Seq(T), NEW n \in 0..Len(s)
  PROVE  /\ SubSeq(s, 1, n) \in Seq(T) /\ Len(SubSeq(s, 1, n)) = n
         /\ \A i \in 1..n : SubSeq(s, 1, n)[i] = s[i]
  OBVIOUS

(* Rewriting the last file of a chain, without moving its start, leaves a  *)
(* chain: appending, syncing and truncating.                               *)
LEMMA ChainRewritesLast ==
  ASSUME NEW S, Chain(S), NEW f \in DOMAIN S, \A g \in DOMAIN S : g <= f,
         NEW v \in Segment, v.synced <= Len(v.cells), Numbered(f, v.cells)
  PROVE  Chain(Put(S, f, v))
<1> DEFINE R == Put(S, f, v)
<1>1. DOMAIN R = DOMAIN S /\ R[f] = v /\ \A y \in DOMAIN S : y # f => R[y] = S[y]
  BY Zenon DEF Put
<1>2. \A y \in DOMAIN S : y \in Nat  BY DEF Chain, SegmentsType
<1> HIDE DEF R
<1>3. SegmentsType(R)
  <2>1. \A y \in DOMAIN R : R[y] \in Segment /\ R[y].synced <= Len(R[y].cells)
    BY Zenon, <1>1 DEF Chain, SegmentsType
  <2>2. R = [y \in DOMAIN R |-> R[y]]  BY Zenon DEF R, Put
  <2> QED  BY Zenon, <1>1, <2>1, <2>2 DEF Chain, SegmentsType
<1>4. \A y \in DOMAIN R : Numbered(y, R[y].cells)  BY Zenon, <1>1 DEF Chain
<1>5. \A y, g \in DOMAIN S : y < g => y # f  BY <1>2
<1>6. Linked(R)
  <2>1. \A y, g \in DOMAIN R : y < g => Sealed(R[y]) /\ y + Len(R[y].cells) <= g
    BY Zenon, <1>1, <1>5 DEF Chain, Linked
  <2>2. \A g \in DOMAIN R :
          (\E y \in DOMAIN R : y < g) => \E y \in DOMAIN R : y < g /\ y + Len(R[y].cells) = g
    BY Zenon, <1>1, <1>5 DEF Chain, Linked
  <2> QED  BY Zenon, <2>1, <2>2 DEF Linked
<1> QED  BY Zenon, <1>3, <1>4, <1>6 DEF Chain, R

(* Starting a file where the last one ends leaves a chain: rollSegment.    *)
LEMMA ChainExtends ==
  ASSUME NEW S, Chain(S), NEW f \in DOMAIN S, \A g \in DOMAIN S : g <= f, Sealed(S[f]),
         f + Len(S[f].cells) <= MaxSequence + 1
  PROVE  Chain(Put(S, f + Len(S[f].cells), NewSegment))
<1> DEFINE n == f + Len(S[f].cells)
           R == Put(S, n, NewSegment)
<1>1. /\ f \in 1..(MaxSequence + 1) /\ S[f].cells \in Seq(Cell) /\ Len(S[f].cells) \in Nat
      /\ MaxSequence \in Nat
  BY SMTT(30), ConstantsAssumption DEF Chain, SegmentsType, Segment
<1>2. n \in 1..(MaxSequence + 1) /\ f <= n  BY <1>1
<1>3. \A y \in DOMAIN S : y \in Nat /\ y <= n  BY <1>1 DEF Chain, SegmentsType
<1>4. NewSegment \in Segment /\ NewSegment.synced = 0 /\ Len(NewSegment.cells) = 0
  BY DEF NewSegment, Segment
<1>5. DOMAIN R = DOMAIN S \cup {n} /\ R[n] = NewSegment /\ \A y \in DOMAIN S : y # n => R[y] = S[y]
  BY Zenon DEF Put
<1>6. R = [y \in DOMAIN R |-> R[y]]  BY Zenon DEF Put
<1> HIDE DEF R
<1>7. SegmentsType(R)
  <2>1. \A y \in DOMAIN R : R[y] \in Segment /\ R[y].synced <= Len(R[y].cells)
    BY <1>4, <1>5 DEF Chain, SegmentsType
  <2> QED  BY Zenon, <1>2, <1>5, <1>6, <2>1 DEF Chain, SegmentsType
<1>8. \A y \in DOMAIN R : Numbered(y, R[y].cells)
  <2>1. Numbered(n, NewSegment.cells)  BY <1>4 DEF Numbered
  <2> QED  BY Zenon, <1>5, <2>1 DEF Chain
<1>9. Linked(R)
  <2>1. CASE n = f
    <3>1. Len(S[f].cells) = 0  BY <2>1, <1>1
    <3>2. \A y \in DOMAIN R : Len(R[y].cells) = Len(S[y].cells) /\ (y # n => R[y] = S[y])
      BY Zenon, <2>1, <3>1, <1>4, <1>5
    <3>3. DOMAIN R = DOMAIN S  BY Zenon, <2>1, <1>5
    <3>4. \A y, g \in DOMAIN S : y < g => y # n
      <4> HIDE DEF n
      <4> QED  BY <1>2, <1>3
    <3> QED  BY Zenon, <3>2, <3>3, <3>4 DEF Chain, Linked
  <2>2. CASE n # f
    <3>1. n \notin DOMAIN S  BY <2>2, <1>1, <1>3
    <3>2. \A y \in DOMAIN S : R[y] = S[y] /\ y < n  BY <3>1, <1>3, <1>2, <1>5
    <3>3. \A y \in DOMAIN S : Sealed(S[y]) /\ y + Len(S[y].cells) <= n
      <4> TAKE y \in DOMAIN S
      <4>1. CASE y = f  BY <4>1, <1>1
      <4>2. CASE y # f
        <5>1. y < f  BY <4>2, <1>1, <1>3
        <5>2. Sealed(S[y]) /\ y + Len(S[y].cells) <= f /\ Len(S[y].cells) \in Nat
          BY <5>1 DEF Chain, Linked, SegmentsType, Segment
        <5> QED  BY <5>2, <1>1, <1>2, <1>3
      <4> QED  BY Zenon, <4>1, <4>2
    <3>4. \A y, g \in DOMAIN R : y < g => Sealed(R[y]) /\ y + Len(R[y].cells) <= g
      <4> TAKE y, g \in DOMAIN R
      <4> HAVE y < g
      <4>1. y \in DOMAIN S  BY <1>3, <1>5, <1>2
      <4> QED  BY Zenon, <4>1, <3>2, <3>3, <1>5 DEF Chain, Linked
    <3>5. ASSUME NEW g \in DOMAIN R, \E y \in DOMAIN R : y < g
          PROVE  \E y \in DOMAIN R : y < g /\ y + Len(R[y].cells) = g
      <4>1. CASE g = n
        <5>1. f \in DOMAIN R /\ f < n /\ f + Len(R[f].cells) = n  BY Zenon, <3>2, <1>5
        <5> QED  BY Zenon, <4>1, <5>1
      <4>2. CASE g # n
        <5>1. g \in DOMAIN S  BY Zenon, <4>2, <1>5
        <5>2. \E y \in DOMAIN S : y < g  BY SMTT(30), <3>5, <5>1, <1>3, <1>5, <1>2
        <5> QED  BY Zenon, <5>1, <5>2, <3>2, <1>5 DEF Chain, Linked
      <4> QED  BY Zenon, <4>1, <4>2
    <3> QED  BY Zenon, <3>4, <3>5 DEF Linked
  <2> QED  BY Zenon, <2>1, <2>2
<1> QED  BY Zenon, <1>7, <1>8, <1>9 DEF Chain, R

(* Removing the first of several files leaves a chain: deleteSegmentsBefore*)
LEMMA ChainDropsFirst ==
  ASSUME NEW S, Chain(S), NEW f \in DOMAIN S, \A g \in DOMAIN S : f <= g
  PROVE  Chain(Restrict(S, DOMAIN S \ {f}))
<1> DEFINE R == Restrict(S, DOMAIN S \ {f})
<1>1. /\ DOMAIN R = DOMAIN S \ {f} /\ R = [y \in DOMAIN R |-> R[y]]
      /\ \A y \in DOMAIN R : R[y] = S[y]
  BY Zenon DEF Restrict
<1>2. \A y \in DOMAIN S : y \in Nat  BY DEF Chain, SegmentsType
<1> HIDE DEF R
<1>3. SegmentsType(R)  BY Zenon, <1>1 DEF Chain, SegmentsType
<1>4. \A y \in DOMAIN R : Numbered(y, R[y].cells)  BY Zenon, <1>1 DEF Chain
<1>5. ASSUME NEW g \in DOMAIN R, NEW x \in DOMAIN R, x < g
      PROVE  \E y \in DOMAIN R : y < g /\ y + Len(R[y].cells) = g
  <2>1. PICK y \in DOMAIN S : y < g /\ y + Len(S[y].cells) = g
    BY Zenon, <1>1, <1>5 DEF Chain, Linked
  <2>2. y # f
    <3> SUFFICES ASSUME y = f PROVE FALSE  OBVIOUS
    <3>1. f < x  BY <1>1, <1>2
    <3>2. f + Len(S[f].cells) <= x  BY Zenon, <3>1, <1>1 DEF Chain, Linked
    <3> QED  BY SMTT(30), <1>1, <1>2, <1>5, <2>1, <3>2
  <2> QED  BY Zenon, <1>1, <2>1, <2>2
<1>6. Linked(R)  BY Zenon, <1>1, <1>5 DEF Chain, Linked
<1> QED  BY Zenon, <1>3, <1>4, <1>6 DEF Chain, R

-----------------------------------------------------------------------------
(* Recovery: what Open finds in a directory whose segments form a chain.   *)

(* The extreme sequences of a snapshot header are sequences.               *)
LEMMA CoverFacts ==
  ASSUME NEW n \in Nat \ {0}, NEW cover \in [0..(n - 1) -> Sequence]
  PROVE  /\ Min(Range(cover)) \in Sequence /\ Max(Range(cover)) \in Sequence
         /\ \A i \in 0..(n - 1) : Min(Range(cover)) <= cover[i] /\ cover[i] <= Max(Range(cover))
         /\ \E i \in 0..(n - 1) : Min(Range(cover)) = cover[i]
<1>1. MaxSequence \in Nat  BY Zenon, ConstantsAssumption
<1>2. /\ Range(cover) \subseteq 0..MaxSequence /\ Range(cover) \subseteq Nat
      /\ \A i \in 0..(n - 1) : cover[i] \in Range(cover)
      /\ \A x \in Range(cover) : \E i \in 0..(n - 1) : x = cover[i]
  BY <1>1 DEF Range, Sequence
<1>3. Range(cover) # {}  BY <1>2
<1>4. Min(Range(cover)) \in Range(cover) /\ \A x \in Range(cover) : Min(Range(cover)) <= x
  BY Zenon, <1>2, <1>3, MinFacts
<1>5. Max(Range(cover)) \in Range(cover) /\ \A x \in Range(cover) : x <= Max(Range(cover))
  BY Zenon, <1>1, <1>2, <1>3, MaxFacts
<1> QED  BY Zenon, <1>2, <1>4, <1>5 DEF Sequence

(* The snapshot that Open loads, or the absent one.                        *)
LEMMA LoadedSnapshot ==
  ASSUME TypeOK
  PROVE  /\ \E n \in Nat \ {0} : loadSnapshot.cover \in [0..(n - 1) -> Sequence]
         /\ loadSnapshot.image \in Image
         /\ Lowest(loadSnapshot) \in Sequence /\ Highest(loadSnapshot) \in Sequence
<1>1. MaxSequence \in Nat /\ ShardCounts \subseteq Nat \ {0}
  BY Zenon, ConstantsAssumption DEF ShardCounts
<1>2. NoImage \in Image
  BY ConstantsAssumption DEF NoImage, Image, NoEntry, Entry, Sequence, Time
<1>3. \E n \in Nat \ {0} : loadSnapshot.cover \in [0..(n - 1) -> Sequence] /\ loadSnapshot.image \in Image
  <2>1. CASE DOMAIN snapshots = {}
    <3>1. loadSnapshot = NoSnapshot  BY Zenon, <2>1 DEF loadSnapshot
    <3>2. NoSnapshot.cover \in [0..(1 - 1) -> Sequence]  BY <1>1 DEF NoSnapshot, Sequence
    <3>3. NoSnapshot.image \in Image  BY Zenon, <1>2 DEF NoSnapshot
    <3>4. 1 \in Nat \ {0}  OBVIOUS
    <3> QED  BY Zenon, <3>1, <3>2, <3>3, <3>4
  <2>2. CASE DOMAIN snapshots # {}
    <3>1. Max(DOMAIN snapshots) \in DOMAIN snapshots
      BY Zenon, <1>1, <2>2, MaxFacts DEF TypeOK, DiskTypeOK, Sequence
    <3>2. loadSnapshot \in Snapshot  BY Zenon, <3>1, <2>2 DEF loadSnapshot, TypeOK, DiskTypeOK
    <3> QED  BY <3>2, <1>1 DEF Snapshot
  <2> QED  BY Zenon, <2>1, <2>2
<1>4. PICK n \in Nat \ {0} : loadSnapshot.cover \in [0..(n - 1) -> Sequence]  BY Zenon, <1>3
<1>5. Lowest(loadSnapshot) \in Sequence /\ Highest(loadSnapshot) \in Sequence
  BY Zenon, <1>4, CoverFacts DEF Lowest, Highest
<1> QED  BY Zenon, <1>3, <1>5

(* Replay starts at an existing file, and what it reads are records.       *)
LEMMA ReplayFacts ==
  ASSUME TypeOK, NEW s, Lowest(s) \in Sequence, NEW through \in Sequence,
         DOMAIN segments # {}, Min(DOMAIN segments) <= FirstRequired(s)
  PROVE  /\ StartSegment(s) \in DOMAIN segments /\ StartSegment(s) \in 1..MaxSequence
         /\ \A c \in Replayed(s, through) : c \in Cell /\ c.op # "torn" /\ c.seq \in Sequence
<1>1. MaxSequence \in Nat \ {0}  BY Zenon, ConstantsAssumption
<1>2. DOMAIN segments \subseteq 0..(MaxSequence + 1) /\ DOMAIN segments \subseteq Nat
  BY <1>1 DEF TypeOK, DiskTypeOK
<1>3. FirstRequired(s) \in 1..MaxSequence  BY <1>1 DEF FirstRequired, Sequence
<1> DEFINE early == {f \in DOMAIN segments : f <= FirstRequired(s)}
<1>4. early # {}
  <2>1. Min(DOMAIN segments) \in DOMAIN segments  BY Zenon, <1>2, MinFacts
  <2> QED  BY Zenon, <2>1
<1>5. Max(early) \in early
  <2>1. early \subseteq 0..(MaxSequence + 1) /\ MaxSequence + 1 \in Nat  BY <1>1, <1>2
  <2> HIDE DEF early
  <2> QED  BY Zenon, <1>4, <2>1, MaxFacts
<1>6. StartSegment(s) \in DOMAIN segments /\ StartSegment(s) \in 1..MaxSequence
  <2>1. StartSegment(s) = Max(early)  BY Zenon DEF StartSegment
  <2>2. Max(early) \in DOMAIN segments /\ Max(early) <= FirstRequired(s)  BY Zenon, <1>5
  <2>3. Max(early) \in 1..(MaxSequence + 1)  BY Zenon, <2>2 DEF TypeOK, DiskTypeOK
  <2> HIDE DEF early
  <2> QED  BY SMTT(30), <1>1, <1>3, <2>1, <2>2, <2>3
<1>7. ASSUME NEW c \in Replayed(s, through)
      PROVE  c \in Cell /\ c.op # "torn" /\ c.seq \in Sequence
  <2>1. PICK f \in ReplayFiles(s, through) : c \in Range(segments[f].cells)  BY Zenon DEF Replayed
  <2>2. f \in DOMAIN segments  BY Zenon DEF ReplayFiles
  <2>3. segments[f].cells \in Seq(Cell)  BY Zenon, <2>2 DEF TypeOK, DiskTypeOK, Segment
  <2>4. c \in Cell  BY <2>1, <2>3 DEF Range
  <2> QED  BY Zenon, <2>4 DEF Replayed, Cell
<1> QED  BY Zenon, <1>6, <1>7

(* Replaying over the image of a snapshot gives an image.                  *)
LEMMA ReplayImageType ==
  ASSUME TypeOK, NEW s, s.image \in Image, Lowest(s) \in Sequence, NEW n, NEW through \in Sequence,
         DOMAIN segments # {}, Min(DOMAIN segments) <= FirstRequired(s)
  PROVE  ReplayImage(s, n, through) \in Image
<1>1. MaxSequence \in Nat  BY Zenon, ConstantsAssumption
<1>2. ASSUME NEW k \in Keys  PROVE ReplayImage(s, n, through)[k] \in Entry
  <2> DEFINE later == {c \in Replayed(s, through) : c.key = k /\ c.seq > Cutoff(s, n, k)}
  <2>1. ReplayImage(s, n, through)[k] =
          IF later = {} THEN s.image[k] ELSE EntryOf(CHOOSE c \in later : \A d \in later : d.seq <= c.seq)
    BY Zenon DEF ReplayImage
  <2>2. s.image[k] \in Entry  BY Zenon DEF Image
  <2>3. \A c \in later : c \in Cell /\ c.seq \in 0..MaxSequence  BY Zenon, ReplayFacts DEF Sequence
  <2>4. \A c \in Cell : EntryOf(c) \in Entry
    BY ConstantsAssumption DEF Cell, EntryOf, Entry, NoEntry, Sequence, Time
  <2> HIDE DEF later
  <2>5. later # {} => (CHOOSE c \in later : \A d \in later : d.seq <= c.seq) \in later
    BY Zenon, <1>1, <2>3, LatestRecord
  <2> QED  BY Zenon, <2>1, <2>2, <2>3, <2>4, <2>5
<1> QED  BY Zenon, <1>2 DEF ReplayImage, Image

(* The last file with its torn tail cut off: a file of the same name that  *)
(* holds the same records.                                                 *)
LEMMA TrimmedLast ==
  ASSUME TypeOK, Chain(segments), DOMAIN segments # {}
  PROVE  LET cells == segments[LastSegment].cells
             whole == IF Whole(cells) THEN Len(cells) ELSE Len(cells) - 1
             v == WithoutTorn(segments[LastSegment])
         IN  /\ LastSegment \in DOMAIN segments /\ \A f \in DOMAIN segments : f <= LastSegment
             /\ v \in Segment /\ v.synced <= Len(v.cells)
             /\ Numbered(LastSegment, v.cells) /\ Whole(v.cells)
             /\ whole \in 0..Len(cells) /\ Len(v.cells) = whole
             /\ \A i \in 1..Len(cells) : cells[i].op # "torn" => i <= whole
             /\ \A i \in 1..whole : cells[i] \in Cell /\ cells[i].op # "torn" /\ cells[i].seq = LastSegment + i - 1
<1> DEFINE L == LastSegment
           cells == segments[L].cells
           whole == IF Whole(cells) THEN Len(cells) ELSE Len(cells) - 1
<1>1. MaxSequence \in Nat \ {0} /\ MaxSequence \in Sequence  BY ConstantsAssumption DEF Sequence
<1>2. \A f \in DOMAIN segments :
        /\ f \in 1..(MaxSequence + 1) /\ segments[f].cells \in Seq(Cell) /\ segments[f].synced \in Nat
        /\ Len(segments[f].cells) \in Nat /\ segments[f].synced <= Len(segments[f].cells)
        /\ Numbered(f, segments[f].cells)
  BY DEF Chain, SegmentsType, Segment
<1>3. L \in DOMAIN segments /\ \A f \in DOMAIN segments : f <= L
  BY <1>1, <1>2, MaxFacts DEF LastSegment
<1>4. /\ whole \in 0..Len(cells) /\ \A i \in 1..whole : cells[i].op # "torn"
      /\ \A i \in 1..Len(cells) : cells[i].op # "torn" => i <= whole
  <2>1. CASE Whole(cells)
    <3>1. whole = Len(cells)  BY Zenon, <2>1
    <3> QED  BY <3>1, <2>1, <1>2, <1>3 DEF Whole
  <2>2. CASE ~Whole(cells)
    <3>0. DOMAIN cells = 1..Len(cells)  BY <1>2, <1>3
    <3>1. PICK i \in 1..Len(cells) : cells[i].op = "torn"  BY Zenon, <2>2, <3>0 DEF Whole
    <3>2. i = Len(cells)  BY Zenon, <3>1, <1>2, <1>3 DEF Numbered
    <3>3. \A j \in 1..Len(cells) : cells[j].op = "torn" => j = Len(cells)  BY Zenon, <1>2, <1>3 DEF Numbered
    <3>4. whole = Len(cells) - 1  BY Zenon, <2>2
    <3> HIDE DEF whole, cells
    <3> QED  BY SMTT(30), <3>1, <3>2, <3>3, <3>4, <1>2, <1>3 DEF cells
  <2> QED  BY Zenon, <2>1, <2>2
<1>5. /\ WithoutTorn(segments[L]).cells = SubSeq(cells, 1, whole)
      /\ WithoutTorn(segments[L]).synced = Min({segments[L].synced, whole})
      /\ WithoutTorn(segments[L]) = [cells |-> SubSeq(cells, 1, whole), synced |-> Min({segments[L].synced, whole})]
  BY Zenon DEF WithoutTorn
<1>6. /\ SubSeq(cells, 1, whole) \in Seq(Cell) /\ Len(SubSeq(cells, 1, whole)) = whole
      /\ \A i \in 1..whole : SubSeq(cells, 1, whole)[i] = cells[i]
  <2>1. cells \in Seq(Cell)  BY Zenon, <1>2, <1>3
  <2> HIDE DEF whole, cells
  <2> QED  BY Zenon, <2>1, <1>4, PrefixFacts
<1>7. Min({segments[L].synced, whole}) \in Nat /\ Min({segments[L].synced, whole}) <= whole
  <2>1. segments[L].synced \in Nat /\ whole \in Nat  BY SMTT(30), <1>2, <1>3, <1>4
  <2> HIDE DEF whole
  <2>2. {segments[L].synced, whole} \subseteq Nat /\ {segments[L].synced, whole} # {}  BY Zenon, <2>1
  <2> QED  BY Zenon, <2>2, MinFacts
<1> HIDE DEF whole
<1>8. /\ WithoutTorn(segments[L]) \in Segment
      /\ WithoutTorn(segments[L]).synced <= Len(WithoutTorn(segments[L]).cells)
  BY Zenon, <1>5, <1>6, <1>7 DEF Segment
<1>0. \A i \in 1..whole : cells[i] \in Cell /\ cells[i].op # "torn" /\ cells[i].seq = L + i - 1
  <2>1. cells \in Seq(Cell) /\ Numbered(L, cells)  BY Zenon, <1>2, <1>3
  <2> HIDE DEF cells, L
  <2> TAKE i \in 1..whole
  <2>2. i \in 1..Len(cells) /\ cells[i].op # "torn"  BY <2>1, <1>4
  <2> QED  BY <2>1, <2>2 DEF Numbered
<1>9. Whole(SubSeq(cells, 1, whole)) /\ Numbered(L, SubSeq(cells, 1, whole))
  <2> HIDE DEF cells, L
  <2> QED  BY SMTT(30), <1>0, <1>4, <1>6 DEF Whole, Numbered
<1> QED  BY Zenon, <1>0, <1>3, <1>4, <1>5, <1>6, <1>8, <1>9 DEF whole

(* Open appends where the last record it recovered ends: with the torn     *)
(* tail cut off, the last file ends with the recovered sequence.           *)
LEMMA RecoversToTheEnd ==
  ASSUME TypeOK, Chain(segments), CanRecover, DOMAIN segments # {}
  PROVE  /\ LastSegment \in DOMAIN segments /\ \A f \in DOMAIN segments : f <= LastSegment
         /\ WithoutTorn(segments[LastSegment]) \in Segment
         /\ WithoutTorn(segments[LastSegment]).synced <= Len(WithoutTorn(segments[LastSegment]).cells)
         /\ Numbered(LastSegment, WithoutTorn(segments[LastSegment]).cells)
         /\ Whole(WithoutTorn(segments[LastSegment]).cells)
         /\ RecoveredSequence \in Sequence
         /\ LastSegment + Len(WithoutTorn(segments[LastSegment]).cells) = RecoveredSequence + 1
<1> DEFINE s == loadSnapshot
           L == LastSegment
           cells == segments[L].cells
           whole == IF Whole(cells) THEN Len(cells) ELSE Len(cells) - 1
           last == L + whole - 1
           start == StartSegment(s)
           seqs == {start - 1} \cup {c.seq : c \in Replayed(s, MaxSequence)}
<1>1. MaxSequence \in Nat \ {0} /\ MaxSequence \in Sequence  BY ConstantsAssumption DEF Sequence
<1>2. \A f \in DOMAIN segments :
        /\ f \in 1..(MaxSequence + 1) /\ segments[f].cells \in Seq(Cell)
        /\ Len(segments[f].cells) \in Nat /\ Numbered(f, segments[f].cells)
  BY DEF Chain, SegmentsType, Segment
<1>3. L \in DOMAIN segments /\ \A f \in DOMAIN segments : f <= L  BY Zenon, TrimmedLast
<1>4. /\ whole \in 0..Len(cells) /\ \A i \in 1..whole : cells[i].op # "torn"
      /\ \A i \in 1..Len(cells) : cells[i].op # "torn" => i <= whole
  BY Zenon, TrimmedLast
<1>5. /\ WithoutTorn(segments[L]) \in Segment
      /\ WithoutTorn(segments[L]).synced <= Len(WithoutTorn(segments[L]).cells)
      /\ Numbered(L, WithoutTorn(segments[L]).cells) /\ Whole(WithoutTorn(segments[L]).cells)
      /\ Len(WithoutTorn(segments[L]).cells) = whole
  BY Zenon, TrimmedLast
<1>0. \A i \in 1..whole : cells[i] \in Cell /\ cells[i].op # "torn" /\ cells[i].seq = L + i - 1
  BY Zenon, TrimmedLast
<1> HIDE DEF whole
<1>10. Lowest(s) \in Sequence /\ Min(DOMAIN segments) <= FirstRequired(s)
  BY Zenon, LoadedSnapshot DEF CanRecover, ScansLog
<1>11. /\ start \in DOMAIN segments /\ start \in 1..MaxSequence
       /\ \A c \in Replayed(s, MaxSequence) : c \in Cell /\ c.op # "torn" /\ c.seq \in Sequence
  BY Zenon, <1>1, <1>10, ReplayFacts
<1> HIDE DEF s, start, L
<1>12. seqs \subseteq 0..MaxSequence  BY <1>1, <1>11 DEF Sequence
<1>13. RecoveredSequence = Max(seqs)  BY Zenon DEF RecoveredSequence, LastReplayed, s, start
<1>14. \A x \in seqs : x <= last
  <2>1. start - 1 <= last  BY <1>2, <1>3, <1>4, <1>11
  <2>2. ASSUME NEW c \in Replayed(s, MaxSequence)  PROVE c.seq <= last
    <3>1. PICK f \in ReplayFiles(s, MaxSequence) : c \in Range(segments[f].cells)  BY Zenon DEF Replayed
    <3>2. f \in DOMAIN segments  BY Zenon DEF ReplayFiles
    <3>3. PICK i \in 1..Len(segments[f].cells) : c = segments[f].cells[i]
      BY SMTT(30), <3>1, <3>2, <1>2 DEF Range
    <3>4. c.seq = f + i - 1  BY Zenon, <3>2, <3>3, <1>2, <1>11 DEF Numbered
    <3>5. CASE f = L  BY SMTT(30), <3>3, <3>4, <3>5, <1>2, <1>3, <1>4, <1>11
    <3>6. CASE f # L
      <4>1. f < L  BY SMTT(30), <3>2, <3>6, <1>2, <1>3
      <4>2. f + Len(segments[f].cells) <= L  BY Zenon, <4>1, <3>2, <1>3 DEF Chain, Linked
      <4> QED  BY SMTT(30), <4>2, <3>2, <3>3, <3>4, <1>2, <1>3, <1>4
    <3> QED  BY Zenon, <3>5, <3>6
  <2> QED  BY Zenon, <2>1, <2>2
<1>15. last \in seqs
  <2>1. CASE whole > 0 /\ L <= MaxSequence
    <3>1. cells[whole].op # "torn" /\ cells[whole].seq = last
      BY SMTT(30), <2>1, <1>0, <1>4
    <3>2. L \in ReplayFiles(s, MaxSequence)
      BY Zenon, <2>1, <1>3, <1>11 DEF ReplayFiles, start
    <3>3. cells[whole] \in Range(segments[L].cells)
      BY SMTT(30), <2>1, <1>2, <1>3, <1>4 DEF Range
    <3>4. cells[whole].seq <= MaxSequence
      BY <2>1, <1>0, <1>4 DEF Cell, Sequence
    <3>5. cells[whole] \in Replayed(s, MaxSequence)  BY Zenon, <3>1, <3>2, <3>3, <3>4 DEF Replayed
    <3> QED  BY ZenonT(30), <3>1, <3>5
  <2>2. CASE whole > 0 /\ L > MaxSequence
    <3>1. cells[whole] \in Cell /\ cells[whole].seq = last
      BY SMTT(30), <2>2, <1>0, <1>4
    <3>2. last \in 0..MaxSequence  BY Zenon, <3>1 DEF Cell, Sequence
    <3> QED  BY SMTT(30), <2>2, <3>2, <1>1, <1>2, <1>3, <1>4
  <2>3. CASE whole = 0 /\ L = start  BY <2>3, <1>2, <1>3
  <2>4. CASE whole = 0 /\ L # start
    <3>1. start < L  BY <2>4, <1>2, <1>3, <1>11
    <3>2. PICK g \in DOMAIN segments : g < L /\ g + Len(segments[g].cells) = L
      BY Zenon, <3>1, <1>3, <1>11 DEF Chain, Linked
    <3>3. start <= g
      <4> SUFFICES ASSUME g < start PROVE FALSE  BY SMTT(30), <1>2, <1>11
      <4>1. g + Len(segments[g].cells) <= start  BY Zenon, <1>11 DEF Chain, Linked
      <4> QED  BY SMTT(30), <4>1, <3>1, <3>2, <1>2, <1>3, <1>11
    <3>4. Len(segments[g].cells) \in Nat \ {0} /\ g <= MaxSequence  BY SMTT(30), <3>2, <1>1, <1>2, <1>3
    <3> DEFINE c == segments[g].cells[Len(segments[g].cells)]
    <3>5. c \in Cell /\ c \in Range(segments[g].cells) /\ c.op # "torn" /\ c.seq = L - 1
      <4>1. Whole(segments[g].cells)  BY Zenon, <3>2, <1>3 DEF Chain, Linked, Sealed
      <4>2. c \in Cell /\ c \in Range(segments[g].cells) /\ c.op # "torn"
        BY SMTT(30), <4>1, <3>4, <1>2 DEF Whole, Range
      <4>3. Numbered(g, segments[g].cells) /\ Len(segments[g].cells) \in 1..Len(segments[g].cells)
        BY <3>4, <1>2
      <4>4. c.seq = g + Len(segments[g].cells) - 1  BY Zenon, <4>2, <4>3 DEF Numbered
      <4>5. c.seq = L - 1
        <5> DEFINE n == Len(segments[g].cells)
        <5>1. c.seq = g + n - 1 /\ g + n = L  BY Zenon, <4>4, <3>2
        <5>2. g \in Int /\ n \in Int /\ L \in Int  BY <1>2, <1>3
        <5> HIDE DEF c, n
        <5> QED  BY <5>1, <5>2
      <4> QED  BY Zenon, <4>2, <4>5
    <3>6. g \in ReplayFiles(s, MaxSequence)  BY Zenon, <3>3, <3>4 DEF ReplayFiles, start
    <3> HIDE DEF c
    <3>7. c \in Replayed(s, MaxSequence)  BY SMTT(30), <3>5, <3>6 DEF Replayed, Cell, Sequence
    <3>8. last = L - 1  BY SMTT(30), <2>4, <1>2, <1>3
    <3> QED  BY Zenon, <3>5, <3>7, <3>8
  <2> QED  BY SMTT(30), <2>1, <2>2, <2>3, <2>4, <1>1, <1>2, <1>3, <1>4
<1>16. RecoveredSequence = last
  <2>1. last \in 0..MaxSequence  BY Zenon, <1>12, <1>15
  <2> HIDE DEF seqs, last
  <2>2. Max(seqs) \in seqs /\ \A x \in seqs : x <= Max(seqs)  BY Zenon, <1>1, <1>12, <1>15, MaxFacts
  <2>3. Max(seqs) \in 0..MaxSequence /\ Max(seqs) <= last /\ last <= Max(seqs)
    BY Zenon, <2>2, <1>12, <1>14, <1>15
  <2> QED  BY SMTT(30), <1>13, <2>1, <2>3
<1>17. RecoveredSequence \in Sequence /\ L + whole = RecoveredSequence + 1
  BY SMTT(30), <1>2, <1>3, <1>4, <1>12, <1>15, <1>16 DEF Sequence
<1> QED  BY Zenon, <1>3, <1>5, <1>17 DEF L

-----------------------------------------------------------------------------
(* The invariant.                                                          *)

(* While the process is up and not latched, the writer appends to the last *)
(* file, which ends with the record it applied last or has pending.  A     *)
(* latched one may have left a newer, empty file behind.                   *)
AtTheEnd ==
  /\ \A f \in DOMAIN segments : f <= current
  /\ Whole(segments[current].cells)
  /\ current + Len(segments[current].cells) = seq + Len(pending) + 1
LogInv ==
  /\ Chain(segments)
  /\ status = "up" =>
       /\ current \in DOMAIN segments
       /\ \A f \in DOMAIN segments : f <= current \/ f > seq
       /\ ~latched => AtTheEnd

(* What the writer is about to do, by where it is.                         *)
WriterInv ==
  /\ status # "up" => pc = "idle" /\ snapPC = "idle"
  /\ pc \in {"write", "apply"} => ~latched
  /\ pc = "write" => batch # <<>>
  /\ pc = "apply" <=> pending # <<>>
  /\ \A i \in 1..Len(pending) : pending[i].seq = seq + i /\ pending[i].op # "torn"
  /\ status = "up" => logSequence = seq

(* A snapshot covers nothing the writer has not applied, and from its      *)
(* rename on it is where the steps that follow take it to be.              *)
SnapInv ==
  /\ snapPC # "idle" => \A i \in 0..(shards - 1) : snapCover[i] <= seq
  /\ snapPC \in {"renamed", "remove", "prune"} =>
       SnapName \in DOMAIN snapshots /\ snapshots[SnapName].cover = snapCover
  /\ snapPC \in {"remove", "prune"} =>
       SnapName \in DOMAIN stable /\ stable[SnapName].cover = snapCover

Inv == TypeOK /\ LogInv /\ WriterInv /\ SnapInv

-----------------------------------------------------------------------------
(* What a step that leaves some variables alone keeps.                     *)

(* The conjuncts of the invariant by the variables they are about.         *)
LEMMA Kept ==
  ASSUME Inv
  PROVE  /\ UNCHANGED disk => DiskTypeOK'
         /\ UNCHANGED <<status, config, memory, latched, writer>> => ProcessTypeOK'
         /\ UNCHANGED <<snap, shards>> => SnapshotTypeOK'
         /\ UNCHANGED <<now, callers>> => CallersTypeOK'
         /\ UNCHANGED <<segments, status, current, seq, pending>> /\ (latched => latched') => LogInv'
         /\ UNCHANGED <<status, pc, latched, batch, pending, seq, logSequence>>
              /\ (snapPC = "idle" => snapPC' = "idle") => WriterInv'
         /\ UNCHANGED <<snapPC, shards, snapCover, seq, snapshots, stable>> => SnapInv'
<1>1. UNCHANGED disk => DiskTypeOK'  BY Zenon DEF Inv, TypeOK, DiskTypeOK, disk
<1>2. UNCHANGED <<status, config, memory, latched, writer>> => ProcessTypeOK'
  BY Zenon DEF Inv, TypeOK, ProcessTypeOK, config, memory, writer
<1>3. UNCHANGED <<snap, shards>> => SnapshotTypeOK'  BY Zenon DEF Inv, TypeOK, SnapshotTypeOK, snap
<1>4. UNCHANGED <<now, callers>> => CallersTypeOK'  BY Zenon DEF Inv, TypeOK, CallersTypeOK, callers
<1>5. UNCHANGED <<segments, status, current, seq, pending>> /\ (latched => latched') => LogInv'
  BY Zenon DEF Inv, LogInv, AtTheEnd
<1>6. UNCHANGED <<status, pc, latched, batch, pending, seq, logSequence>>
        /\ (snapPC = "idle" => snapPC' = "idle") => WriterInv'
  BY DEF Inv, WriterInv
<1>7. UNCHANGED <<snapPC, shards, snapCover, seq, snapshots, stable>> => SnapInv'
  BY Zenon DEF Inv, SnapInv, SnapName
<1> QED  BY ZenonT(30), <1>1, <1>2, <1>3, <1>4, <1>5, <1>6, <1>7

(* Constants of the right type.                                            *)
LEMMA NoImageType == NoImage \in Image /\ 0 \in Sequence /\ MaxSequence \in Nat \ {0}
  BY ConstantsAssumption DEF NoImage, Image, NoEntry, Entry, Time, Sequence

(* Deleting, reclaiming and evicting leave an image.                       *)
LEMMA WithoutType ==
  ASSUME NEW image \in Image, NEW gone
  PROVE  Without(image, gone) \in Image
  BY Zenon, NoImageType DEF Without, Image, NoImage, NoEntry, Entry

(* A snapshot that is over leaves nothing behind in the process.           *)
LEMMA EndedSnapshot ==
  ASSUME SnapshotEnds
  PROVE  SnapshotTypeOK' /\ SnapInv'
<1>1. SnapshotTypeOK'  BY Zenon, NoImageType DEF SnapshotEnds, SnapshotTypeOK
<1>2. SnapInv'  BY Zenon DEF SnapshotEnds, SnapInv
<1> QED  BY Zenon, <1>1, <1>2

(* A process that has ended: Close, a crash or a power loss.               *)
LEMMA EndedProcess ==
  ASSUME ProcessEnds
  PROVE  /\ ProcessTypeOK' /\ SnapshotTypeOK' /\ WriterInv' /\ SnapInv'
         /\ Chain(segments') => LogInv'
<1>1. ProcessTypeOK'
  <2>1. <<>> \in Seq(Requests) /\ <<>> \in Seq(Cell)  OBVIOUS
  <2>2. 0 \in 0..(MaxSequence + 1) /\ 1 \in Nat \ {0} /\ 0 \in Nat  BY NoImageType
  <2>3. latched' \in BOOLEAN  BY Zenon DEF ProcessEnds
  <2> QED  BY Zenon, <2>1, <2>2, <2>3, NoImageType DEF ProcessEnds, ProcessTypeOK
<1>2. SnapshotTypeOK'  BY Zenon, NoImageType DEF ProcessEnds, SnapshotTypeOK
<1>3. WriterInv' /\ SnapInv'  BY DEF ProcessEnds, WriterInv, SnapInv
<1>4. Chain(segments') => LogInv'  BY Zenon DEF ProcessEnds, LogInv
<1> QED  BY Zenon, <1>1, <1>2, <1>3, <1>4

(* A snapshot that begins covers at most what the writer has applied.      *)
LEMMA BegunSnapshot ==
  ASSUME Inv, BeginCapture \/ BeginRebuild, UNCHANGED <<shards, seq, snapshots, stable>>
  PROVE  SnapshotTypeOK' /\ SnapInv' /\ snapPC' \in {"capture", "rebuild"}
<1>1. seq \in Sequence /\ shards \in Nat \ {0} /\ evictionGeneration \in Nat
  BY Zenon DEF Inv, TypeOK, ProcessTypeOK
<1>2. \A i \in 0..(shards - 1) : 0 <= seq /\ seq <= seq  BY <1>1 DEF Sequence
<1>3. PICK x \in {0, seq} : snapCover' = [i \in 0..(shards - 1) |-> x]
  BY Zenon DEF BeginCapture, BeginRebuild
<1>4. x \in Sequence /\ x <= seq  BY SMTT(30), <1>1, <1>3, NoImageType DEF Sequence
<1>5. /\ snapPC' \in {"capture", "rebuild"} /\ snapMode' \in {"memory", "durable"}
      /\ snapGeneration' \in Nat /\ snapThrough' \in Sequence /\ snapNext' \in Nat
      /\ snapImage' = NoImage
  BY <1>1, NoImageType DEF BeginCapture, BeginRebuild
<1>6. SnapshotTypeOK'  BY Zenon, <1>3, <1>4, <1>5, NoImageType DEF SnapshotTypeOK
<1>7. SnapInv'
  <2>1. \A i \in 0..(shards - 1) : snapCover'[i] <= seq  BY Zenon, <1>3, <1>4
  <2> QED  BY Zenon, <1>5, <2>1 DEF SnapInv
<1> QED  BY Zenon, <1>5, <1>6, <1>7

(* The name of a snapshot is a sequence the writer has applied.            *)
LEMMA SnapNameFacts ==
  ASSUME Inv, snapPC # "idle"
  PROVE  SnapName \in Sequence /\ SnapName <= seq /\ Lowest([cover |-> snapCover]) = SnapName
<1>1. shards \in Nat \ {0} /\ snapCover \in [0..(shards - 1) -> Sequence]
  BY Zenon DEF Inv, TypeOK, ProcessTypeOK, SnapshotTypeOK
<1>2. SnapName \in Sequence /\ \E i \in 0..(shards - 1) : SnapName = snapCover[i]
  BY Zenon, <1>1, CoverFacts DEF SnapName
<1>3. SnapName <= seq  BY Zenon, <1>2 DEF Inv, SnapInv
<1> QED  BY Zenon, <1>2, <1>3 DEF Lowest, SnapName

(* The files a snapshot supersedes are the first ones, and never the file  *)
(* the writer appends to.                                                  *)
LEMMA FirstSuperseded ==
  ASSUME Inv, snapPC = "prune", Superseded(SnapName) # {}
  PROVE  LET m == Min(Superseded(SnapName))
         IN  /\ m \in DOMAIN segments /\ m # current
             /\ \A y \in DOMAIN segments : m <= y
             /\ \E g \in DOMAIN segments : m < g /\ g <= SnapName
<1> DEFINE m == Min(Superseded(SnapName))
<1>1. \A y \in DOMAIN segments : y \in Nat  BY SMTT(30) DEF Inv, TypeOK, DiskTypeOK
<1>2. SnapName \in Nat /\ SnapName <= seq /\ seq \in Nat /\ status = "up"
  BY SnapNameFacts, NoImageType DEF Inv, WriterInv, TypeOK, ProcessTypeOK, Sequence
<1>3. Superseded(SnapName) \subseteq Nat  BY Zenon, <1>1 DEF Superseded
<1>4. m \in Superseded(SnapName) /\ \A y \in Superseded(SnapName) : m <= y  BY Zenon, <1>3, MinFacts
<1> HIDE DEF m
<1>5. PICK g \in DOMAIN segments : m < g /\ g <= SnapName  BY Zenon, <1>4 DEF Superseded
<1>6. m \in DOMAIN segments  BY Zenon, <1>4 DEF Superseded
<1>7. m # current
  <2> SUFFICES ASSUME m = current PROVE FALSE  OBVIOUS
  <2>1. g <= current \/ g > seq  BY Zenon, <1>2 DEF Inv, LogInv
  <2> QED  BY SMTT(30), <2>1, <1>1, <1>2, <1>5, <1>6
<1>8. ASSUME NEW y \in DOMAIN segments, ~(m <= y)  PROVE FALSE
  <2>1. y < g  BY SMTT(30), <1>1, <1>5, <1>6, <1>8
  <2>2. y \in Superseded(SnapName)  BY Zenon, <2>1, <1>5 DEF Superseded
  <2> QED  BY Zenon, <2>2, <1>4, <1>8
<1> QED  BY Zenon, <1>5, <1>6, <1>7, <1>8 DEF m

-----------------------------------------------------------------------------
(* What the writer writes and what rolling does to the files.              *)

(* Where the writer is when it has a batch to write.                       *)
LEMMA WritingFacts ==
  ASSUME Inv, pc = "write"
  PROVE  /\ status = "up" /\ ~latched /\ batch # <<>> /\ pending = <<>>
         /\ current \in DOMAIN segments /\ \A f \in DOMAIN segments : f <= current
         /\ Whole(segments[current].cells)
         /\ current + Len(segments[current].cells) = seq + 1
         /\ current \in Nat /\ seq \in Sequence /\ segments[current].cells \in Seq(Cell)
<1>1. status = "up" /\ ~latched /\ batch # <<>> /\ pending = <<>>  BY Zenon DEF Inv, WriterInv
<1>2. current \in DOMAIN segments /\ AtTheEnd  BY Zenon, <1>1 DEF Inv, LogInv
<1>3. Len(pending) = 0  BY Zenon, <1>1
<1>4. current \in Nat /\ seq \in Sequence /\ segments[current].cells \in Seq(Cell)
  BY SMTT(30), <1>2, NoImageType DEF Inv, TypeOK, DiskTypeOK, ProcessTypeOK, Segment
<1>5. current + Len(segments[current].cells) = seq + 1
  BY <1>2, <1>3, <1>4 DEF AtTheEnd, Sequence
<1> QED  BY ZenonT(30), <1>1, <1>2, <1>4, <1>5 DEF AtTheEnd

(* The next chunk: at least one record, numbered from log.seq + 1, within  *)
(* the sequence space.                                                     *)
LEMMA ChunkFacts ==
  ASSUME Inv, CanWrite
  PROVE  /\ ChunkLength \in 1..Len(batch) /\ seq + ChunkLength <= MaxSequence
         /\ Chunk \in Seq(Cell) /\ Len(Chunk) = ChunkLength
         /\ \A i \in 1..ChunkLength : Chunk[i].op # "torn" /\ Chunk[i].seq = seq + i
<1> DEFINE room == Min({Len(batch), MaxSequence - seq})
           fits == {m \in 1..room : m = 1 \/ Len(CurrentCells) + m - 1 <= SegmentSize}
<1>1. /\ batch \in Seq(Requests) /\ Len(batch) \in Nat \ {0} /\ MaxSequence \in Nat
      /\ seq \in Nat /\ MaxSequence - seq \in Nat \ {0}
  <2>1. batch \in Seq(Requests) /\ batch # <<>> /\ seq \in Sequence /\ seq # MaxSequence
    BY Zenon, WritingFacts DEF CanWrite, Inv, TypeOK, ProcessTypeOK
  <2> QED  BY SMTT(30), <2>1, NoImageType DEF Sequence
<1>2. room \in {Len(batch), MaxSequence - seq} /\ room <= Len(batch) /\ room <= MaxSequence - seq
  <2>1. {Len(batch), MaxSequence - seq} \subseteq Nat  BY Zenon, <1>1
  <2> QED  BY Zenon, <2>1, MinFacts
<1> HIDE DEF room
<1>3. room \in Nat \ {0}  BY Zenon, <1>1, <1>2
<1>4. fits \subseteq 0..room /\ 1 \in fits  BY <1>3
<1>5. Max(fits) \in fits
  <2> HIDE DEF fits
  <2> QED  BY Zenon, <1>3, <1>4, MaxFacts
<1>6. ChunkLength = Max(fits)  BY Zenon DEF ChunkLength, room
<1>7. ChunkLength \in 1..room  BY Zenon, <1>5, <1>6
<1> HIDE DEF fits
<1>8. ChunkLength \in 1..Len(batch) /\ seq + ChunkLength <= MaxSequence
  BY SMTT(30), <1>1, <1>2, <1>3, <1>7
<1> DEFINE n == ChunkLength
<1> HIDE DEF n
<1>9. n \in 1..Len(batch) /\ seq + n <= MaxSequence /\ Chunk = [i \in 1..n |-> RecordOf(batch[i], seq + i)]
  BY Zenon, <1>8 DEF Chunk, n
<1>10. ASSUME NEW i \in 1..n
       PROVE  /\ RecordOf(batch[i], seq + i) \in Cell /\ RecordOf(batch[i], seq + i).op # "torn"
              /\ RecordOf(batch[i], seq + i).seq = seq + i
  <2>1. batch[i] \in Request  BY <1>1, <1>9, ConstantsAssumption
  <2>2. seq + i \in Sequence  BY SMTT(30), <1>1, <1>9 DEF Sequence
  <2>3. /\ batch[i].op \in {"set", "delete"} /\ batch[i].key \in Keys /\ batch[i].deadline \in Time
    BY <2>1, ConstantsAssumption DEF Request, Time
  <2> QED  BY ZenonT(30), <2>2, <2>3 DEF RecordOf, Cell
<1>11. Chunk \in Seq(Cell) /\ Len(Chunk) = n /\ \A i \in 1..n : Chunk[i] = RecordOf(batch[i], seq + i)
  BY <1>1, <1>9, <1>10
<1> QED  BY Zenon, <1>8, <1>10, <1>11 DEF n

(* A sync changes no record and leaves a chain.                            *)
LEMMA SyncedFacts ==
  ASSUME Inv, status = "up"
  PROVE  /\ Chain(Synced(current)) /\ DOMAIN Synced(current) = DOMAIN segments
         /\ \A f \in DOMAIN segments : Synced(current)[f].cells = segments[f].cells
         /\ Synced(current)[current].synced = Len(segments[current].cells)
<1> DEFINE old == segments[current]
           v == [cells |-> old.cells, synced |-> Len(old.cells)]
<1>1. Chain(segments) /\ current \in DOMAIN segments  BY Zenon DEF Inv, LogInv
<1>2. /\ segments \in [DOMAIN segments -> Segment] /\ old \in Segment /\ Numbered(current, old.cells)
      /\ \A f \in DOMAIN segments : f \in Nat
  BY <1>1 DEF Chain, SegmentsType
<1>3. v \in Segment /\ v.synced <= Len(v.cells) /\ v.cells = old.cells /\ v.synced = Len(old.cells)
  BY <1>2 DEF Segment
<1>4. Synced(current) = Put(segments, current, v)  BY Zenon DEF Synced
<1> HIDE DEF v
<1>5. /\ DOMAIN Synced(current) = DOMAIN segments /\ Synced(current)[current] = v
      /\ \A f \in DOMAIN segments : f # current => Synced(current)[f] = segments[f]
  <2>1. /\ DOMAIN Put(segments, current, v) = DOMAIN segments \cup {current}
        /\ Put(segments, current, v)[current] = v
        /\ \A f \in DOMAIN segments : f # current => Put(segments, current, v)[f] = segments[f]
    BY Zenon DEF Put
  <2> QED  BY Zenon, <2>1, <1>1, <1>4
<1>6. Chain(Synced(current))
  <2>1. CASE \A f \in DOMAIN segments : f <= current
    BY ZenonT(30), <2>1, <1>1, <1>2, <1>3, <1>4, ChainRewritesLast
  <2>2. CASE \E f \in DOMAIN segments : ~(f <= current)
    <3>1. PICK f \in DOMAIN segments : current < f  BY SMTT(30), <2>2, <1>1, <1>2
    <3>2. old.synced = Len(old.cells)  BY Zenon, <3>1, <1>1 DEF Chain, Linked, Sealed
    <3>3. v = old  BY Zenon, <3>2, <1>2 DEF v, Segment
    <3>4. Put(segments, current, v) = segments  BY ZenonT(30), <3>3, <1>1, <1>2 DEF Put
    <3> QED  BY Zenon, <3>4, <1>1, <1>4
  <2> QED  BY Zenon, <2>1, <2>2
<1> QED  BY Zenon, <1>3, <1>5, <1>6

(* rollSegment starts the next file where the last one ends; when it fails *)
(* it may have done so too.                                                *)
LEMMA RollFacts ==
  ASSUME Inv, status = "up", ~latched, pending = <<>>, seq # MaxSequence
  PROVE  LET rolled == Put(Synced(current), seq + 1, NewSegment)
         IN  /\ Chain(rolled) /\ DOMAIN rolled = DOMAIN segments \cup {seq + 1}
             /\ rolled[seq + 1] = NewSegment /\ seq + 1 \in 1..MaxSequence
             /\ \A f \in DOMAIN rolled : f <= seq + 1
<1> DEFINE n == Len(segments[current].cells)
           S == Synced(current)
<1>1. Len(pending) = 0  OBVIOUS
<1>2. /\ current \in DOMAIN segments /\ \A f \in DOMAIN segments : f <= current
      /\ Whole(segments[current].cells) /\ current + n = seq + Len(pending) + 1
  BY Zenon DEF Inv, LogInv, AtTheEnd
<1>3. seq \in Nat /\ MaxSequence \in Nat /\ seq + 1 \in 1..MaxSequence
  BY NoImageType DEF Inv, TypeOK, ProcessTypeOK, Sequence
<1>4. /\ current \in Nat /\ segments[current].cells \in Seq(Cell) /\ n \in Nat
      /\ \A f \in DOMAIN segments : f \in Nat
  BY <1>2 DEF Inv, TypeOK, DiskTypeOK, Segment
<1>5. /\ Chain(S) /\ DOMAIN S = DOMAIN segments /\ S[current].cells = segments[current].cells
      /\ S[current].synced = n
  BY Zenon, <1>2, SyncedFacts
<1> HIDE DEF n, S
<1>6. current + n = seq + 1  BY SMTT(30), <1>1, <1>2, <1>3, <1>4
<1>7. Len(S[current].cells) = n  BY Zenon, <1>5 DEF n
<1>8. Sealed(S[current])  BY ZenonT(30), <1>2, <1>5, <1>7 DEF Sealed
<1>9. Chain(Put(S, current + n, NewSegment))
  <2>1. current + Len(S[current].cells) <= MaxSequence + 1  BY SMTT(30), <1>3, <1>6, <1>7
  <2> QED  BY ZenonT(30), <2>1, <1>2, <1>5, <1>7, <1>8, ChainExtends
<1>10. current <= seq + 1  BY SMTT(30), <1>3, <1>4, <1>6
<1>11. \A f \in DOMAIN segments : f <= seq + 1  BY SMTT(30), <1>2, <1>3, <1>4, <1>10
<1>12. Chain(Put(S, seq + 1, NewSegment))  BY Zenon, <1>6, <1>9
<1>13. /\ DOMAIN Put(S, seq + 1, NewSegment) = DOMAIN S \cup {seq + 1}
       /\ Put(S, seq + 1, NewSegment)[seq + 1] = NewSegment
  BY Zenon DEF Put
<1>14. seq + 1 <= seq + 1  BY <1>3
<1>15. \A f \in DOMAIN Put(S, seq + 1, NewSegment) : f <= seq + 1  BY ZenonT(30), <1>5, <1>11, <1>13, <1>14
<1> QED  BY ZenonT(30), <1>3, <1>5, <1>12, <1>13, <1>15 DEF S

-----------------------------------------------------------------------------
(* The files hold the history.                                             *)

(* The cells of a file without its torn tail.                              *)
WholeLength(cells) == IF Whole(cells) THEN Len(cells) ELSE Len(cells) - 1

(* Segments S hold records of the history H, and the last one ends where   *)
(* a history of n records ends.                                            *)
Holds(S, H) ==
  \A f \in DOMAIN S : \A i \in 1..Len(S[f].cells) :
    S[f].cells[i].op # "torn" => f + i - 1 <= Len(H) /\ S[f].cells[i] = H[f + i - 1]
IsLast(f, S) == f \in DOMAIN S /\ \A g \in DOMAIN S : g <= f
EndsAt(S, n) == \A f \in DOMAIN S : IsLast(f, S) => f + WholeLength(S[f].cells) = n + 1

(* The first n records are synced, or in files before the last one.        *)
SyncedThrough(S, n) == \A f \in DOMAIN S : IsLast(f, S) => n < f + S[f].synced

Numbers(H) == \A i \in 1..Len(H) : H[i].seq = i /\ H[i].op # "torn"

RecordsInv ==
  /\ Numbers(history) /\ Holds(segments, history) /\ EndsAt(segments, Len(history))
  /\ DOMAIN segments = {} => history = <<>> /\ DOMAIN snapshots = {} /\ DOMAIN stable = {}

(* What callers were told is in the history, and what the writer has still *)
(* to apply is the end of it.                                              *)
AnswersInv ==
  /\ acked <= Len(history) /\ promised <= Len(history) /\ SyncedThrough(segments, promised)
  /\ status = "up" =>
       /\ acked <= seq /\ seq + Len(pending) <= Len(history)
       /\ \A i \in 1..Len(pending) : pending[i] = history[seq + i]

-----------------------------------------------------------------------------
(* Names and covers of the snapshots.                                      *)

(* Snapshots S cover nothing after sequence n.                             *)
Within(S, n) == \A name \in DOMAIN S : \A j \in DOMAIN S[name].cover : S[name].cover[j] <= n

(* A snapshot is named for its lowest sequence, and a later one starts     *)
(* where all shards of an earlier one have passed.                         *)
Ordered(S) ==
  \A a \in DOMAIN S :
    /\ Lowest(S[a]) = a
    /\ \A b \in DOMAIN S : a < b => \A j \in DOMAIN S[a].cover : S[a].cover[j] <= b

(* The first segment is the first one ever, or a snapshot on stable        *)
(* storage reaches the segments that are left.                             *)
PrunedCovered ==
  \/ DOMAIN segments = {} \/ 1 \in DOMAIN segments
  \/ \E name \in DOMAIN snapshots \cap DOMAIN stable : \E f \in DOMAIN segments : f <= name

NamesInv ==
  /\ Ordered(snapshots) /\ Ordered(stable)
  /\ Within(snapshots, Len(history)) => Within(stable, Len(history))
  /\ "power" \notin Faults => Within(snapshots, Len(history))
  /\ status = "up" => Within(snapshots, seq) /\ Within(stable, seq)
  /\ PrunedCovered

(* A snapshot in progress starts where the installed ones have passed.     *)
CoversInv ==
  /\ snapPC \in {"capture", "rebuild", "ready"} =>
       \A name \in DOMAIN snapshots : \A i \in DOMAIN snapshots[name].cover, j \in 0..(shards - 1) :
         (snapPC = "capture" => j < snapNext) => snapshots[name].cover[i] <= snapCover[j]
  /\ snapPC \in {"renamed", "remove", "prune"} => \A name \in DOMAIN snapshots : name <= SnapName

-----------------------------------------------------------------------------
(* Steps and the history.                                                  *)

(* Time and the history go on: records are appended by a running process   *)
(* or lost from the end.                                                   *)
Continues ==
  /\ history' \in Seq(Cell) /\ now \in Nat /\ now' \in Nat /\ now <= now'
  /\ \A i \in 1..Len(history') : i <= Len(history) => history'[i] = history[i]
  /\ status = "up" \/ Len(history') <= Len(history)

(* Sets of keys can be counted, as the eviction counter does.              *)
Counts == \A gone \in SUBSET Keys : Cardinality(gone) \in Nat /\ (gone # {} => Cardinality(gone) # 0)

-----------------------------------------------------------------------------
(* Records in files.                                                       *)

(* The torn tail is at most one cell, and the rest is whole.               *)
LEMMA WholeLengthFacts ==
  ASSUME NEW f \in Nat, NEW cells \in Seq(Cell), Numbered(f, cells)
  PROVE  /\ WholeLength(cells) \in 0..Len(cells) /\ Len(cells) \in Nat
         /\ \A i \in 1..WholeLength(cells) : cells[i].op # "torn"
         /\ \A i \in 1..Len(cells) : cells[i].op # "torn" => i <= WholeLength(cells)
<1>1. DOMAIN cells = 1..Len(cells) /\ Len(cells) \in Nat  OBVIOUS
<1>2. CASE Whole(cells)
  <2>1. WholeLength(cells) = Len(cells)  BY Zenon, <1>2 DEF WholeLength
  <2>2. \A i \in 1..Len(cells) : cells[i].op # "torn" /\ i <= Len(cells)  BY <1>1, <1>2 DEF Whole
  <2> QED  BY <1>1, <2>1, <2>2
<1>3. CASE ~Whole(cells)
  <2>1. WholeLength(cells) = Len(cells) - 1  BY Zenon, <1>3 DEF WholeLength
  <2>2. PICK i \in 1..Len(cells) : cells[i].op = "torn"  BY Zenon, <1>1, <1>3 DEF Whole
  <2>3. \A j \in 1..Len(cells) : cells[j].op = "torn" => j = Len(cells)  BY Zenon DEF Numbered
  <2>0. i = Len(cells)  BY Zenon, <2>2, <2>3
  <2>4. Len(cells) \in Nat \ {0} /\ cells[Len(cells)].op = "torn"  BY SMTT(30), <1>1, <2>2, <2>0
  <2>5. \A j \in 1..(Len(cells) - 1) : j \in 1..Len(cells) /\ j # Len(cells)  BY <2>4
  <2>6. \A j \in 1..Len(cells) : j # Len(cells) => j <= Len(cells) - 1  BY <2>4
  <2>7. Len(cells) - 1 \in 0..Len(cells)  BY <2>4
  <2> QED  BY Zenon, <1>1, <2>1, <2>3, <2>4, <2>5, <2>6, <2>7
<1> QED  BY Zenon, <1>2, <1>3

(* Every record of the history from the start of a file on is in a file,   *)
(* at the place its sequence says.                                         *)
LEMMA Located ==
  ASSUME NEW S, Chain(S), NEW H, Holds(S, H), EndsAt(S, Len(H)), Len(H) \in Nat,
         NEW first \in DOMAIN S, NEW i \in Nat, first <= i, i <= Len(H)
  PROVE  \E g \in DOMAIN S :
           /\ first <= g /\ g <= i /\ i - g + 1 \in 1..Len(S[g].cells)
           /\ S[g].cells[i - g + 1] = H[i] /\ S[g].cells[i - g + 1].op # "torn"
           /\ IsLast(g, S) \/ Sealed(S[g])
<1> DEFINE T == {g \in DOMAIN S : g <= i}
<1>1. /\ MaxSequence + 1 \in Nat
      /\ \A y \in DOMAIN S : y \in Nat \ {0} /\ y \in 0..(MaxSequence + 1) /\ S[y].cells \in Seq(Cell)
                             /\ Len(S[y].cells) \in Nat /\ Numbered(y, S[y].cells)
  BY SMTT(30), NoImageType DEF Chain, SegmentsType, Segment
<1>2. T \subseteq 0..(MaxSequence + 1) /\ first \in T  BY Zenon, <1>1
<1>3. Max(T) \in T /\ \A y \in T : y <= Max(T)
  <2> HIDE DEF T
  <2> QED  BY Zenon, <1>1, <1>2, MaxFacts
<1>4. PICK g \in T : \A y \in T : y <= g  BY Zenon, <1>3
<1>5. g \in DOMAIN S /\ g <= i /\ first <= g /\ g \in Nat \ {0}  BY Zenon, <1>1, <1>2, <1>4
<1>6. i < g + WholeLength(S[g].cells) /\ (IsLast(g, S) \/ Sealed(S[g]))
  <2>1. CASE IsLast(g, S)
    <3>1. g + WholeLength(S[g].cells) = Len(H) + 1  BY Zenon, <2>1, <1>5 DEF EndsAt
    <3> QED  BY <2>1, <3>1
  <2>2. CASE ~IsLast(g, S)
    <3> DEFINE U == {y \in DOMAIN S : ~(y <= g)}
    <3>1. U \subseteq Nat /\ U # {}
      <4>1. \A y \in DOMAIN S : y \in Nat  BY Zenon, <1>1
      <4> QED  BY Zenon, <2>2, <4>1, <1>5 DEF IsLast
    <3>2. Min(U) \in U /\ \A y \in U : Min(U) <= y
      <4> HIDE DEF U
      <4> QED  BY Zenon, <3>1, MinFacts
    <3>3. PICK h \in U : \A y \in U : h <= y  BY Zenon, <3>2
    <3>4. h \in DOMAIN S /\ g < h /\ i < h
      <4>1. h \in DOMAIN S /\ ~(h <= g) /\ h \notin T  BY Zenon, <1>4, <3>3
      <4>2. ~(h <= i)  BY Zenon, <4>1
      <4> QED  BY SMTT(30), <4>1, <4>2, <1>1, <1>5
    <3>5. PICK y \in DOMAIN S : y < h /\ y + Len(S[y].cells) = h
      BY Zenon, <3>4, <1>5 DEF Chain, Linked
    <3>6. y = g
      <4>1. y <= g
        <5> SUFFICES ASSUME ~(y <= g) PROVE FALSE  OBVIOUS
        <5>1. h <= y  BY Zenon, <3>3
        <5> QED  BY SMTT(30), <5>1, <3>4, <3>5, <1>1
      <4> SUFFICES ASSUME y < g PROVE FALSE  BY SMTT(30), <4>1, <1>1, <1>5
      <4>2. y + Len(S[y].cells) <= g  BY Zenon, <1>5 DEF Chain, Linked
      <4> QED  BY SMTT(30), <4>2, <3>4, <3>5, <1>1, <1>5
    <3>7. Sealed(S[g])  BY Zenon, <3>4, <1>5 DEF Chain, Linked
    <3>8. WholeLength(S[g].cells) = Len(S[g].cells)  BY Zenon, <3>7 DEF Sealed, WholeLength
    <3> QED  BY Zenon, <3>4, <3>5, <3>6, <3>7, <3>8
  <2> QED  BY Zenon, <2>1, <2>2
<1>7. /\ WholeLength(S[g].cells) \in 0..Len(S[g].cells)
      /\ \A j \in 1..WholeLength(S[g].cells) : S[g].cells[j].op # "torn"
  BY Zenon, <1>1, <1>5, WholeLengthFacts
<1>8. i - g + 1 \in 1..WholeLength(S[g].cells) /\ i - g + 1 \in 1..Len(S[g].cells)
      /\ g + (i - g + 1) - 1 = i
  BY SMTT(30), <1>1, <1>5, <1>6, <1>7
<1>9. S[g].cells[i - g + 1] = H[g + (i - g + 1) - 1]  BY Zenon, <1>5, <1>7, <1>8 DEF Holds
<1>10. S[g].cells[i - g + 1].op # "torn" /\ S[g].cells[i - g + 1] = H[i]
  BY Zenon, <1>7, <1>8, <1>9
<1> QED  BY Zenon, <1>5, <1>6, <1>8, <1>10

(* The counters and the history are in their types.                        *)
LEMMA HistoryFacts ==
  ASSUME Inv
  PROVE  /\ history \in Seq(Cell) /\ Len(history) \in Nat /\ acked \in Nat /\ promised \in Nat
         /\ seq \in Nat /\ pending \in Seq(Cell) /\ Len(pending) \in Nat
         /\ \A f \in DOMAIN segments : f \in Nat \ {0} /\ segments[f].cells \in Seq(Cell)
                /\ Len(segments[f].cells) \in Nat /\ segments[f].synced \in Nat
                /\ segments[f].synced <= Len(segments[f].cells) /\ Numbered(f, segments[f].cells)
<1>1. /\ history \in Seq(Cell) /\ acked \in Sequence /\ promised \in Sequence
      /\ seq \in Sequence /\ pending \in Seq(Cell)
  BY Zenon DEF Inv, TypeOK, CallersTypeOK, ProcessTypeOK
<1>2. Chain(segments)  BY Zenon DEF Inv, LogInv
<1>3. \A f \in DOMAIN segments : f \in 1..(MaxSequence + 1) /\ segments[f] \in Segment
          /\ segments[f].synced <= Len(segments[f].cells) /\ Numbered(f, segments[f].cells)
  BY Zenon, <1>2 DEF Chain, SegmentsType
<1>4. \A f \in DOMAIN segments : segments[f].cells \in Seq(Cell) /\ segments[f].synced \in Nat
  BY Zenon, <1>3 DEF Segment
<1>5. Len(history) \in Nat /\ Len(pending) \in Nat  BY <1>1
<1>6. acked \in Nat /\ promised \in Nat /\ seq \in Nat  BY SMTT(30), <1>1, NoImageType DEF Sequence
<1>7. \A f \in DOMAIN segments : f \in Nat \ {0} /\ Len(segments[f].cells) \in Nat
  BY SMTT(30), <1>3, <1>4, NoImageType
<1> QED  BY Zenon, <1>1, <1>3, <1>4, <1>5, <1>6, <1>7

(* A process that is up has a segment open.                                *)
LEMMA UpFacts ==
  ASSUME Inv
  PROVE  /\ status = "up" => DOMAIN segments # {}
         /\ snapPC # "idle" \/ pc # "idle" => status = "up"
  BY Zenon DEF Inv, LogInv, WriterInv

(* A step that writes records does so to the history and the writer's file.*)
LEMMA WritesRecords ==
  ASSUME Inv, WriteRecords \/ WriteFails \/ (Crash /\ ~UNCHANGED <<segments, history>>)
  PROVE  /\ CanWrite /\ UNCHANGED <<acked, promised>>
         /\ \E whole \in Seq(Cell), tail \in {<<>>, <<Torn>>} :
              /\ Len(whole) <= ChunkLength /\ \A i \in 1..Len(whole) : whole[i] = Chunk[i]
              /\ segments' = Appended(whole \o tail) /\ history' = history \o whole
              /\ status' = "up" => seq' = seq /\ pending' \in {pending, whole}
<1>1. CanWrite /\ UNCHANGED <<acked, promised>>  BY Zenon DEF WriteRecords, WriteFails, Crash
<1>2. ChunkLength \in Nat /\ Chunk \in Seq(Cell) /\ Len(Chunk) = ChunkLength  BY SMTT(30), <1>1, ChunkFacts
<1>3. CASE WriteRecords
  <2>1. /\ segments' = Appended(Chunk) /\ history' = history \o Chunk /\ pending' = Chunk /\ seq' = seq
    BY Zenon, <1>3 DEF WriteRecords
  <2>2. Chunk \o <<>> = Chunk /\ Len(Chunk) <= ChunkLength  BY <1>2
  <2> QED  BY ZenonT(30), <1>1, <1>2, <2>1, <2>2
<1>4. CASE WriteFails \/ (Crash /\ ~UNCHANGED <<segments, history>>)
  <2>1. PICK p \in 0..ChunkLength, torn \in BOOLEAN : PartialWrite(p, torn)
    <3>1. \A p \in 0..(ChunkLength - 1) : p \in 0..ChunkLength  BY <1>2
    <3> QED  BY Zenon, <1>4, <3>1 DEF WriteFails, Crash
  <2> DEFINE whole == SubSeq(Chunk, 1, p)
             tail == IF torn THEN <<Torn>> ELSE <<>>
  <2>2. segments' = Appended(whole \o tail) /\ history' = history \o whole /\ tail \in {<<>>, <<Torn>>}
    BY Zenon, <2>1 DEF PartialWrite
  <2>3. whole \in Seq(Cell) /\ Len(whole) = p /\ \A i \in 1..p : whole[i] = Chunk[i]
    BY Zenon, <1>2, PrefixFacts
  <2>4. p <= ChunkLength  BY <1>2
  <2>5. status' = "up" => seq' = seq /\ pending' = pending
    BY Zenon, <1>4 DEF WriteFails, Crash, ProcessEnds
  <2> HIDE DEF whole, tail
  <2> QED  BY ZenonT(30), <1>1, <2>2, <2>3, <2>4, <2>5
<1> QED  BY Zenon, <1>3, <1>4

(* The record that is applied next is the one after log.seq.               *)
LEMMA LogApplied ==
  ASSUME Inv, RecordsInv, AnswersInv, pc = "apply", AfterApply
  PROVE  /\ RecordsInv' /\ AnswersInv' /\ seq' = seq + 1 /\ seq + 1 \in 1..Len(history)
         /\ Head(pending) = history[seq + 1] /\ status = "up"
<1>1. /\ status = "up" /\ pending # <<>> /\ \A i \in 1..Len(pending) : pending[i].seq = seq + i
      /\ seq + Len(pending) <= Len(history) /\ \A i \in 1..Len(pending) : pending[i] = history[seq + i]
  BY Zenon DEF Inv, WriterInv, AnswersInv
<1>2. /\ seq \in Nat /\ pending \in Seq(Cell) /\ Len(history) \in Nat  BY Zenon, HistoryFacts
<1>3. /\ Len(pending) \in Nat \ {0} /\ Head(pending) = pending[1] /\ 1 \in 1..Len(pending)
      /\ Len(Tail(pending)) = Len(pending) - 1
      /\ \A i \in 1..Len(Tail(pending)) : Tail(pending)[i] = pending[i + 1] /\ i + 1 \in 1..Len(pending)
  BY <1>1, <1>2
<1>4. /\ pending' = Tail(pending) /\ seq' = Head(pending).seq /\ acked' = Head(pending).seq
      /\ UNCHANGED <<segments, snapshots, stable, status, history, promised>>
  BY Zenon DEF AfterApply, disk
<1>5. seq' = seq + 1 /\ acked' = seq + 1 /\ Head(pending) = history[seq + 1]
  BY Zenon, <1>1, <1>3, <1>4
<1>6. seq + 1 \in 1..Len(history) /\ seq + 1 + Len(Tail(pending)) <= Len(history)
      /\ seq + 1 <= seq + 1 /\ seq + 1 <= Len(history)
  BY SMTT(30), <1>1, <1>2, <1>3
<1>7. ASSUME NEW i \in 1..Len(Tail(pending))  PROVE Tail(pending)[i] = history[seq + 1 + i]
  <2>1. Tail(pending)[i] = history[seq + (i + 1)]  BY Zenon, <1>1, <1>3
  <2>2. seq + (i + 1) = seq + 1 + i  BY <1>2
  <2> QED  BY Zenon, <2>1, <2>2
<1>8. RecordsInv'  BY Zenon, <1>4 DEF RecordsInv
<1>9. AnswersInv'
  <2>1. promised' <= Len(history') /\ SyncedThrough(segments', promised')  BY Zenon, <1>4 DEF AnswersInv
  <2>2. acked' <= Len(history') /\ acked' <= seq' /\ seq' + Len(pending') <= Len(history')
    BY Zenon, <1>4, <1>5, <1>6
  <2>3. \A i \in 1..Len(pending') : pending'[i] = history'[seq' + i]  BY Zenon, <1>4, <1>5, <1>7
  <2> QED  BY Zenon, <2>1, <2>2, <2>3 DEF AnswersInv
<1> QED  BY Zenon, <1>1, <1>5, <1>6, <1>8, <1>9

(* A refused Open leaves the segments alone, or cuts off a torn tail.      *)
LEMMA RefusedLog ==
  ASSUME Inv, OpenRefused
  PROVE  /\ Chain(segments') /\ DOMAIN segments' = DOMAIN segments
         /\ \/ segments' = segments
            \/ /\ DOMAIN segments # {}
               /\ segments' = Put(segments, LastSegment, WithoutTorn(segments[LastSegment]))
<1>1. TypeOK /\ Chain(segments)  BY Zenon DEF Inv, LogInv
<1>2. CASE segments' = segments  BY Zenon, <1>1, <1>2
<1>3. CASE /\ DOMAIN segments # {}
           /\ segments' = Put(segments, LastSegment, WithoutTorn(segments[LastSegment]))
  <2> DEFINE v == WithoutTorn(segments[LastSegment])
  <2>1. /\ LastSegment \in DOMAIN segments /\ \A f \in DOMAIN segments : f <= LastSegment
        /\ v \in Segment /\ v.synced <= Len(v.cells) /\ Numbered(LastSegment, v.cells) /\ Whole(v.cells)
    BY ZenonT(30), <1>1, <1>3, TrimmedLast
  <2> HIDE DEF v
  <2>2. segments' = Put(segments, LastSegment, v)  BY Zenon, <1>3 DEF v
  <2>3. Chain(segments')  BY ZenonT(30), <1>1, <2>1, <2>2, ChainRewritesLast
  <2>4. DOMAIN segments' = DOMAIN segments  BY Zenon, <2>1, <2>2 DEF Put
  <2> QED  BY Zenon, <1>3, <2>3, <2>4
<1> QED  BY Zenon, <1>2, <1>3 DEF OpenRefused

(* Open finds the end of the history.                                      *)
LEMMA RecoversHistory ==
  ASSUME Inv, RecordsInv, CanRecover
  PROVE  /\ RecoveredSequence = Len(history)
         /\ DOMAIN segments # {} =>
              /\ IsLast(LastSegment, segments)
              /\ LastSegment + WholeLength(segments[LastSegment].cells) = Len(history) + 1
<1>1. CASE DOMAIN segments = {}
  <2>1. history = <<>> /\ loadSnapshot = NoSnapshot  BY Zenon, <1>1 DEF RecordsInv, loadSnapshot
  <2>2. RecoveredSequence = Max(Range(NoSnapshot.cover))  BY Zenon, <1>1, <2>1 DEF RecoveredSequence, Highest
  <2>3. Range(NoSnapshot.cover) = {0}  BY DEF NoSnapshot, Range
  <2>4. Max({0}) = 0
    <3>1. {0} \subseteq 0..0 /\ {0} # {} /\ 0 \in Nat  OBVIOUS
    <3>2. Max({0}) \in {0}  BY Zenon, <3>1, MaxFacts
    <3> QED  BY Zenon, <3>2
  <2>5. Len(history) = 0  BY <2>1
  <2> QED  BY Zenon, <1>1, <2>2, <2>3, <2>4, <2>5
<1>2. CASE DOMAIN segments # {}
  <2>1. /\ LastSegment \in DOMAIN segments /\ \A f \in DOMAIN segments : f <= LastSegment
        /\ RecoveredSequence \in Sequence
        /\ LastSegment + Len(WithoutTorn(segments[LastSegment]).cells) = RecoveredSequence + 1
    BY Zenon, <1>2, RecoversToTheEnd DEF Inv, LogInv
  <2> DEFINE cells == segments[LastSegment].cells
  <2>2. WithoutTorn(segments[LastSegment]).cells = SubSeq(cells, 1, WholeLength(cells))
    BY Zenon DEF WithoutTorn, WholeLength
  <2>3. cells \in Seq(Cell) /\ WholeLength(cells) \in 0..Len(cells)
    <3>1. LastSegment \in Nat /\ cells \in Seq(Cell) /\ Numbered(LastSegment, cells)
      BY Zenon, <2>1, HistoryFacts
    <3> HIDE DEF cells
    <3> QED  BY Zenon, <3>1, WholeLengthFacts
  <2>4. Len(SubSeq(cells, 1, WholeLength(cells))) = WholeLength(cells)
    <3> HIDE DEF cells
    <3> QED  BY Zenon, <2>3, PrefixFacts
  <2>5. LastSegment + WholeLength(cells) = RecoveredSequence + 1
    <3>1. Len(WithoutTorn(segments[LastSegment]).cells) = WholeLength(cells)  BY Zenon, <2>2, <2>4
    <3> HIDE DEF cells
    <3> QED  BY <3>1, <2>1
  <2>6. IsLast(LastSegment, segments)  BY Zenon, <2>1 DEF IsLast
  <2>7. LastSegment + WholeLength(cells) = Len(history) + 1  BY Zenon, <2>1, <2>6 DEF RecordsInv, EndsAt
  <2>8. RecoveredSequence + 1 = Len(history) + 1  BY Zenon, <2>5, <2>7
  <2>9. RecoveredSequence = Len(history)
    <3>1. RecoveredSequence \in Nat /\ Len(history) \in Nat
      BY SMTT(30), <2>1, HistoryFacts, NoImageType DEF Sequence
    <3> QED  BY SMTT(30), <2>8, <3>1
  <2> QED  BY Zenon, <2>6, <2>7, <2>9
<1> QED  BY Zenon, <1>1, <1>2

-----------------------------------------------------------------------------
(* Snapshots as values.                                                    *)

Shaped(s) ==
  s.shards \in Nat \ {0} /\ s.cover \in [0..(s.shards - 1) -> Sequence] /\ s.image \in Image

(* A key belongs to one of the shards.                                     *)
LEMMA ShardFacts ==
  ASSUME NEW k \in Keys, NEW n \in Nat \ {0}
  PROVE  ShardOf(k, n) \in 0..(n - 1)
<1>1. Hash[k] \in Nat  BY Zenon, ConstantsAssumption
<1> DEFINE h == Hash[k]
<1> HIDE DEF h
<1>2. h % n \in 0..(n - 1)  BY <1>1 DEF h
<1> QED  BY Zenon, <1>2 DEF ShardOf, h

(* The extreme sequences of a snapshot and the sequence of a shard.        *)
LEMMA ShapeFacts ==
  ASSUME NEW s, Shaped(s)
  PROVE  /\ Lowest(s) \in Sequence /\ Highest(s) \in Sequence /\ DOMAIN s.cover = 0..(s.shards - 1)
         /\ \A i \in DOMAIN s.cover : /\ s.cover[i] \in Sequence
                                      /\ Lowest(s) <= s.cover[i] /\ s.cover[i] <= Highest(s)
         /\ \E i \in DOMAIN s.cover : Lowest(s) = s.cover[i]
         /\ \A k \in Keys : ShardOf(k, s.shards) \in DOMAIN s.cover /\ s.image[k] \in Entry
<1>1. s.shards \in Nat \ {0} /\ s.cover \in [0..(s.shards - 1) -> Sequence] /\ s.image \in Image
  BY Zenon DEF Shaped
<1>2. DOMAIN s.cover = 0..(s.shards - 1) /\ \A i \in DOMAIN s.cover : s.cover[i] \in Sequence
  BY Zenon, <1>1
<1>3. /\ Lowest(s) \in Sequence /\ Highest(s) \in Sequence
      /\ \A i \in 0..(s.shards - 1) : Lowest(s) <= s.cover[i] /\ s.cover[i] <= Highest(s)
      /\ \E i \in 0..(s.shards - 1) : Lowest(s) = s.cover[i]
  BY Zenon, <1>1, CoverFacts DEF Lowest, Highest
<1>4. \A k \in Keys : ShardOf(k, s.shards) \in DOMAIN s.cover /\ s.image[k] \in Entry
  BY Zenon, <1>1, <1>2, ShardFacts DEF Image
<1> QED  BY Zenon, <1>2, <1>3, <1>4

(* Every snapshot of the directory has the shape of one, and so does the   *)
(* absent one.                                                             *)
LEMMA DirectoryShaped ==
  ASSUME Inv
  PROVE  /\ \A name \in DOMAIN snapshots : Shaped(snapshots[name]) /\ name \in Nat /\ name \in Sequence
         /\ \A name \in DOMAIN stable : Shaped(stable[name]) /\ name \in Nat /\ name \in Sequence
         /\ Shaped(loadSnapshot)
<1>1. ShardCounts \subseteq Nat \ {0}  BY Zenon, ConstantsAssumption DEF ShardCounts
<1>2. ASSUME NEW s \in Snapshot  PROVE Shaped(s)
  <2>1. PICK n \in ShardCounts : s \in [shards : {n}, cover : [0..(n - 1) -> Sequence], image : Image]
    BY Zenon DEF Snapshot
  <2>2. s.shards = n /\ s.cover \in [0..(n - 1) -> Sequence] /\ s.image \in Image  BY Zenon, <2>1
  <2> QED  BY Zenon, <1>1, <2>2 DEF Shaped
<1>3. /\ DOMAIN snapshots \subseteq Sequence /\ \A name \in DOMAIN snapshots : snapshots[name] \in Snapshot
      /\ DOMAIN stable \subseteq Sequence /\ \A name \in DOMAIN stable : stable[name] \in Snapshot
  BY Zenon DEF Inv, TypeOK, DiskTypeOK
<1>4. Sequence \subseteq Nat  BY NoImageType DEF Sequence
<1>5. Shaped(loadSnapshot)
  <2>1. CASE DOMAIN snapshots = {}
    <3>1. loadSnapshot = NoSnapshot  BY Zenon, <2>1 DEF loadSnapshot
    <3>2. NoSnapshot.shards = 1 /\ NoSnapshot.cover = [i \in 0..0 |-> 0] /\ NoSnapshot.image = NoImage
      BY Zenon DEF NoSnapshot
    <3>3. 1 \in Nat \ {0} /\ 0..(1 - 1) = 0..0  OBVIOUS
    <3>4. [i \in 0..0 |-> 0] \in [0..0 -> Sequence]  BY Zenon, NoImageType
    <3> QED  BY ZenonT(30), <3>1, <3>2, <3>3, <3>4, NoImageType DEF Shaped
  <2>2. CASE DOMAIN snapshots # {}
    <3>1. DOMAIN snapshots \subseteq 0..MaxSequence /\ MaxSequence \in Nat
      BY Zenon, <1>3, NoImageType DEF Sequence
    <3>2. Max(DOMAIN snapshots) \in DOMAIN snapshots  BY Zenon, <2>2, <3>1, MaxFacts
    <3> QED  BY ZenonT(30), <1>2, <1>3, <2>2, <3>2 DEF loadSnapshot
  <2> QED  BY Zenon, <2>1, <2>2
<1> QED  BY Zenon, <1>2, <1>3, <1>4, <1>5

(* The loaded snapshot is the one with the greatest name.                  *)
LEMMA LoadsGreatest ==
  ASSUME Inv, DOMAIN snapshots # {}
  PROVE  \E m \in DOMAIN snapshots : loadSnapshot = snapshots[m] /\ \A a \in DOMAIN snapshots : a <= m
<1>1. DOMAIN snapshots \subseteq 0..MaxSequence /\ MaxSequence \in Nat
  BY Zenon, NoImageType DEF Sequence, Inv, TypeOK, DiskTypeOK
<1>2. Max(DOMAIN snapshots) \in DOMAIN snapshots /\ \A a \in DOMAIN snapshots : a <= Max(DOMAIN snapshots)
  BY Zenon, <1>1, MaxFacts
<1> QED  BY Zenon, <1>2 DEF loadSnapshot

(* If the loaded snapshot covers nothing after n, no other one does.       *)
LEMMA GreatestWithin ==
  ASSUME Inv, Ordered(snapshots), NEW n \in Nat, Highest(loadSnapshot) <= n
  PROVE  Within(snapshots, n)
<1> SUFFICES ASSUME NEW a \in DOMAIN snapshots, NEW j \in DOMAIN snapshots[a].cover
             PROVE  snapshots[a].cover[j] <= n
  BY Zenon DEF Within
<1>1. PICK m \in DOMAIN snapshots : loadSnapshot = snapshots[m] /\ \A b \in DOMAIN snapshots : b <= m
  BY Zenon, LoadsGreatest
<1>2. /\ snapshots[a].cover[j] \in Sequence /\ Shaped(snapshots[m]) /\ a \in Nat /\ m \in Nat
  BY Zenon, DirectoryShaped, ShapeFacts
<1>3. CASE a = m
  <2>1. snapshots[m].cover[j] <= Highest(snapshots[m]) /\ Highest(snapshots[m]) \in Sequence
    BY Zenon, <1>2, <1>3, ShapeFacts
  <2>2. Highest(snapshots[m]) <= n  BY Zenon, <1>1
  <2> QED  BY SMTT(30), <1>2, <1>3, <2>1, <2>2, NoImageType DEF Sequence
<1>4. CASE a # m
  <2>1. a < m  BY SMTT(30), <1>1, <1>2, <1>4
  <2>2. snapshots[a].cover[j] <= m /\ Lowest(snapshots[m]) = m  BY ZenonT(30), <2>1 DEF Ordered
  <2>3. PICK i \in DOMAIN snapshots[m].cover : Lowest(snapshots[m]) = snapshots[m].cover[i]
    BY Zenon, <1>2, ShapeFacts
  <2>4. snapshots[m].cover[i] <= Highest(snapshots[m]) /\ Highest(snapshots[m]) \in Sequence
    BY Zenon, <1>2, ShapeFacts
  <2>5. m <= Highest(snapshots[m]) /\ Highest(snapshots[m]) <= n  BY ZenonT(30), <1>1, <2>2, <2>3, <2>4
  <2> QED  BY SMTT(30), <1>2, <2>2, <2>4, <2>5, NoImageType DEF Sequence
<1> QED  BY Zenon, <1>3, <1>4

(* The snapshots of a directory that recovers are within its history.      *)
LEMMA RecoverableWithin ==
  ASSUME Inv, RecordsInv, NamesInv, CanRecover
  PROVE  /\ Highest(loadSnapshot) <= Len(history)
         /\ Within(snapshots, Len(history)) /\ Within(stable, Len(history))
<1>1. Len(history) \in Nat /\ RecoveredSequence = Len(history)  BY Zenon, HistoryFacts, RecoversHistory
<1>2. Highest(loadSnapshot) <= Len(history)
  <2>1. Highest(loadSnapshot) \in Nat
    <3>1. Highest(loadSnapshot) \in Sequence  BY Zenon, DirectoryShaped, ShapeFacts
    <3> QED  BY SMTT(30), <3>1, NoImageType DEF Sequence
  <2>2. CASE DOMAIN segments = {}
    <3>1. RecoveredSequence = Highest(loadSnapshot)  BY Zenon, <2>2 DEF RecoveredSequence
    <3> QED  BY SMTT(30), <3>1, <1>1, <2>1
  <2>3. CASE DOMAIN segments # {}
    <3>1. LastReplayed(loadSnapshot, MaxSequence) >= Highest(loadSnapshot)  BY Zenon, <2>3 DEF CanRecover
    <3>2. RecoveredSequence = LastReplayed(loadSnapshot, MaxSequence)  BY Zenon, <2>3 DEF RecoveredSequence
    <3> QED  BY SMTT(30), <3>1, <3>2, <1>1, <2>1
  <2> QED  BY ZenonT(30), <2>2, <2>3
<1>3. Within(snapshots, Len(history))  BY Zenon, <1>1, <1>2, GreatestWithin DEF NamesInv
<1> QED  BY Zenon, <1>2, <1>3 DEF NamesInv
=============================================================================
