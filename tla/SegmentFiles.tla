---------------------------- MODULE SegmentFiles ----------------------------
(***************************************************************************)
(* The files of the log, below the level of DurableStore: a segment comes  *)
(* into being as a temporary file, gets its header, its name and a         *)
(* directory sync in separate steps; names that no directory sync has      *)
(* covered may vanish with the power; records may be damaged on disk; and  *)
(* recoverSegment grades what it meets.  There is no snapshot here, so the *)
(* log starts at sequence 1.                                               *)
(*                                                                         *)
(* A record is its sequence and the state it would be read in:             *)
(*   "ok"      as written                                                  *)
(*   "crc"     its checksum fails, its length is right                     *)
(*   "short"   its length is less than any record has                      *)
(*   "past"    its length runs past the end of the file, or the file ends  *)
(*             within the length: also what a torn write leaves            *)
(*   "inside"  its length ends in the middle of the records after it       *)
(*   "toEnd"   its length ends where the file ends                         *)
(* The file's own first cell "header" stands for a header that is missing. *)
(***************************************************************************)
EXTENDS Integers, Sequences, FiniteSets, FiniteSetsExt, Functions

CONSTANTS
  MaxSequence,   \* bound on the records written
  SegmentSize,   \* records in a segment
  Faults         \* what may go wrong: "fail", "crash", "power", "damage"

Sequence == 0..MaxSequence
Damages == {"crc", "short", "past", "inside", "toEnd"}
FaultKinds == {"fail", "crash", "power", "damage"}

ASSUME FilesAssumption ==
  MaxSequence \in Nat \ {0} /\ SegmentSize \in Nat \ {0} /\ Faults \subseteq FaultKinds

VARIABLES
  files,     \* segment name (first sequence) -> [cells, synced]; synced is -1
             \* while not even the header is on stable storage
  named,     \* the names a directory sync has covered
  temps,     \* temporary files in the directory
  pc,        \* "down", "idle", or a step of createSegment
  opening,   \* createSegment was called by Open, not by rollSegment
  current,   \* log.file, by name
  seq,       \* log.seq
  latched,   \* stats.lastError # nil
  headerSynced,
  adopted,   \* names Open found that no directory sync had covered
  vanished,  \* the power has taken a name that Open had adopted
  promised,  \* the last sequence that a successful fsync covered
  damaged    \* [file, place] of a record damaged while the store was down

process == <<pc, opening, current, seq, latched, headerSynced>>
vars == <<files, named, temps, process, adopted, vanished, promised, damaged>>

Cell == [seq : Sequence, state : {"ok", "header"} \cup Damages]
Record(n) == [seq |-> n, state |-> "ok"]
Torn == [seq |-> 0, state |-> "past"]
Headless == [seq |-> 0, state |-> "header"]
Nowhere == [file |-> 0, place |-> 0]

Put(f, x, v) == [y \in DOMAIN f \cup {x} |-> IF y = x THEN v ELSE f[y]]

-----------------------------------------------------------------------------
(* Recovery.                                                               *)

(* The place of the first record of file f that does not follow on from    *)
(* the sequence before; one past the end when there is none.               *)
Stop(f, previous) ==
  LET cells == files[f].cells
      follows(i) == /\ cells[i].state = "ok" /\ cells[i].seq = previous + i
                    /\ i = 1 => cells[i].seq = f
  IN  Min({i \in 1..(Len(cells) + 1) : i = Len(cells) + 1 \/ ~follows(i)})

(* Mutant: a failing checksum is a torn tail wherever it is in the final   *)
(* file.                                                                   *)
recoverSegmentMutant(f, final, previous) ==
  LET stop == Stop(f, previous)
  IN  CASE stop = Len(files[f].cells) + 1 -> "whole"
        [] stop <= Len(files[f].cells) /\ final /\ files[f].cells[stop].state # "header" -> "trim"
        [] OTHER -> "refuse"

(* The scan of a segment from its first record: how it ends.  Only damage  *)
(* that ends the final file, as far as lengths can tell, is a torn tail.   *)
recoverSegment(f, final, previous) ==
  LET cells == files[f].cells
      stop == Stop(f, previous)
      state == cells[stop].state
      endsFile == state \in {"short", "past", "toEnd"} \/ (state = "crc" /\ stop = Len(cells))
  IN  CASE stop = Len(cells) + 1 -> "whole"
        [] stop <= Len(cells) /\ final /\ endsFile -> "trim"
        [] OTHER -> "refuse"

Last == Max(DOMAIN files)

(* The sequence before file f, when every file before it is whole.         *)
Previous(f) == MapThenSumSet(LAMBDA g : Len(files[g].cells), {g \in DOMAIN files : g < f})

(* recoverLog without a snapshot accepts the directory.                    *)
CanRecover ==
  files # <<>> => /\ Min(DOMAIN files) = 1
                  /\ \A f \in DOMAIN files : recoverSegment(f, f = Last, Previous(f)) # "refuse"

(* The sequence it recovers up to.                                         *)
RecoveredSequence ==
  IF files = <<>> THEN 0 ELSE Previous(Last) + Stop(Last, Previous(Last)) - 1

-----------------------------------------------------------------------------
Init ==
  /\ files = <<>> /\ named = {} /\ temps = 0
  /\ pc = "down" /\ opening = FALSE /\ current = 0 /\ seq = 0
  /\ latched = FALSE /\ headerSynced = FALSE
  /\ adopted = {} /\ vanished = FALSE /\ promised = 0 /\ damaged = Nowhere

(* Open of a directory that holds a log: stale temporary files go, the     *)
(* torn tail of the last segment is cut off, and the log continues there.  *)
OpenExisting ==
  /\ pc = "down" /\ files # <<>> /\ CanRecover
  /\ pc' = "idle" /\ opening' = FALSE /\ latched' = FALSE
  /\ current' = Last /\ seq' = RecoveredSequence /\ headerSynced' = FALSE
  /\ LET kept == SubSeq(files[Last].cells, 1, RecoveredSequence - Previous(Last))
     IN  files' = [files EXCEPT ![Last] = [cells |-> kept, synced |-> Min({@.synced, Len(kept)})]]
  /\ temps' = 0 /\ adopted' = DOMAIN files \ named
  /\ promised' = Min({promised, RecoveredSequence}) /\ damaged' = Nowhere
  /\ UNCHANGED <<named, vanished>>

(* Open of a directory without a log goes on to create segment 1.          *)
OpenEmpty ==
  /\ pc = "down" /\ files = <<>>
  /\ pc' = "create" /\ opening' = TRUE /\ current' = 0 /\ seq' = 0
  /\ latched' = FALSE /\ headerSynced' = FALSE
  /\ temps' = 0 /\ adopted' = {} /\ promised' = 0
  /\ UNCHANGED <<files, named, vanished, damaged>>

(* Open refuses; by then the stale temporary files are gone.               *)
OpenRefused ==
  /\ pc = "down" /\ ~CanRecover
  /\ temps' = 0
  /\ UNCHANGED <<files, named, process, adopted, vanished, promised, damaged>>

(* A removal, a read or the truncation of the tail fails: Open returns.    *)
OpenFails ==
  /\ "fail" \in Faults /\ pc = "down"
  /\ temps' \in 0..temps
  /\ UNCHANGED <<files, named, process, adopted, vanished, promised, damaged>>

-----------------------------------------------------------------------------
(* createSegment(seq + 1), one step for each call that a crash can follow. *)

CreateTemp ==
  /\ pc = "create"
  /\ pc' = "temp" /\ temps' = temps + 1 /\ headerSynced' = FALSE
  /\ UNCHANGED <<files, named, opening, current, seq, latched, adopted, vanished, promised, damaged>>

WriteHeader ==
  /\ pc = "temp"
  /\ pc' = "header"
  /\ UNCHANGED <<files, named, temps, opening, current, seq, latched, headerSynced, adopted, vanished, promised, damaged>>

(* Mutant: the header is not synced before the file gets its name.         *)
SyncHeaderMutant ==
  /\ pc = "header"
  /\ pc' = "synced"
  /\ UNCHANGED <<files, named, temps, opening, current, seq, latched, headerSynced, adopted, vanished, promised, damaged>>

SyncHeader ==
  /\ pc = "header"
  /\ pc' = "synced" /\ headerSynced' = TRUE
  /\ UNCHANGED <<files, named, temps, opening, current, seq, latched, adopted, vanished, promised, damaged>>

Rename ==
  /\ pc = "synced"
  /\ pc' = "renamed" /\ temps' = temps - 1
  /\ files' = Put(files, seq + 1, [cells |-> <<>>, synced |-> IF headerSynced THEN 0 ELSE -1])
  /\ UNCHANGED <<named, opening, current, seq, latched, headerSynced, adopted, vanished, promised, damaged>>

(* Mutant: the directory is not synced once the segment has its name.      *)
DirectorySyncMutant ==
  /\ pc = "renamed"
  /\ pc' = "idle" /\ current' = seq + 1 /\ opening' = FALSE
  /\ UNCHANGED <<files, named, temps, seq, latched, headerSynced, adopted, vanished, promised, damaged>>

DirectorySync ==
  /\ pc = "renamed"
  /\ pc' = "idle" /\ current' = seq + 1 /\ opening' = FALSE
  /\ named' = DOMAIN files /\ adopted' = {}
  /\ UNCHANGED <<files, temps, seq, latched, headerSynced, vanished, promised, damaged>>

(* Mutant: the temporary file is removed whatever step failed.             *)
CreateFailsMutant ==
  /\ "fail" \in Faults /\ pc \in {"create", "temp", "header", "synced", "renamed"}
  /\ temps' \in {temps - 1, temps}
  /\ IF opening THEN pc' = "down" /\ UNCHANGED latched ELSE pc' = "idle" /\ latched' = TRUE
  /\ UNCHANGED <<files, named, opening, current, seq, headerSynced, adopted, vanished, promised, damaged>>

(* A call of createSegment fails: a temporary file that has no name yet is *)
(* removed, an error of the removal is ignored.  Open returns the error,   *)
(* rollSegment's caller latches it.                                        *)
CreateFails ==
  /\ "fail" \in Faults /\ pc \in {"create", "temp", "header", "synced", "renamed"}
  /\ IF pc \in {"temp", "header", "synced"} THEN temps' \in {temps - 1, temps} ELSE temps' = temps
  /\ IF opening THEN pc' = "down" /\ UNCHANGED latched ELSE pc' = "idle" /\ latched' = TRUE
  /\ UNCHANGED <<files, named, opening, current, seq, headerSynced, adopted, vanished, promised, damaged>>

-----------------------------------------------------------------------------
(* The writer.                                                             *)

Full == Len(files[current].cells) >= SegmentSize

Covered(f) == [files EXCEPT ![f].synced = Len(files[f].cells)]

writeBatch ==
  /\ pc = "idle" /\ ~latched /\ ~Full /\ seq < MaxSequence
  /\ files' = [files EXCEPT ![current].cells = Append(@, Record(seq + 1))]
  /\ seq' = seq + 1
  /\ UNCHANGED <<named, temps, pc, opening, current, latched, headerSynced, adopted, vanished, promised, damaged>>

WriteFails ==
  /\ "fail" \in Faults /\ pc = "idle" /\ ~latched /\ ~Full /\ seq < MaxSequence
  /\ latched' = TRUE
  /\ \E left \in {<<>>, <<Torn>>, <<Record(seq + 1)>>} :
       files' = [files EXCEPT ![current].cells = @ \o left]
  /\ UNCHANGED <<named, temps, pc, opening, current, seq, headerSynced, adopted, vanished, promised, damaged>>

Fsync ==
  /\ pc = "idle" /\ ~latched
  /\ files' = Covered(current) /\ promised' = seq
  /\ UNCHANGED <<named, temps, process, adopted, vanished, damaged>>

FsyncFails ==
  /\ "fail" \in Faults /\ pc = "idle" /\ ~latched
  /\ latched' = TRUE
  /\ UNCHANGED <<files, named, temps, pc, opening, current, seq, headerSynced, adopted, vanished, promised, damaged>>

(* The fsync and close that start rollSegment.  A failing close is the     *)
(* failure of CreateFails before the temporary file exists.                *)
rollSegment ==
  /\ pc = "idle" /\ ~latched /\ Full /\ seq < MaxSequence
  /\ files' = Covered(current) /\ promised' = seq
  /\ pc' = "create" /\ opening' = FALSE /\ current' = 0
  /\ UNCHANGED <<named, temps, seq, latched, headerSynced, adopted, vanished, damaged>>

(* Close: one more fsync, whatever is latched; it may fail, and does when  *)
(* rollSegment had closed the file.                                        *)
Close ==
  /\ pc = "idle"
  /\ pc' = "down"
  /\ \/ /\ current # 0
        /\ files' = Covered(current) /\ promised' = IF latched THEN promised ELSE seq
     \/ /\ current = 0 \/ "fail" \in Faults
        /\ UNCHANGED <<files, promised>>
  /\ UNCHANGED <<named, temps, opening, current, seq, latched, headerSynced, adopted, vanished, damaged>>

-----------------------------------------------------------------------------
(* Crashes, power and damage.                                              *)

(* The process dies; in the middle of a write it leaves a torn record.     *)
Crash ==
  /\ "crash" \in Faults /\ pc # "down"
  /\ pc' = "down"
  /\ \/ UNCHANGED files
     \/ /\ pc = "idle" /\ ~latched /\ ~Full /\ seq < MaxSequence
        /\ \E cell \in {Torn, Record(seq + 1)} :
             files' = [files EXCEPT ![current].cells = Append(@, cell)]
  /\ UNCHANGED <<named, temps, opening, current, seq, latched, headerSynced, adopted, vanished, promised, damaged>>

(* What stable storage may hold of a file: its synced records, any more of *)
(* them, perhaps a torn one; or no header when that was not synced.        *)
Surviving(file) ==
  {[cells |-> SubSeq(file.cells, 1, n), synced |-> n] : n \in Max({file.synced, 0})..Len(file.cells)}
  \cup {[cells |-> Append(SubSeq(file.cells, 1, n), Torn), synced |-> n + 1] :
           n \in Max({file.synced, 0})..(Len(file.cells) - 1)}
  \cup (IF file.synced = -1 THEN {[cells |-> <<Headless>>, synced |-> 1]} ELSE {})

(* The power fails: a name no directory sync covered, and a temporary      *)
(* file, may be gone.  What is left is on stable storage, and what was     *)
(* promised is from now on what is left of it.                             *)
PowerLoss ==
  /\ "power" \in Faults
  /\ pc' = "down" /\ temps' \in 0..temps
  /\ \E left \in {s \in SUBSET DOMAIN files : named \subseteq s} :
       /\ files' \in {g \in [left -> UNION {Surviving(files[f]) : f \in left}] :
                        \A f \in left : g[f] \in Surviving(files[f])}
       /\ named' = left
  /\ promised' = Min({promised, RecoveredSequence'})
  /\ adopted' = {} /\ vanished' = (vanished \/ adopted \ named' # {})
  /\ damaged' = IF damaged # Nowhere /\ damaged.file \in named' /\ damaged.place <= Len(files'[damaged.file].cells)
                THEN damaged ELSE Nowhere
  /\ UNCHANGED <<opening, current, seq, latched, headerSynced>>

(* A record of a file at rest is damaged.                                  *)
Damage ==
  /\ "damage" \in Faults /\ pc = "down" /\ damaged = Nowhere
  /\ \E f \in DOMAIN files : \E i \in DOMAIN files[f].cells, kind \in Damages :
       /\ files[f].cells[i].state = "ok"
       /\ kind = "toEnd" => i < Len(files[f].cells)
       /\ files' = [files EXCEPT ![f].cells[i].state = kind]
       /\ damaged' = [file |-> f, place |-> i]
  /\ UNCHANGED <<named, temps, process, adopted, vanished, promised>>

Next ==
  \/ OpenExisting \/ OpenEmpty \/ OpenRefused \/ OpenFails
  \/ CreateTemp \/ WriteHeader \/ SyncHeader \/ Rename \/ DirectorySync \/ CreateFails
  \/ writeBatch \/ WriteFails \/ Fsync \/ FsyncFails \/ rollSegment \/ Close
  \/ Crash \/ PowerLoss \/ Damage

Spec == Init /\ [][Next]_vars

-----------------------------------------------------------------------------
(* Properties.                                                             *)

(* Every variable stays in its type: no file is synced beyond its end, and *)
(* createSegment removes a temporary file only while there is one.         *)
TypeOK ==
  /\ DOMAIN files \subseteq 1..MaxSequence
  /\ \A f \in DOMAIN files :
       /\ DOMAIN files[f] = {"cells", "synced"}
       /\ files[f].cells \in Seq(Cell) /\ files[f].synced \in -1..Len(files[f].cells)
  /\ named \subseteq DOMAIN files /\ adopted \subseteq DOMAIN files
  /\ temps \in Nat /\ {opening, vanished} \subseteq BOOLEAN /\ latched \in BOOLEAN /\ headerSynced \in BOOLEAN
  /\ pc \in {"down", "idle", "create", "temp", "header", "synced", "renamed"}
  /\ current \in Sequence /\ seq \in Sequence /\ promised \in Sequence
  /\ damaged \in [file : Sequence, place : Sequence]

(* However createSegment was interrupted, whatever calls failed and        *)
(* whatever the power took of the rest, recoverLog accepts an undamaged    *)
(* log of which no adopted segment vanished with its name: no crash point  *)
(* leaves a segment without its header, a gap between segments, or a torn  *)
(* record anywhere but at the end of the last segment.                     *)
AlwaysOpens == damaged = Nowhere /\ ~vanished => CanRecover

(* Records that a successful fsync covered are lost only with the name of  *)
(* a segment that Open adopted although no directory sync had covered it   *)
(* (recovery.go syncs no directory when it finds a log), or to damage.     *)
SyncedSurvives ==
  [][promised' < promised => vanished' \/ damaged # Nowhere]_vars

(* Of a log with one damaged record Open recovers everything before the    *)
(* damage and nothing from it on.  It gives up intact records after it     *)
(* only in the last segment, and there only when the damage is to the      *)
(* length and makes it less than any record has or reach the file's end.   *)
GradedDamage ==
  LET cells == files[damaged.file].cells
  IN  damaged # Nowhere /\ CanRecover =>
        /\ RecoveredSequence = Previous(damaged.file) + damaged.place - 1
        /\ damaged.file = Last
        /\ damaged.place < Len(cells) => cells[damaged.place].state \in {"short", "past", "toEnd"}

(* README.md: "Corruption with valid records after it, or a gap in the     *)
(* sequence, is real data loss: the store refuses to open."                *)
InteriorDamageRefused ==
  damaged # Nowhere /\ CanRecover =>
    \A i \in DOMAIN files[damaged.file].cells :
      i > damaged.place => files[damaged.file].cells[i].state # "ok"

(* store.go, of Sync: "Sync forces every accepted write onto stable        *)
(* storage."  Every sequence that a successful fsync covered is in synced  *)
(* bytes of a file whose name a directory sync has covered.                *)
SyncForcesStable ==
  \A n \in 1..promised : \E f \in named : f <= n /\ n < f + files[f].synced
=============================================================================
