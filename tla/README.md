# A TLA+ verification of the `cache` store

The repository announces five Go programs. One exists: `src/cache`, an
embeddable key-value cache with expiry, bounded memory and a write-ahead log.
`proxy`, `resp`, `queue` and `sysmon` are READMEs without code. This project
models the store: what it writes to disk, in which order, what can interrupt
it, what a later `Open` makes of the files, how a shard of its memory is kept;
and the command `cached` that runs it.

## 1. The system

| Part | Source | State | Operations |
| --- | --- | --- | --- |
| Log writer | `wal.go` | current segment, offset, sequence, bytes since the last snapshot, latched error | drain a batch, roll, write, apply, fsync, handle Sync and Close |
| Snapshots | `snapshot.go` | temporary file, eviction generation, interlock | capture or rebuild, rename, directory sync, remove older snapshots, prune segments |
| Recovery | `recovery.go` | the directory | load the snapshot, replay the log, trim a torn tail, refuse |
| Shards | `entries.go` | map, recency list, charged bytes, published sequence | set, delete, get, expire, evict, sweep |
| Request queue and Close | `store.go`, `wal.go` | state lock, channel, stop and done channels, directory lock | submit, Sync, Close |
| Directory lock and sync | `lock_*.go`, `syncdir_*.go` | `flock` on `LOCK` | acquire, release, fsync of the directory |
| Options, statistics | `options.go`, `store.go` | counters | validation, counting |
| `cached` command | `cmd/cached/main.go` | workers, failures channel, scanner, exit status | REPL, load generator, signals |

How they interact. Callers put requests in a channel; one writer goroutine owns
the log. It drains what is waiting into a batch, gives each record the next
sequence number, appends them to the current segment, applies them to the
shards and only then answers. An fsync runs on a ticker. When enough bytes have
been logged the writer starts a snapshot, which a second goroutine writes shard
by shard beside the writer; once anything live has been evicted the memory is
no longer the durable state, so a snapshot is rebuilt from the files instead
(*durable mode*, as against *memory mode*). An installed snapshot lets the
older snapshots and the covered segments be deleted. `Close` stops the
background goroutines, drains the queue, takes a last snapshot and releases the
directory lock. A failed log write latches the store.

What is hard here, and hard to test:

- a snapshot's shards are captured at different sequences, racing appends,
  evictions and expiry;
- a crash may fall between any two file operations, and the next `Open` may use
  another shard count or capacity;
- a write may stop half way, an fsync, a roll or a snapshot step may fail, and
  what follows must still be consistent;
- power loss keeps what was fsynced and some of what was not;
- `Close` races submitters blocked on a full channel, the ticker, the sweep and
  a running snapshot;
- a segment comes into being in five system calls, and its name is permanent only
  after the last;
- a damaged record must be told from one that a crash cut short;
- a shard's list, map and byte count are changed by readers, the writer and the
  sweep, each with its own idea of the time;
- the command's workers, scanner and main goroutine meet signals and failures in
  any order.

`PROJECT.json` lists these hazards at the line where each bites.

## 2. The modules

| Module | What it is |
| --- | --- |
| `DurableStore` | writer, snapshots, recovery, shards, crashes, power loss; the properties of the store |
| `MCDurableStore` | constants for the model checker |
| `DurableMap`, `StoreRefinement` | the abstract map that `DurableStore` implements, and under which mapping |
| `SegmentFiles` | the log's files: creation step by step, names, damage, the grading of `recoverSegment` |
| `ShardLru`, `RecencyOrder` | one shard with its linked list, and the abstract recency order it implements |
| `RequestQueue` | callers, channel, writer loop, `Sync`, `Close`, unlock |
| `StoreInvariant` | lemmas on least and greatest elements and on segments as a gap-free chain; the inductive invariant of `DurableStore`; the invariants on the records and names in the directory, and what follows from them |
| `StoreSteps` | each step keeps the invariant |
| `StoredRecords` | each step keeps what the files hold and how the snapshots are named |
| `RecoveredData` | what replaying the files gives; each step keeps what snapshots, memory and the image in progress hold |
| `DurableStoreProofs` | the steps as steps of `DurableMap`; the theorems about the store |
| `ShardLruProofs` | the inductive invariant of `ShardLru`, its theorems and the refinement of `RecencyOrder` |
| `RequestQueueProofs` | the inductive invariant and theorems of `RequestQueue` |
| `CachedCommand`, `CachedCommandProofs` | processes that run `cached` on one directory; their inductive invariant and theorems |

### DurableStore

State, by the tuples of the module:

- `disk`: `segments` (a file per first sequence: its cells and how many of them
  are synced), `snapshots` (by the sequence in the file's name), `stable` (the
  snapshots whose name a directory sync has made permanent);
- `memory`: `entries`, `evictionGeneration`, `logSequence`;
- `config`: the shard count and capacity of this run of the process;
- `writer`: `pc` (where the writer goroutine is), `current`, `seq`,
  `bytesSinceSnapshot`, the `batch` still to write, the records `pending`
  application;
- `snap`: the snapshot goroutine, its mode, generation, captured sequences and image;
- `callers`: ghosts that no action reads in a guard: `history` (the records
  written, in order), `acked`, `promised` (covered by a successful fsync).

Each action is the code between two points where another goroutine, a crash or
an error can intervene. `drainWrites` is `DrainWrites`; the loop of `writeBatch`
is `SequenceExhausted`, `RollForWrite`, `WriteRecords` (one call of the write
function for a chunk of records), then `applySet` or `applyDelete` for each
record; `startSnapshot` is `StartMemorySnapshot`, `StartDurableSnapshot` or
`DurableSnapshotAborts`; `installSnapshot` is cut at the rename, the directory
sync, each removal of a snapshot and each removal of a segment; `handleControl`
for Close is `CloseRequest`, `FinalSnapshot`, `CloseDone`. The failure of each is
an action of its own (`RollForWriteFails`, `WriteFails`, `FsyncFails`,
`SnapshotFails`, `OpenFailsAfterInstall`). `recoverLog` and
`recoverDurableImage` are the operators `CanRecover`, `RecoveredSequence`,
`RecoveredImage` and `CanRebuild`, `RebuiltImage`, so that recovery can be asked
about in any state and not only where `Open` happens. `OpenRefused` may still change
the directory: the last thing `recoverLog` finds out is that the log ends before the
snapshot does, and by then it has cut off a torn tail.

The constant `Faults` says what may go wrong in a run: any of `"crash"`,
`"power"`, `"write"`, `"sync"`, `"roll"`, `"snapshot"`.

Abstractions, and why they lose nothing the properties speak of:

- A value is the sequence of the record that wrote it: two writes are told
  apart, and a stale value is recognised.
- Every record has size one; segment size, threshold and capacity count records.
  The segment header is left out of the offsets.
- The victim of an eviction is any entry of the shard other than the one just
  written, which is the most recent and goes last. Every recency order is one
  of these choices.
- A directory without a snapshot is treated as one with an empty snapshot that
  covers sequence 0, as `recoverLog` does with its zero value.
- A short write leaves whole records and possibly one `Torn` cell, the
  incomplete record that `recoverSegment` trims from the last segment and
  refuses elsewhere.
- A roll is one action with its failures as alternatives; nothing else touches
  the files it touches.
- Rebuilding the durable image is one action: it reads only segments below the
  roll that precedes it, which no longer change, and the snapshot that only this
  goroutine replaces.
- The interlock is a guard: an eviction waits while a memory-mode snapshot is
  between its generation check and the end of its clean-up. A durable-mode
  snapshot takes the interlock of its private reconstructed store instead.
- The clock is monotone. Argument errors are returned before anything is
  submitted and are not modelled, nor are counters.
- Power loss keeps, of each segment, the synced part and any prefix of the rest,
  and either all snapshots of the directory or only those whose names are
  permanent. A segment's name is taken to be permanent from its rename
  (`SegmentFiles` looks at what happens when it is not); a deletion is taken to be
  permanent when it is made; data written before a failed fsync stays in the
  page cache.

`ImplementsDurableMap` maps this state to `DurableMap`: a map `durable` of what
`Open` would find now, the map `visible` that readers see, the records written
and not yet applied, and whether the store has failed. There a write becomes
durable as a whole before the first of its batch is answered, readers may miss
what was evicted and never see an older value, a failing or interrupted write may
be durable in part, and nothing else changes the map: no snapshot, prune, roll,
compaction or reopening does.

### RequestQueue

Calls are the concurrent invocations of `Set`/`Delete` (`"write"`), `Sync` and
`Close`. The state is each call's place and result; the closing flags and
channels (`closed`, `flushDone`, `sweepDone`, `closeDone`, `lockHeld`); the
channel and the writer loop's batch and control request; and which writes are
in the log and which are stable. Holding the state lock for reading is being at
`"sending"`; `CloseLocks` needs that no call is there. The content of the log is
`DurableStore`'s concern: here a write is only accepted and later synced. Any
sync or write may fail when `MayFail` is true, and so may the unlock at the end of
Close. The writer answers a batch in one step: it never waits to do so, as each
request has a channel of its own with room for the answer.

### SegmentFiles

The level below `DurableStore`, without snapshots. `createSegment` is five actions,
`CreateTemp` to `DirectorySync`, with `CreateFails` for the failure of any of them;
`files`, `named` (names that a directory sync has covered) and `temps` are the
directory; `Open` is `OpenExisting`, `OpenEmpty`, `OpenRefused` and `OpenFails`. A
record is its sequence and the state it would be read in: intact, with a failing
checksum, or with a length that is too small, runs past the file, ends inside it or
ends where the file ends. These are the cases that `recoverSegment` can tell apart,
so damage to any byte of a record is one of them. `Damage` alters one record of a
store that is down. `Surviving` is what a power loss may leave of a file; a file
whose header was never synced may be left without it. Ghosts: `promised`, `damaged`,
`adopted` (names that `Open` found and no directory sync had covered) and `vanished`
(the power has taken one of those).

### ShardLru

One `shard` of `entries.go`: `entries` with the pointers `previous` and `next`,
`recent`, `oldest` and `bytes`, changed by the functions of the source
(`removeEntry`, `markRecent`, `setEntry`). `phase` is the critical section in
progress. A loop under the lock is one step for each entry. Writes wait in
`requests` between acceptance, where `SetTTL` fixes the deadline in wrapping
64-bit arithmetic (`Wrap`, with `MaxInt` for the largest number), and application,
where the clock is read again. The sweep reads the time, waits for the lock, looks
at up to `SampleSize` entries in any order and repeats while enough of them were
expired; its time budget may end a pass anywhere. `counted` is what the last step
added to the statistics. `RecencyOrder` is a sequence of keys, what is held under
them and the writes accepted and not yet applied; the mapping follows `next` from
`recent`. Its deadlines are the ones callers asked for, `now + ttl` on a line without
end: the mapping turns a wrapped deadline back into that sum.

### CachedCommand

For each process: `pc` (main), `done` (its context is cancelled), `latched`, `err`
(the errors main joins; none is exit status 0), and the memory of its mode. A load
has workers at `"loop"`, `"set"`, `"print"`, `"report"` or `"finished"`, the failures
channel of one slot, and ghosts for what was acknowledged, printed and failed. A repl
has the scanning goroutine, the unbuffered channel of lines (a line on offer) and
the result channel. A `select` with several ready cases is a disjunction. The
store is seen from outside: it accepts, refuses an entry for its size, or latches, in
a write or in the flush ticker (`FlushFails`). `Faults` names what may fail: store,
output, diagnostics, input, and the arrival of signals and kills. Processes restart
for ever.

## 3. The runs

Two keys, in different shards when there are two, are `a` and `b`. Bounds are
named constants and appear in guards.

| Run | Question | States | Result |
| --- | --- | --- | --- |
| `Crash` | crash at any step, reopen with 1 or 2 shards and other capacities; evictions, memory-mode and final snapshots | 502k | passes |
| `Compact` | a third record after an eviction: automatic compaction beside writes, failing rolls, torn tails and crashes | 609k | passes |
| `Faults` | any failure and crash, batches of two, deadlines and a moving clock; refinement of `DurableMap` | 499k | passes |
| `Power` | power loss at any step | 32k | passes |
| `Live` | failing writes and crashes; flushing and termination | 45k | passes |
| `Queue` | three concurrent calls, channel of one | 18k | passes |
| `Shard` | three keys, room for two; refinement of `RecencyOrder`, the sweep's progress | 38k | passes |
| `Segment` | five records in segments of two; failures, crashes, power loss, damage | 17k | passes |
| `Cached` | a load with two workers and a repl on one directory, all faults | 47k | passes |
| `PowerRefused`, `Damaged`, `Adopted` | a documented claim | | violated, section 4 |

The properties:

- `CrashRecoverable`: kill the process in this state and `Open`, with any shard
  count, succeeds and finds for every key exactly what its last record left,
  entries that have expired apart. Nothing acknowledged is missing, nothing
  deleted returns, what was evicted does.
- `InstalledSnapshotsTruthful`: each shard of an installed snapshot is the image
  of the log at the sequence recorded for that shard.
- `ReadsAreCurrent`: a read sees the last applied write of its key or, after an
  eviction, nothing; never an older value.
- `SyncedIsStable`: what an fsync promised is in the synced part of a segment or
  under a permanent snapshot.
- `PruneOnlyCovered`: a deleted segment was covered by a permanent snapshot.
- `LatchedStoreIsSilent`: a latched store appends and acknowledges nothing.
- `PowerLossHonest`: after a power loss, a directory that opens recovers exactly
  the records that survived, and what was promised survived.
- `ImplementsDurableMap`: every step of the store is a step of the abstract map.
- `AckedBecomesStable`: an acknowledged write reaches stable storage although
  nobody calls Sync, unless the store latches or the process ends first.
- `SnapshotTerminates`, `BatchAnswered`, `CloseTerminates`: no snapshot, batch or
  Close is stuck, the wait of an eviction on the interlock included.
- `NothingBehindClose`, `QuietWhenUnlocked`, `SyncCoversEarlierWrites`,
  `CloseCoversAcknowledged`, `EveryCallReturns`: the request protocol.
- `ClosesAgree`: no call of Close returns before the directory is unlocked and the
  writer has exited, also one that came while another was at it, and all return the
  same outcome.
- `AlwaysOpens`: whatever step of `createSegment` was interrupted or failed and
  whatever the power took, an undamaged log opens, unless an adopted name vanished.
- `SyncedSurvives`: records under a successful fsync are lost only with such a name
  or to damage. The exception is real (`Adopted`, section 4); after it an empty last
  segment can also hide the gap.
- `GradedDamage`: of a log with a damaged record `Open` recovers exactly what comes
  before it, or refuses; it gives up intact records after the damage only for a
  length in the last segment that reads as too small or reaches the file's end.
- `ListIntact`, `ChargeExact`: list, map and byte count of a shard agree, and outside
  a critical section the shard fits its capacity.
- `FreshWriteKept`: evicting for a write never takes what was just written.
- `ImplementsRecencyOrder`: entries change by the accepted writes, in their order; only
  the least recently used entry is evicted, only from a shard that holds too much; and
  nothing expires before the deadline its caller asked for, the stale time of the sweep
  included. The exception is a sum of time and TTL beyond the largest integer, which the
  code wraps to a negative number: that entry expires at once (`store.go:249`).
- `SweepReclaims`: an expired entry goes although nobody reads it.
- `OwnerOnly`: a process touches the store only as the owner of the directory, has
  stopped its workers before it closes it, and keeps nothing when it ends.
- `PrintedIsAcked`: `load` prints acknowledged keys only, and all of them by its end
  unless an output failed.
- `EveryLineExecuted`: the end of the input does not overtake a line.
- `FailureReported`: exit status 0 means that the store never latched and, without a
  signal, that no worker failed. With a signal, `runLoad`'s select may drop a refused
  entry or a failed output; a latched store is still reported, by `Close`.
- `SignalEnds`, `FailureEnds`: a signalled process, and a load with a failed worker,
  ends.

Why the bounds are enough to be interesting. In most runs segments of one record and a
threshold of one record make every write roll and every write trigger a
snapshot, so two records give two segments, a snapshot in progress across a
write, a snapshot replacing another, and pruning. Two sequences are the whole
sequence space of these instances, so its exhaustion is reached in each. A
capacity of one entry makes the second write evict; `Compact` has a third
sequence, with a threshold of two, because compaction rolls to a
next sequence after the eviction, and to delete an evicted key, and segments of three,
so that a failed third write leaves its torn record where the rebuild of Close reads. Reopening is unbounded.
Batches of two records are what a half-written chunk needs. One channel slot and
three calls give a blocked submitter beside a Close and a Sync. Three keys with
room for two make lists of every shape with a middle, sizes 1 and 3 with a capacity of
2 include entries that only recovery under a smaller capacity meets, and a largest
number of 1 lets a deadline wrap. Five records in segments of two give a first, a
middle and a last segment. Two workers are enough to fill the failures channel and
find it full. Longer histories
are covered by the proofs of section 5, for the properties proved there.

Fairness. The writer and the snapshot goroutine are weakly fair: Go schedules a
runnable goroutine eventually. The select in `runWriter` chooses at random among
ready cases, so an fsync tick that is ready again and again is taken
(`SF_vars(Fsync)`, in `FlushSpec`), and so is the closed `flushStop` channel
(`SF_vars(StopFlushing)`). Blocked channel senders are served in order and a
blocked lock writer keeps new readers out, so a call that can proceed again and
again does (`SF` on each call's steps). Callers need not ever call. The sweep's
mutex is not starved (`SF_vars(SweepLocks)`), and map iteration starts at a random
entry, so every entry is sampled again and again (`SF` on `SweepVisits`). In
`CachedCommand` main and the workers are weakly fair; signals, kills, input and the
scanner are not, as nobody needs to type. This assumes that writing to standard output
returns: a reader that stops reading blocks a worker with `outputMu` held, and with it
the process. `Power` and `Queue` do not check for deadlock: a refused directory stays
refused, and the protocol stops when every call has returned, which
`EveryCallReturns` states.

## 4. Where the documentation says otherwise

Three are runs that the model checker finds violated.

1. `PowerRefused`: `README.md:54`, "Power loss costs at most one flush interval."
   A memory-mode snapshot is fsynced when installed; the log it covers may not
   be. After a power loss the log ends before the snapshot's highest sequence
   and `recoverLog` refuses the directory (`recovery.go:118`). `PowerLossHonest`
   shows that refusal is the only way the promise fails: a directory that opens
   is right.
2. `Damaged`: `README.md:102`, "Corruption with valid records after it, or a gap in
   the sequence, is real data loss: the store refuses to open". A damaged length in
   the last segment that is too small or reaches the end of the file looks like a torn
   tail, and the records after it are cut off (`recovery.go:299`). `GradedDamage`
   shows that this is the only way.
3. `Adopted`: `store.go:300`, "Sync forces every accepted write onto stable storage."
   When the process ends between the rename of a new segment and the directory sync
   (`wal.go:288-293`), the next `Open` goes on in that segment and syncs no directory
   (`recovery.go:112`). A Sync then fsyncs the file and returns nil, but the name is not
   permanent, and a power loss can take the file. `SyncedSurvives` shows that this is the
   only way.

Three more are visible in the models as what the properties allow.

4. After a failed write the ticker no longer fsyncs (`wal.go:71`). ADR 0007 says
   there is "nothing left to make durable that the caller has not already been told
   about"; writes acknowledged since the last fsync are left, and stay out of stable
   storage while the process lives. `AckedBecomesStable` therefore excepts a latched
   store.
5. ADR 0001 says exhausting the sequence space "refuses `Open` on reopen".
   `recoverLog` tests for it only without segments (`recovery.go:65`).
6. ADR 0007 says a failed write "is rejected" and ADR 0009 that "Callers always
   receive the definitive outcome of a mutation." A chunk of several records that
   fails part way leaves whole records, which the next `Open` applies (`wal.go:184`).
   `DurableMap` has this as its action `Fail`.

## 5. What is proved

The proofs are for every set of keys and requests, every hash, option set,
segment size, threshold, batch size, sequence space, clock bound and set of
faults that `ConstantsAssumption` admits, for every set of calls and channel
capacity that `CallsAssumption` admits, for every set of keys, sizes and capacity
that `ShardAssumption` admits, and for every set of processes, workers
and faults that `CommandAssumption` admits.

`DurableStoreProofs`:

- `Invariance`: `Spec => []Inv`;
- `TypeCorrectness`: `Spec => []TypeOK`;
- `LatchIsSilent`: `Spec => LatchedStoreIsSilent`;
- `PruningIsCovered`: `Spec => PruneOnlyCovered`;
- `DataInvariance`: `Spec => []DataInv`;
- `CurrentReads`: `Spec => []ReadsAreCurrent`;
- `StableOnceSynced`: `Spec => []SyncedIsStable`;
- `HonestAfterPowerLoss`: `Spec => []PowerLossHonest`;
- `RecoverableAfterCrash` and `TruthfulSnapshots`: if `"power" \notin Faults`,
  `Spec => []CrashRecoverable` and `Spec => []InstalledSnapshotsTruthful`;
- `RefinesDurableMap`: if `"power" \notin Faults`, `Spec => ImplementsDurableMap`.

The condition on the last three is one of the code: after a power loss a snapshot
may be ahead of the log, and `Open` refuses the directory (section 4).

`ShardLruProofs`: `ShardInvariance`, `ShardTypes` (`TypeOK`), `IntactList`
(`ListIntact`), `ExactCharge` (`ChargeExact`), `KeptFreshWrite` (`FreshWriteKept`),
`RefinesRecencyOrder` (`ImplementsRecencyOrder`).

`RequestQueueProofs`: `Invariance`, `NoStrandedRequest`
(`NothingBehindClose`), `UnlockIsLast` (`QuietWhenUnlocked`), `CoverInvariance`,
`SyncCovers` (`SyncCoversEarlierWrites`), `CloseCovers` (`CloseCoversAcknowledged`),
`ClosesTogether` (`ClosesAgree`).

The argument for the files. None of `TypeOK`, `LatchedStoreIsSilent` and
`PruneOnlyCovered` can be shown from one step alone: that a
write stays within the sequence space, or that the sequence a snapshot is named
by is one the log has reached, depends on where the writer is. `Inv` adds

- `LogInv`: the segments form a *chain*, each file starting where the previous
  one ends, every cell numbered by its place, a torn cell only as the last cell
  of the last file; and, while the store is up and not latched, the writer
  stands at the end of the last file;
- `WriterInv`: the pending records are numbered on from `seq`, a latched writer
  writes nothing, the published sequence is the writer's;
- `SnapInv`: a snapshot covers nothing beyond `seq`, and from its rename on it is
  in the directory under its name, and after the directory sync for good.

`StoreInvariant` has what a chain keeps under appending, rolling, trimming and pruning,
and that replay of a chain ends at the chain's last record
(`RecoversToTheEnd`), which is what `Open` needs to re-establish the writer's
position. `StoreSteps` has one lemma per action. The two that evict assume that sets of
keys can be counted (`Counts`), which `KeysCount` proves where the theorems are.
Pruning is then covered because only `deleteSegmentsBefore` removes a segment (`OnlyPruningRemoves`), it removes one that a later segment at or below
the snapshot's sequence succeeds, which the chain says ends below that sequence,
and it runs when `SnapInv` says that the snapshot is permanent.

The argument for the data. That recovery is exact says nothing about the step that
a store in mid-write takes next, so it is not inductive either. `DataInv`, inductive
given `Inv`, relates every place that holds data to the ghost `history`, by what the
first `n` records of it leave under a key (`Left`):

- `RecordsInv`: the files hold the records of the history, each at its sequence, and
  end where it ends;
- `AnswersInv`: what callers were told is in the history, what was promised is synced
  or before the last file, and the records still to apply are the history's next;
- `NamesInv`, `CoversInv`: a newer snapshot covers no less of any shard than an older
  one, none is ahead of the log unless the power failed, the first file is file 1 or
  follows a permanent snapshot, and a snapshot in progress starts where the installed
  ones have passed;
- `DirectoryInv`, `MemoryInv`, `ImageInv`: an installed snapshot, memory and the image
  in progress hold what the history left at their own sequence, up to expired entries
  and, for memory, counted evictions;
- `Accepted`: without power losses no directory is refused.

The core is `RecoveredExact`: replaying the files over a truthful snapshot, each shard
from its own cut-off, gives what the whole history left. It is what `Open` needs for
`MemoryInv`, compaction for `ImageInv`, and the theorems for `RecoveryIsExact`. An
image of memory is only truthful while nothing has been evicted, which the generation
check before the rename establishes. A power loss shortens the history to what
survived, and `AnswersInv` says that this is no less than what was promised.

The argument for the map. `StoreRefinement` maps `durable` to what the whole history
leaves and `visible` to memory, without expired entries. `LeftAppended` says what
records at the end of a history change, which makes `WriteRecords` the map's `Write`,
and a chunk written in part its `Fail` or `Stop`; `AnswersInv` makes `applySet` and
`applyDelete` its `Apply`, and `RecoveredExact` makes `Open` its `Start`. `Tick` is
`Pass`, and `MapNext` shows that every other step is invisible or a `Fail` without
records.

The argument for the shard. `ListInv` says that there is a sequence of keys that the
pointers spell out in both directions, that lists each key of the map once, and that
the charge is the sum of the sizes; `removeEntry`, `markRecent` and `setEntry` take
one element out of that sequence or put one in front. `Phased` says for each phase
what its next step relies on, such as that the entry just written is in front while
its eviction runs: the back of the list is then another entry or the only one, and
alone it fits. That a charge goes down by the size of the entry taken out
(`ChargesAdd`) and that following the pointers meets the list (`OrderIs`) are
assumptions of the lemmas on steps; `ChargesAddUp` and `OrderHere` prove them, from the
finiteness of the set of keys, before the theorems. `Control` keeps the times of a critical section and of the sweep
behind the clock, so that nothing expires early. The sequence is the refinement
mapping's order: the list determines it, so each change of the pointers is the one
change of the order that `RecencyOrder` allows. The deadline asked for can be told
from the one it wraps to (`AskedBack`), and the two have passed at the same times unless
the first is beyond the largest integer (`Expiry`).

The argument for the queue. `CallsInv` ties each call's place to the flags,
`LoopInv` the writer's place to its batch and control request, `PlacesInv` says
that each call waiting for an answer is in exactly one of the channel, the batch
and the control slot, with the close request last, and `QuietInv` orders the
stages of Close. `NothingBehindClose` needs all of them: a request is not behind
Close because `closed` was set with no reader inside the lock, before the close
request was sent.

What Sync and Close cover is a second invariant, `CoverInv`, inductive given the
first. `AckInv` says that the log holds the acknowledged writes and no others, and
that the writer never writes an empty batch, so that a latched store stays latched.
`AheadInv` says that each write sent before a Sync that still waits is in the log, or
in the batch, or before the Sync in the channel, or the store is latched; when the
writer serves the Sync the middle two are impossible, and a latched store fails it.
`CloseInv` says that from the sync of Close on everything accepted is stable or the
store is latched, which denies Close its nil. `EndInv` says that closeDone comes after
the unlock and the return of the call that closed, whose result the others take.

`CachedCommandProofs`: `CommandInvariant`, `CommandTypes` (`TypeOK`), `DirectoryOwned` (`OwnerOnly`),
`PrintsAcked` (`PrintedIsAcked`), `ExitsReport` (`FailureReported`), `LinesExecuted`
(`EveryLineExecuted`).

The argument for the command. `OwnerInv` says that the lock is held exactly by a
process between opening and unlocking. `PrintInv` names, for each acknowledged and
unprinted key, a worker that keeps it; two keys have different keepers, so there are
at most as many as workers, and a worker that has finished keeps one only when its
output failed. `ReportInv` says that main leaves its select with a signal or an
error in hand, and that past `CloseStore` a latched store has put an error there.
`LineInv` counts the lines read and not executed: the one on offer and the one being
executed, nothing else, until a signal. `Inv` is their conjunction with `TypeOK`.

Only model-checked: liveness, which needs fairness and ENABLED, and the properties of
`SegmentFiles`. Those are not out of reach: their inductive invariant has not been
worked out. `recoverSegment` starts a file at the sum of the lengths of the files before
it (`Previous`), so the proof would begin with lemmas on sums over sets like those of
`ShardLruProofs`.

## 6. What is not modelled

- The bytes of records and snapshots, and the parsing of file names. A damaged
  snapshot is refused whole (`loadSnapshotFile`) and is not among the faults.
- Option validation: one pure check per option, before anything has state.
- The totals of the statistics, and what a repl command prints.
- `LockFileEx` and the systems without a lock or a directory sync: their contract is
  that of `flock`, or an `Open` that always fails; the no-op directory sync of
  Windows is not modelled.
- The bound on the retained log over failed and discarded snapshots: it counts bytes
  over several snapshots, beyond the instances that can be checked.
- `proxy`, `resp`, `queue`, `sysmon`: there is no code.

## 7. Plan

In order:

1. Proofs: the inductive invariant of `SegmentFiles`, for `AlwaysOpens` and `GradedDamage`.
2. Damaged snapshots beside damaged segments.
3. The retained-log bound.
