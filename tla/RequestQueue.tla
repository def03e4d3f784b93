---------------------------- MODULE RequestQueue ----------------------------
(***************************************************************************)
(* How calls reach the writer goroutine and how a Store shuts down: submit *)
(* and its read lock, the bounded requests channel, the select loop of     *)
(* runWriter with its flush ticker, draining, Sync, the goroutines Close   *)
(* stops, and the release of the directory lock.                           *)
(*                                                                         *)
(* A call is one execution of Set, SetTTL, Delete ("write"), Sync or       *)
(* Close.  A request is named by its call.  What a write does to the log   *)
(* and to memory is the subject of DurableStore; here a write is accepted  *)
(* when its record is in the log, and stable when an fsync followed.       *)
(***************************************************************************)
EXTENDS Naturals, Sequences, FiniteSets, Functions

CONSTANTS
  Calls,         \* the calls made on one Store
  NoCall,
  QueueCapacity, \* cap(store.requests)
  MayFail        \* whether the file system may return errors

ASSUME CallsAssumption ==
  /\ IsFiniteSet(Calls) /\ NoCall \notin Calls
  /\ QueueCapacity \in Nat \ {0}
  /\ MayFail \in BOOLEAN

VARIABLES
  kind,            \* call -> what it is, "none" before it begins
  pc,              \* call -> where it is
  result,          \* call -> what it returned, "none" before
  closed,          \* store.closed; flushStop and sweepStop close with it
  closer,          \* the call inside closeOnce.Do
  flushDone, sweepDone,
  closeDone,
  lockHeld,        \* the directory lock
  requests,        \* the channel
  writer,          \* where runWriter is
  batch, control,  \* the requests it has taken from the channel
  latched,
  snapshotRunning,
  accepted,        \* writes whose record is in the log
  stable,          \* the accepted writes a successful fsync followed
  before           \* sync call -> the writes sent before it and not failed by then

calls == <<kind, pc, result, before>>
closing == <<closed, closer, sweepDone, closeDone, lockHeld>>
loop == <<writer, batch, control>>
log == <<latched, snapshotRunning, accepted, stable>>
vars == <<calls, closing, flushDone, requests, loop, log>>

Kinds == {"write", "sync", "close"}
Waiting == {"idle", "sending", "waiting", "lock", "flush", "sweep", "send", "drain", "join",
            "returned"}

Init ==
  /\ kind = [c \in Calls |-> "none"] /\ pc = [c \in Calls |-> "idle"]
  /\ result = [c \in Calls |-> "none"] /\ before = [c \in Calls |-> {}]
  /\ closed = FALSE /\ closer = NoCall
  /\ flushDone = FALSE /\ sweepDone = FALSE /\ closeDone = FALSE
  /\ lockHeld = TRUE
  /\ requests = <<>>
  /\ writer = "select" /\ batch = <<>> /\ control = NoCall
  /\ latched = FALSE /\ snapshotRunning = FALSE
  /\ accepted = {} /\ stable = {}

-----------------------------------------------------------------------------
(* The calls.                                                              *)

Goto(c, label) == pc' = [pc EXCEPT ![c] = label]
Return(c, r) ==
  /\ pc' = [pc EXCEPT ![c] = "returned"]
  /\ result' = [result EXCEPT ![c] = r]

Readers == {c \in Calls : pc[c] = "sending"}
Acknowledged == {c \in Calls : kind[c] = "write" /\ result[c] = "nil"}
Pending == {c \in Calls : kind[c] = "write" /\ pc[c] = "waiting"} \cup Acknowledged

(* submit takes the read lock, which a Close waiting for the write lock    *)
(* holds up, and looks at closed.                                          *)
submit(c, k) ==
  /\ pc[c] = "idle" /\ (closer # NoCall => pc[closer] # "lock")
  /\ kind' = [kind EXCEPT ![c] = k]
  /\ IF closed THEN Return(c, "closed") ELSE Goto(c, "sending") /\ UNCHANGED result
  /\ UNCHANGED <<before, closing, flushDone, requests, loop, log>>

(* store.requests <- request, and the read lock is released.               *)
Send(c) ==
  /\ pc[c] = "sending" /\ Len(requests) < QueueCapacity
  /\ requests' = Append(requests, c)
  /\ before' = [before EXCEPT ![c] = IF kind[c] = "sync" THEN Pending ELSE {}]
  /\ Goto(c, "waiting")
  /\ UNCHANGED <<kind, result, closing, flushDone, loop, log>>

(* closeOnce.Do: the first Close runs the function, the others wait for it.*)
Close(c) ==
  /\ pc[c] = "idle"
  /\ kind' = [kind EXCEPT ![c] = "close"]
  /\ IF closer = NoCall THEN closer' = c /\ Goto(c, "lock")
                        ELSE UNCHANGED closer /\ Goto(c, "join")
  /\ UNCHANGED <<result, before, closed, sweepDone, closeDone, lockHeld, flushDone, requests,
                 loop, log>>

CloseLocksMutant(c) ==
  /\ pc[c] = "lock"
  /\ closed' = TRUE
  /\ Goto(c, "flush")
  /\ UNCHANGED <<kind, result, before, closer, sweepDone, closeDone, lockHeld, flushDone,
                 requests, loop, log>>

(* Under the write lock: no reader is inside submit.                       *)
CloseLocks(c) ==
  /\ pc[c] = "lock" /\ Readers = {}
  /\ closed' = TRUE
  /\ Goto(c, "flush")
  /\ UNCHANGED <<kind, result, before, closer, sweepDone, closeDone, lockHeld, flushDone,
                 requests, loop, log>>

CloseAwaitsFlush(c) ==
  /\ pc[c] = "flush" /\ flushDone
  /\ Goto(c, "sweep")
  /\ UNCHANGED <<kind, result, before, closing, flushDone, requests, loop, log>>

CloseAwaitsSweep(c) ==
  /\ pc[c] = "sweep" /\ sweepDone
  /\ Goto(c, "send")
  /\ UNCHANGED <<kind, result, before, closing, flushDone, requests, loop, log>>

CloseSends(c) ==
  /\ pc[c] = "send" /\ Len(requests) < QueueCapacity
  /\ requests' = Append(requests, c)
  /\ Goto(c, "drain")
  /\ UNCHANGED <<kind, result, before, closing, flushDone, loop, log>>

(* The writer has answered and is done: unlock the directory.  An error of *)
(* the unlock or of closing the lock file joins the writer's answer; the   *)
(* lock is gone with the file either way.                                  *)
CloseFinishes(c) ==
  /\ pc[c] = "drain" /\ result[c] # "none" /\ writer = "exited"
  /\ lockHeld' = FALSE /\ closeDone' = TRUE
  /\ \E ok \in BOOLEAN : (ok \/ MayFail) /\ Return(c, IF ok THEN result[c] ELSE "error")
  /\ UNCHANGED <<kind, before, closed, closer, sweepDone, flushDone, requests, loop, log>>

CloseJoinsMutant(c) ==
  /\ pc[c] = "join" /\ closed
  /\ Return(c, "nil")
  /\ UNCHANGED <<kind, before, closing, flushDone, requests, loop, log>>

(* The other calls wait for closeDone and return the same closeErr.        *)
CloseJoins(c) ==
  /\ pc[c] = "join" /\ closeDone
  /\ Return(c, result[closer])
  /\ UNCHANGED <<kind, before, closing, flushDone, requests, loop, log>>

-----------------------------------------------------------------------------
(* The writer goroutine.                                                   *)

StopFlushingMutant ==
  /\ writer = "select" /\ closed /\ ~flushDone /\ ~latched
  /\ flushDone' = TRUE
  /\ UNCHANGED <<calls, closing, requests, loop, log>>

(* The flush ticker stops, once Close has closed flushStop.                *)
StopFlushing ==
  /\ writer = "select" /\ closed /\ ~flushDone
  /\ flushDone' = TRUE
  /\ UNCHANGED <<calls, closing, requests, loop, log>>

(* syncWAL succeeds, or fails and latches.                                 *)
SyncWAL(ok) ==
  /\ ok \/ MayFail
  /\ stable' = IF ok THEN accepted ELSE stable
  /\ latched' = (latched \/ ~ok)

Tick ==
  /\ writer = "select" /\ ~flushDone /\ ~latched
  /\ \E ok \in BOOLEAN : SyncWAL(ok)
  /\ UNCHANGED <<calls, closing, flushDone, requests, loop, snapshotRunning, accepted>>

Receive ==
  /\ writer = "select" /\ requests # <<>>
  /\ requests' = Tail(requests)
  /\ IF kind[Head(requests)] = "write"
     THEN batch' = <<Head(requests)>> /\ UNCHANGED control /\ writer' = "drain"
     ELSE control' = Head(requests) /\ UNCHANGED batch /\ writer' = "control"
  /\ UNCHANGED <<calls, closing, flushDone, log>>

drainWritesMutant ==
  /\ writer = "drain"
  /\ IF requests = <<>>
     THEN writer' = "write" /\ UNCHANGED <<requests, batch, control>>
     ELSE /\ requests' = Tail(requests)
          /\ IF kind[Head(requests)] = "write"
             THEN batch' = Append(batch, Head(requests)) /\ UNCHANGED <<writer, control>>
             ELSE control' = Head(requests) /\ writer' = "control" /\ UNCHANGED batch
  /\ UNCHANGED <<calls, closing, flushDone, log>>

(* Everything queued, up to the first Sync or Close.                       *)
drainWrites ==
  /\ writer = "drain"
  /\ IF requests = <<>>
     THEN writer' = "write" /\ UNCHANGED <<requests, batch, control>>
     ELSE /\ requests' = Tail(requests)
          /\ IF kind[Head(requests)] = "write"
             THEN batch' = Append(batch, Head(requests)) /\ UNCHANGED <<writer, control>>
             ELSE control' = Head(requests) /\ writer' = "write" /\ UNCHANGED batch
  /\ UNCHANGED <<calls, closing, flushDone, log>>

(* Every request of the batch is answered: the first p with nil once their *)
(* records are in the log, the others with the error that latched.  The    *)
(* writer answers them one by one, without waiting (each has a channel of  *)
(* its own, with room for the answer), so no call can hold up the next.    *)
respondAll(p) ==
  /\ pc' = [c \in Calls |-> IF c \in Range(batch) THEN "returned" ELSE pc[c]]
  /\ result' = [c \in Calls |-> IF c \in Range(SubSeq(batch, 1, p)) THEN "nil"
                                ELSE IF c \in Range(batch) THEN "error" ELSE result[c]]
  /\ accepted' = accepted \cup Range(SubSeq(batch, 1, p))

(* A roll inside the batch may have synced part of it; stable is what a    *)
(* caller can rely on, so that is left out.  startSnapshot follows: the    *)
(* roll it begins with may fail and latch too.                             *)
writeBatch ==
  /\ writer = "write"
  /\ \E p \in 0..Len(batch), rollFails \in BOOLEAN :
       /\ latched => p = 0
       /\ p < Len(batch) => latched \/ MayFail
       /\ rollFails => MayFail /\ p = Len(batch) /\ ~snapshotRunning
       /\ respondAll(p)
       /\ latched' = (p < Len(batch) \/ rollFails)
  /\ snapshotRunning' \in {snapshotRunning, snapshotRunning \/ ~latched'}
  /\ batch' = <<>>
  /\ writer' = IF control = NoCall THEN "select" ELSE "control"
  /\ UNCHANGED <<kind, before, closing, flushDone, requests, control, stable>>

(* handleControl for a Sync.                                               *)
HandleSync ==
  /\ writer = "control" /\ kind[control] = "sync"
  /\ \/ latched /\ Return(control, "error") /\ UNCHANGED <<latched, stable>>
     \/ ~latched /\ \E ok \in BOOLEAN : SyncWAL(ok) /\ Return(control, IF ok THEN "nil" ELSE "error")
  /\ control' = NoCall /\ writer' = "select"
  /\ UNCHANGED <<kind, before, closing, flushDone, requests, batch, snapshotRunning, accepted>>

HandleCloseMutant ==
  /\ writer = "control" /\ kind[control] = "close"
  /\ UNCHANGED <<latched, stable>>
  /\ writer' = "final"
  /\ UNCHANGED <<calls, closing, flushDone, requests, batch, control, snapshotRunning, accepted>>

(* handleControl for Close: sync whether or not latched, outwait the       *)
(* background snapshot, write the final one, answer and exit.              *)
HandleClose ==
  /\ writer = "control" /\ kind[control] = "close"
  /\ \E ok \in BOOLEAN : SyncWAL(ok)
  /\ writer' = "final"
  /\ UNCHANGED <<calls, closing, flushDone, requests, batch, control, snapshotRunning, accepted>>

writeFinalSnapshotMutant ==
  /\ writer = "final"
  /\ \E ok \in BOOLEAN :
       /\ ok \/ MayFail
       /\ result' = [result EXCEPT ![control] = IF ok /\ ~latched THEN "nil" ELSE "error"]
  /\ writer' = "exited"
  /\ UNCHANGED <<kind, pc, before, closing, flushDone, requests, batch, control, log>>

writeFinalSnapshot ==
  /\ writer = "final" /\ ~snapshotRunning
  /\ \E ok \in BOOLEAN :
       /\ ok \/ MayFail
       /\ result' = [result EXCEPT ![control] = IF ok /\ ~latched THEN "nil" ELSE "error"]
  /\ writer' = "exited"
  /\ UNCHANGED <<kind, pc, before, closing, flushDone, requests, batch, control, log>>

-----------------------------------------------------------------------------
(* The other goroutines.                                                   *)

SnapshotEnds ==
  /\ snapshotRunning
  /\ snapshotRunning' = FALSE
  /\ UNCHANGED <<calls, closing, flushDone, requests, loop, latched, accepted, stable>>

(* runSweep returns, once Close has closed sweepStop.                      *)
SweepStops ==
  /\ closed /\ ~sweepDone
  /\ sweepDone' = TRUE
  /\ UNCHANGED <<calls, closed, closer, closeDone, lockHeld, flushDone, requests, loop, log>>

-----------------------------------------------------------------------------
CallStep(c) ==
  \/ Send(c) \/ CloseLocks(c) \/ CloseAwaitsFlush(c) \/ CloseAwaitsSweep(c) \/ CloseSends(c)
  \/ CloseFinishes(c) \/ CloseJoins(c)

WriterStep ==
  Receive \/ drainWrites \/ writeBatch \/ HandleSync \/ HandleClose \/ writeFinalSnapshot

Next ==
  \/ \E c \in Calls : Close(c) \/ CallStep(c) \/ \E k \in {"write", "sync"} : submit(c, k)
  \/ WriterStep \/ StopFlushing \/ Tick
  \/ SnapshotEnds \/ SweepStops

Spec == Init /\ [][Next]_vars

(* Goroutines that can run do; the select of runWriter takes a request and *)
(* sees flushStop in the end, because it chooses among ready cases at      *)
(* random; a call that has begun carries on.                               *)
FairSpec ==
  /\ Spec
  /\ WF_vars(WriterStep) /\ SF_vars(StopFlushing)
  /\ WF_vars(SnapshotEnds) /\ WF_vars(SweepStops)
  /\ \A c \in Calls : SF_vars(CallStep(c))

-----------------------------------------------------------------------------
(* Every variable stays in its type.                                       *)
TypeOK ==
  /\ kind \in [Calls -> Kinds \cup {"none"}] /\ pc \in [Calls -> Waiting]
  /\ result \in [Calls -> {"none", "nil", "error", "closed"}]
  /\ before \in [Calls -> SUBSET Calls]
  /\ closed \in BOOLEAN /\ closer \in Calls \cup {NoCall}
  /\ flushDone \in BOOLEAN /\ sweepDone \in BOOLEAN /\ closeDone \in BOOLEAN
  /\ lockHeld \in BOOLEAN
  /\ requests \in Seq(Calls) /\ Len(requests) <= QueueCapacity
  /\ writer \in {"select", "drain", "write", "control", "final", "exited"}
  /\ batch \in Seq(Calls) /\ control \in Calls \cup {NoCall}
  /\ latched \in BOOLEAN /\ snapshotRunning \in BOOLEAN
  /\ accepted \subseteq Calls /\ stable \subseteq Calls

(* No request is left behind: once the writer has taken the request of     *)
(* Close, nothing is in the channel or in a batch, and no submit is on its *)
(* way to the channel, so every call it has not answered is that Close or  *)
(* waits for it.  (A request sent after the writer exits would block its   *)
(* caller for ever.)                                                       *)
NothingBehindClose ==
  writer \in {"final", "exited"} =>
    /\ requests = <<>> /\ batch = <<>>
    /\ \A c \in Calls : pc[c] \notin {"sending", "waiting"}

(* The directory lock is released only when nothing of this Store can      *)
(* touch the directory any more: the writer has exited, no snapshot runs,  *)
(* the sweep and the ticker are gone.                                      *)
QuietWhenUnlocked ==
  ~lockHeld => writer = "exited" /\ ~snapshotRunning /\ sweepDone /\ flushDone

(* A Sync that returns nil has put on stable storage every write that      *)
(* reached the channel before it, acknowledged by then or not, whichever   *)
(* goroutines they come from.                                              *)
SyncCoversEarlierWrites ==
  \A c \in Calls : kind[c] = "sync" /\ result[c] = "nil" => before[c] \subseteq stable

(* A Close that returns nil, the one that shut the store down or one that  *)
(* waited for it, leaves every acknowledged write on stable storage, and   *)
(* no write that was told ErrClosed is in the log.                         *)
CloseCoversAcknowledged ==
  \A c \in Calls :
    /\ kind[c] = "close" /\ result[c] = "nil" => Acknowledged \subseteq stable
    /\ result[c] = "closed" => c \notin accepted

(* No Close returns early: when one has, the call that shut the store down *)
(* or one that came while it was at it, the writer has exited and another  *)
(* Open can take the directory; and all of them report the same outcome,   *)
(* an error of the last sync, of the final snapshot or of the unlock       *)
(* included.                                                               *)
ClosesAgree ==
  LET closes == {c \in Calls : kind[c] = "close" /\ pc[c] = "returned"}
  IN  closes # {} => /\ ~lockHeld /\ writer = "exited"
                     /\ \A c, d \in closes : result[c] = result[d]

(* Every call returns: submitters blocked on a full channel, a Close       *)
(* waiting for them and for the ticker, the sweep, the writer and the      *)
(* snapshot, and a second Close waiting for the first.                     *)
EveryCallReturns == \A c \in Calls : (pc[c] # "idle") ~> (pc[c] = "returned")
=============================================================================
