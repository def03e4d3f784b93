--------------------------- MODULE CachedCommand ---------------------------
(***************************************************************************)
(* The command cached: processes that run it in load or in repl mode on    *)
(* one store directory, each with its main goroutine, its load workers or  *)
(* the goroutine that scans its input, the channels between them, the      *)
(* signal that cancels its context, and the directory lock that they       *)
(* contend for.  The store is seen from the outside: it accepts a write,   *)
(* refuses it, or fails and stays failed (DurableStore has the inside).    *)
(***************************************************************************)
EXTENDS Integers, Sequences, FiniteSets

CONSTANTS
  Loaders, Repls,   \* the processes, by mode
  Workers,          \* the workers of a load process
  Nobody,
  MaxWrites,        \* bound on the writes of a load process
  MaxLines,         \* bound on the lines a repl process reads
  Faults            \* "store", "output", "diagnostics", "input", "signal", "kill"

Procs == Loaders \cup Repls

ASSUME CommandAssumption ==
  /\ Loaders \cap Repls = {} /\ Nobody \notin Procs /\ IsFiniteSet(Workers)
  /\ MaxWrites \in Nat /\ MaxLines \in Nat

VARIABLES
  lock,     \* the process that holds LOCK, or Nobody
  pc,       \* where main is
  done,     \* ctx is cancelled: a signal has arrived
  latched,  \* the store of the process has latched an error
  err,      \* the errors main joins: the exit status is 1 unless there are none
  load,     \* runLoad's memory
  repl      \* runREPL's memory

vars == <<lock, pc, done, latched, err, load, repl>>

(* runLoad starts its workers; big: -value-bytes makes every entry exceed  *)
(* a shard's capacity.  A draw of the sequence counter stands for its key. *)
NewLoad(big) ==
  [oversized |-> big, sequence |-> 0,
   cancelled |-> FALSE,                                       \* cancel() has been called
   worker |-> [w \in Workers |-> [at |-> "loop", key |-> 0]],
   failures |-> <<>>,                                         \* the channel, of capacity 1
   acked |-> {},                                              \* draws whose Set returned nil
   printed |-> {},                                            \* draws whose key was printed
   failed |-> {}]                                             \* the errors workers have met

(* runREPL starts its scanning goroutine.                                  *)
NewRepl ==
  [scanner |-> "scan",      \* "scan", "offer" (a line, on a channel without buffer), "ended"
   scanResult |-> <<>>,     \* the channel, of capacity 1
   read |-> 0, executed |-> 0, quit |-> FALSE]

Ended(p) == pc[p] \in {"exited", "killed"}

(* The errors of a call that may fail where a fault of this kind may be.   *)
Outcomes(kind, e) == {{}} \cup (IF kind \in Faults THEN {{e}} ELSE {})

Init ==
  /\ lock = Nobody
  /\ pc = [p \in Procs |-> "start"] /\ done = [p \in Procs |-> FALSE]
  /\ latched = [p \in Procs |-> FALSE] /\ err = [p \in Procs |-> {}]
  /\ load \in [Loaders -> {NewLoad(big) : big \in BOOLEAN}]
  /\ repl = [p \in Repls |-> NewRepl]

-----------------------------------------------------------------------------
(* Starting, opening and closing: the same in both modes.                  *)

Goes(p, at) == pc' = [pc EXCEPT ![p] = at]
Joins(p, errors) == err' = [err EXCEPT ![p] = @ \cup errors]

(* The memory of a process goes with it.                                   *)
Forgotten(p) ==
  /\ latched' = [latched EXCEPT ![p] = FALSE] /\ done' = [done EXCEPT ![p] = FALSE]
  /\ load' = IF p \in Loaders THEN [load EXCEPT ![p] = NewLoad(FALSE)] ELSE load
  /\ repl' = IF p \in Repls THEN [repl EXCEPT ![p] = NewRepl] ELSE repl

(* Arguments that run, runREPL or runLoad rejects, or a plea for help.     *)
BadArguments(p) ==
  /\ pc[p] = "start"
  /\ Goes(p, "exited") /\ Forgotten(p)
  /\ \E errors \in {{}, {"usage"}} : Joins(p, errors)
  /\ UNCHANGED lock

(* LOCK_EX with LOCK_NB fails at once when another process has the lock.   *)
LockHeld == lock # Nobody

(* Mutant: a lock that is held is taken all the same.                      *)
acquireDirectoryLockMutant(p) ==
  /\ pc[p] = "start"
  /\ IF done[p]
       THEN Goes(p, "exited") /\ Forgotten(p) /\ Joins(p, {"open"}) /\ UNCHANGED lock
       ELSE lock' = p /\ Goes(p, "opening") /\ UNCHANGED <<done, latched, err, load, repl>>

(* Open up to the directory lock, which does not wait.                     *)
acquireDirectoryLock(p) ==
  /\ pc[p] = "start"
  /\ IF LockHeld \/ done[p]
       THEN Goes(p, "exited") /\ Forgotten(p) /\ Joins(p, {"open"}) /\ UNCHANGED lock
       ELSE lock' = p /\ Goes(p, "opening") /\ UNCHANGED <<done, latched, err, load, repl>>

(* The rest of Open: recovery may fail, or be cut short by the context.    *)
Opened(p) ==
  /\ pc[p] = "opening"
  /\ \/ Goes(p, "running") /\ UNCHANGED <<lock, done, latched, err, load, repl>>
     \/ /\ done[p] \/ "store" \in Faults
        /\ Goes(p, "exited") /\ Forgotten(p) /\ Joins(p, {"open"}) /\ lock' = Nobody

(* Mutant: Close does not report what the store latched.                   *)
CloseStoreMutant(p) ==
  /\ pc[p] = "closing"
  /\ Goes(p, "unlocking")
  /\ \E failure \in Outcomes("store", "close") : Joins(p, failure)
  /\ UNCHANGED <<lock, done, latched, load, repl>>

(* Store.Close up to the end of the writer: it reports a latched error,    *)
(* or one of the final fsync or snapshot.                                  *)
CloseStore(p) ==
  /\ pc[p] = "closing"
  /\ Goes(p, "unlocking")
  /\ \E failure \in Outcomes("store", "close") :
       Joins(p, failure \cup (IF latched[p] THEN {"close"} ELSE {}))
  /\ UNCHANGED <<lock, done, latched, load, repl>>

(* An fsync of the ticker fails: the store latches, and no call returns it *)
(* for the time being.                                                     *)
FlushFails(p) ==
  /\ "store" \in Faults /\ pc[p] \in {"running", "executing", "waiting"} /\ ~latched[p]
  /\ latched' = [latched EXCEPT ![p] = TRUE]
  /\ UNCHANGED <<lock, pc, done, err, load, repl>>

(* What closeStore returns: the errors of Close, or that of reporting a    *)
(* clean close.                                                            *)
closeStore(failure, report) == IF failure # {} THEN failure ELSE report

(* The end of Close: the lock is released, with the lock file if not by    *)
(* unlocking; closeStore returns, and main exits.                          *)
releaseDirectoryLock(p) ==
  /\ pc[p] = "unlocking"
  /\ lock' = Nobody
  /\ \E unlock \in Outcomes("store", "close"), report \in Outcomes("diagnostics", "report") :
       Joins(p, closeStore((err[p] \cap {"close"}) \cup unlock, report))
  /\ Goes(p, "exited") /\ Forgotten(p)

-----------------------------------------------------------------------------
(* runLoad: a worker's loop.  Reads change nothing here.                   *)

Moved(l, w, at, key) == [l EXCEPT !.worker[w] = [at |-> at, key |-> key]]
Loading(p, l) == load' = [load EXCEPT ![p] = l] /\ UNCHANGED <<lock, pc, done, err, repl>>
At(p, w, at) == pc[p] \in {"running", "waiting"} /\ load[p].worker[w].at = at

(* workCtx.Err() # nil: workCtx is derived from ctx.                       *)
Cancelled(p) == load[p].cancelled \/ done[p]

WorkerDraws(p, w) ==
  /\ At(p, w, "loop") /\ ~Cancelled(p) /\ load[p].sequence < MaxWrites
  /\ Loading(p, Moved([load[p] EXCEPT !.sequence = @ + 1], w, "set", load[p].sequence + 1))
  /\ UNCHANGED latched

WorkerEnds(p, w) ==
  /\ At(p, w, "loop") /\ Cancelled(p)
  /\ Loading(p, Moved(load[p], w, "finished", 0))
  /\ UNCHANGED latched

(* Set or SetTTL: acknowledged, refused for its size, or failed.           *)
WorkerSets(p, w) ==
  LET l == load[p]
      key == l.worker[w].key
  IN  /\ At(p, w, "set")
      /\ \/ /\ ~l.oversized /\ ~latched[p]
            /\ Loading(p, Moved([l EXCEPT !.acked = @ \cup {key}], w, "print", key))
            /\ UNCHANGED latched
         \/ /\ l.oversized
            /\ Loading(p, Moved([l EXCEPT !.failed = @ \cup {"refused"}], w, "report", 0))
            /\ UNCHANGED latched
         \/ /\ ~l.oversized /\ (latched[p] \/ "store" \in Faults)
            /\ Loading(p, Moved([l EXCEPT !.failed = @ \cup {"store"}], w, "report", 0))
            /\ latched' = [latched EXCEPT ![p] = TRUE]

(* Mutant: a worker that is told to stop does not print its last key.      *)
WorkerPrintsMutant(p, w) ==
  /\ At(p, w, "print")
  /\ IF Cancelled(p)
       THEN Loading(p, Moved(load[p], w, "finished", 0))
       ELSE Loading(p, Moved([load[p] EXCEPT !.printed = @ \cup {load[p].worker[w].key}], w, "loop", 0))
  /\ UNCHANGED latched

(* The key goes to standard output, under outputMu.                        *)
WorkerPrints(p, w) ==
  /\ At(p, w, "print")
  /\ \/ Loading(p, Moved([load[p] EXCEPT !.printed = @ \cup {load[p].worker[w].key}], w, "loop", 0))
     \/ /\ "output" \in Faults
        /\ Loading(p, Moved([load[p] EXCEPT !.failed = @ \cup {"output"}], w, "report", load[p].worker[w].key))
  /\ UNCHANGED latched

(* Mutant: the send waits for room in the channel.                         *)
reportLoadFailureBlocksMutant(p, w) ==
  /\ At(p, w, "report") /\ load[p].failures = <<>>
  /\ Loading(p, Moved([load[p] EXCEPT !.failures = <<"failure">>, !.cancelled = TRUE],
                   w, "finished", load[p].worker[w].key))
  /\ UNCHANGED latched

(* Mutant: the others are told to stop, main is not told.                  *)
reportLoadFailureSilentMutant(p, w) ==
  /\ At(p, w, "report")
  /\ Loading(p, Moved([load[p] EXCEPT !.cancelled = TRUE], w, "finished", 0))
  /\ UNCHANGED latched

(* Mutant: the channel holds every failure.                                *)
reportLoadFailureQueuesMutant(p, w) ==
  /\ At(p, w, "report")
  /\ Loading(p, Moved([load[p] EXCEPT !.failures = Append(@, "failure"), !.cancelled = TRUE], w, "finished", 0))
  /\ UNCHANGED latched

(* The failure is dropped when the channel is full; the others are told to *)
(* stop either way.                                                        *)
reportLoadFailure(p, w) ==
  /\ At(p, w, "report")
  /\ Loading(p, Moved([load[p] EXCEPT !.failures = <<"failure">>, !.cancelled = TRUE],
                   w, "finished", load[p].worker[w].key))
  /\ UNCHANGED latched

(* runLoad's main goroutine: the select, where either of two ready cases   *)
(* may be taken, and the cancellation after it.                            *)
LoadStops(p) ==
  /\ p \in Loaders /\ pc[p] = "running"
  /\ \/ /\ done[p]
        /\ load' = [load EXCEPT ![p].cancelled = TRUE]
        /\ UNCHANGED err
     \/ /\ load[p].failures # <<>>
        /\ load' = [load EXCEPT ![p].cancelled = TRUE, ![p].failures = <<>>]
        /\ Joins(p, {Head(load[p].failures)})
  /\ Goes(p, "waiting")
  /\ UNCHANGED <<lock, done, latched, repl>>

(* workers.Wait(), and the closing counts.                                 *)
LoadReports(p) ==
  /\ p \in Loaders /\ pc[p] = "waiting"
  /\ \A w \in Workers : load[p].worker[w].at = "finished"
  /\ Goes(p, "closing")
  /\ \E report \in Outcomes("diagnostics", "report") : Joins(p, report)
  /\ UNCHANGED <<lock, done, latched, load, repl>>

-----------------------------------------------------------------------------
(* runREPL: the scanning goroutine, and serveREPL.                         *)

Scanning(p, at) == p \in Repls /\ pc[p] \notin {"start", "opening"} /\ ~Ended(p) /\ repl[p].scanner = at

(* The scanner has a line, and offers it.                                  *)
ScanLine(p) ==
  /\ Scanning(p, "scan") /\ repl[p].read < MaxLines
  /\ repl' = [repl EXCEPT ![p].scanner = "offer", ![p].read = @ + 1]
  /\ UNCHANGED <<lock, pc, done, latched, err, load>>

(* Mutant: the end of the input is reported while a line is on offer, as a *)
(* buffered channel of lines would have it.                                *)
ScanEndsMutant(p) ==
  /\ Scanning(p, "scan") \/ Scanning(p, "offer")
  /\ \E failure \in Outcomes("input", "input") :
       repl' = [repl EXCEPT ![p].scanner = "ended", ![p].scanResult = <<failure>>]
  /\ UNCHANGED <<lock, pc, done, latched, err, load>>

(* The input ends, or cannot be read further.                              *)
ScanEnds(p) ==
  /\ Scanning(p, "scan")
  /\ \E failure \in Outcomes("input", "input") :
       repl' = [repl EXCEPT ![p].scanner = "ended", ![p].scanResult = <<failure>>]
  /\ UNCHANGED <<lock, pc, done, latched, err, load>>

ScanCancelled(p) ==
  /\ Scanning(p, "offer") /\ done[p]
  /\ repl' = [repl EXCEPT ![p].scanner = "ended", ![p].scanResult = <<{}>>]
  /\ UNCHANGED <<lock, pc, done, latched, err, load>>

(* serveREPL takes the line that is offered ...                            *)
TakeLine(p) ==
  /\ Scanning(p, "offer") /\ pc[p] = "running"
  /\ repl' = [repl EXCEPT ![p].scanner = "scan"]
  /\ Goes(p, "executing")
  /\ UNCHANGED <<lock, done, latched, err, load>>

(* ... and executes it: a command that asks to stop, or one that succeeds, *)
(* or one whose error goes to the diagnostics.  A write may latch.         *)
executeREPL(p) ==
  /\ p \in Repls /\ pc[p] = "executing"
  /\ \/ /\ repl' = [repl EXCEPT ![p].executed = @ + 1, ![p].quit = TRUE]
        /\ Goes(p, "closing")
        /\ UNCHANGED <<latched, err>>
     \/ /\ repl' = [repl EXCEPT ![p].executed = @ + 1]
        /\ \E fails \in Outcomes("store", "store") : latched' = [latched EXCEPT ![p] = @ \/ fails # {}]
        /\ \E report \in Outcomes("diagnostics", "report") :
             Joins(p, report) /\ Goes(p, IF report = {} THEN "running" ELSE "closing")
  /\ UNCHANGED <<lock, done, load>>

(* serveREPL returns: for a signal, or with the scanner's result.          *)
ServeEnds(p) ==
  /\ p \in Repls /\ pc[p] = "running"
  /\ \/ done[p] /\ UNCHANGED <<err, repl>>
     \/ /\ repl[p].scanResult # <<>>
        /\ Joins(p, Head(repl[p].scanResult))
        /\ repl' = [repl EXCEPT ![p].scanResult = <<>>]
  /\ Goes(p, "closing")
  /\ UNCHANGED <<lock, done, latched, load>>

-----------------------------------------------------------------------------
(* Signals.                                                                *)

(* SIGINT or SIGTERM: main's context is cancelled.                         *)
Signal(p) ==
  /\ "signal" \in Faults /\ ~Ended(p) /\ ~done[p]
  /\ done' = [done EXCEPT ![p] = TRUE]
  /\ UNCHANGED <<lock, pc, latched, err, load, repl>>

(* The process is killed; the operating system releases its lock.          *)
Kill(p) ==
  /\ "kill" \in Faults /\ ~Ended(p)
  /\ Goes(p, "killed") /\ Forgotten(p)
  /\ lock' = IF lock = p THEN Nobody ELSE lock
  /\ err' = [err EXCEPT ![p] = {}]

Main(p) ==
  \/ BadArguments(p) \/ acquireDirectoryLock(p) \/ Opened(p)
  \/ LoadStops(p) \/ LoadReports(p)
  \/ TakeLine(p) \/ executeREPL(p) \/ ServeEnds(p)
  \/ CloseStore(p) \/ releaseDirectoryLock(p)

Worker(p, w) ==
  WorkerDraws(p, w) \/ WorkerEnds(p, w) \/ WorkerSets(p, w) \/ WorkerPrints(p, w) \/ reportLoadFailure(p, w)

(* The command is run again.                                               *)
Restart(p) ==
  /\ Ended(p)
  /\ Goes(p, "start") /\ err' = [err EXCEPT ![p] = {}]
  /\ \E big \in BOOLEAN : load' = IF p \in Loaders THEN [load EXCEPT ![p] = NewLoad(big)] ELSE load
  /\ UNCHANGED <<lock, done, latched, repl>>

Next ==
  \/ \E p \in Procs : Restart(p) \/ Main(p) \/ FlushFails(p) \/ Signal(p) \/ Kill(p)
  \/ \E p \in Loaders, w \in Workers : Worker(p, w)
  \/ \E p \in Repls : ScanLine(p) \/ ScanEnds(p) \/ ScanCancelled(p)

Spec == Init /\ [][Next]_vars

(* The goroutines run; the calls of the store and the writes to the output *)
(* return.  Nothing makes the input move, or a signal come.                *)
FairSpec ==
  /\ Spec
  /\ \A p \in Procs : WF_vars(Main(p))
  /\ \A p \in Loaders, w \in Workers : WF_vars(Worker(p, w))

-----------------------------------------------------------------------------
(* Properties.                                                             *)

WorkerState == [at : {"loop", "set", "print", "report", "finished"}, key : 0..MaxWrites]
Load ==
  [oversized : BOOLEAN, sequence : 0..MaxWrites, cancelled : BOOLEAN,
   worker : [Workers -> WorkerState], failures : {<<>>, <<"failure">>},
   acked : SUBSET (1..MaxWrites), printed : SUBSET (1..MaxWrites),
   failed : SUBSET {"refused", "store", "output"}]
Repl ==
  [scanner : {"scan", "offer", "ended"}, scanResult : {<<>>, <<{}>>, <<{"input"}>>},
   read : 0..MaxLines, executed : 0..MaxLines, quit : BOOLEAN]

TypeOK ==
  /\ lock \in Procs \cup {Nobody}
  /\ pc \in [Procs -> {"start", "opening", "running", "executing", "waiting", "closing",
                        "unlocking", "exited", "killed"}]
  /\ done \in [Procs -> BOOLEAN] /\ latched \in [Procs -> BOOLEAN]
  /\ err \in [Procs -> SUBSET {"usage", "open", "failure", "report", "input", "close"}]
  /\ load \in [Loaders -> Load] /\ repl \in [Repls -> Repl]

(* A process recovers, writes, reads and closes the store only while it    *)
(* holds the directory lock, so two processes never do: the workers have   *)
(* stopped before runLoad closes the store, and Close holds the lock until *)
(* the writer has synced and written its snapshot.  A process that has     *)
(* ended holds nothing.                                                    *)
OwnerOnly ==
  \A p \in Procs :
    /\ pc[p] \in {"opening", "running", "executing", "waiting", "closing"} => lock = p
    /\ p \in Loaders /\ pc[p] \in {"closing", "unlocking"} =>
         \A w \in Workers : load[p].worker[w].at = "finished"
    /\ Ended(p) => lock # p

(* What load prints is what the store acknowledged: a key on standard      *)
(* output was acknowledged before, at most one key of each worker is       *)
(* acknowledged and not yet printed, and when the process is about to exit *)
(* and no output failed, none is.                                          *)
PrintedIsAcked ==
  \A p \in Loaders :
    LET unprinted == load[p].acked \ load[p].printed
    IN  /\ load[p].printed \subseteq load[p].acked
        /\ Cardinality(unprinted) <= Cardinality(Workers)
        /\ pc[p] = "unlocking" /\ "output" \notin load[p].failed => unprinted = {}

ExitReports(p) ==
  ~Ended(p) /\ pc'[p] = "exited" /\ err'[p] = {} =>
    ~latched[p] /\ (p \in Loaders => done[p] \/ load[p].failed = {})

(* A process that exits with success had no store failure, in either mode: *)
(* Close reports what the store latched.  A load that met any failure      *)
(* exits with an error, unless a signal arrived as well and runLoad's      *)
(* select took that: then a refused entry or a failed output goes          *)
(* unreported.                                                             *)
FailureReported == [][\A p \in Procs : ExitReports(p)]_vars

(* A repl that no signal, no quit and no error ended has executed every    *)
(* line of its input: the channel of lines has no buffer, so the scanner's *)
(* result cannot overtake a line.                                          *)
EveryLineExecuted ==
  \A p \in Repls :
    pc[p] \in {"closing", "unlocking"} /\ ~done[p] /\ ~repl[p].quit /\ err[p] = {} =>
      repl[p].executed = repl[p].read

(* A process that a signal reaches ends: no worker waits for room in the   *)
(* failures channel, no lock is waited for, and nobody waits for a         *)
(* scanner that waits for input.                                           *)
SignalEnds == \A p \in Procs : done[p] ~> Ended(p)

(* A load whose worker fails ends without a signal, whatever the others    *)
(* do.                                                                     *)
FailureEnds == \A p \in Loaders : load[p].failed # {} ~> Ended(p)
=============================================================================
