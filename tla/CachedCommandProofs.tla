------------------------ MODULE CachedCommandProofs ------------------------
(***************************************************************************)
(* For any number of processes and of load workers: a process touches the  *)
(* store only as the owner of the directory, what load prints was          *)
(* acknowledged, no store failure goes unreported, and a repl executes its *)
(* whole input.                                                            *)
(***************************************************************************)
EXTENDS CachedCommand, TLAPS

-----------------------------------------------------------------------------
(* The inductive invariant.                                                *)

Owning == {"opening", "running", "executing", "waiting", "closing", "unlocking"}
Blank == {"start", "opening", "exited", "killed"}

(* The lock is held exactly by the process that has the store open or has  *)
(* not yet released it, and a load that closes it has no worker left.      *)
OwnerInv ==
  /\ \A p \in Procs : (lock = p) <=> (pc[p] \in Owning)
  /\ \A p \in Loaders : pc[p] \in {"closing", "unlocking"} =>
       \A w \in Workers : load[p].worker[w].at = "finished"

(* The worker that still has the key to print, or could not print it.      *)
Keeps(l, w, k) ==
  /\ l.worker[w].key = k
  /\ l.worker[w].at = "print" \/ (l.worker[w].at \in {"report", "finished"} /\ "output" \in l.failed)

(* A key about to be printed is acknowledged, and every acknowledged key   *)
(* is printed or kept by a worker.                                         *)
PrintOK(l) ==
  /\ l.printed \subseteq l.acked
  /\ \A w \in Workers :
       /\ l.worker[w].at = "set" => l.worker[w].key # 0
       /\ l.worker[w].at = "print" => l.worker[w].key \in l.acked
  /\ \A k \in l.acked : k \in l.printed \/ \E w \in Workers : Keeps(l, w, k)
PrintInv == \A p \in Loaders : PrintOK(load[p])

(* A process that has no store yet, or none any more, has met no failure;  *)
(* runLoad leaves its select with a signal or with an error; Close reports *)
(* what the store latched.                                                 *)
LatchOK(p) ==
  /\ pc[p] \in Blank => ~latched[p]
  /\ pc[p] = "unlocking" /\ latched[p] => err[p] # {}
LoadOK(p) ==
  /\ pc[p] \in Blank => load[p].failed = {}
  /\ pc[p] \in {"waiting", "closing", "unlocking"} => done[p] \/ err[p] # {}
ReportInv == (\A p \in Procs : LatchOK(p)) /\ (\A p \in Loaders : LoadOK(p))

(* The lines that are read and not executed: the one on offer and the one  *)
(* being executed.                                                         *)
Behind(r, at) == (IF r.scanner = "offer" THEN 1 ELSE 0) + (IF at = "executing" THEN 1 ELSE 0)
LineOK(p) ==
  /\ pc[p] \in Blank => repl[p] = NewRepl
  /\ repl[p].scanResult # <<>> => repl[p].scanner = "ended"
  /\ repl[p].executed <= repl[p].read
  /\ pc[p] \in {"running", "executing"} => repl[p].executed + Behind(repl[p], pc[p]) <= repl[p].read
  /\ pc[p] \in {"running", "executing"} /\ ~done[p] => repl[p].executed + Behind(repl[p], pc[p]) = repl[p].read
  /\ pc[p] \in {"closing", "unlocking"} /\ ~done[p] /\ ~repl[p].quit /\ err[p] = {} =>
       repl[p].scanner = "ended" /\ repl[p].executed = repl[p].read
LineInv == \A p \in Repls : LineOK(p)

Inv == TypeOK /\ OwnerInv /\ PrintInv /\ ReportInv /\ LineInv

-----------------------------------------------------------------------------
(* The memory of runLoad and runREPL.                                      *)

(* The memory that a mode starts with has its type and holds no key, no    *)
(* failure and no line.                                                    *)
LEMMA NewMemory ==
  /\ \A big \in BOOLEAN : NewLoad(big) \in Load /\ PrintOK(NewLoad(big)) /\ NewLoad(big).failed = {}
  /\ NewRepl \in Repl
BY CommandAssumption DEF NewLoad, NewRepl, Load, Repl, WorkerState, PrintOK

(* What is said of the lines of a repl is kept by a step that leaves that  *)
(* process where it is, with its memory.                                   *)
LEMMA LineKept ==
  ASSUME LineInv, NEW q \in Repls,
         pc'[q] = pc[q], repl'[q] = repl[q], done'[q] = done[q], err'[q] = err[q]
  PROVE  LineOK(q)'
  BY ZenonT(30) DEF LineInv, LineOK, Behind

(* The keys of a load do not depend on its failures channel nor on its     *)
(* being cancelled.                                                        *)
LEMMA PrintKept ==
  ASSUME NEW l, NEW m, PrintOK(l), m.printed = l.printed, m.acked = l.acked,
         m.worker = l.worker, m.failed = l.failed
  PROVE  PrintOK(m)
  BY DEF PrintOK, Keeps

-----------------------------------------------------------------------------
(* The workers of a load.                                                  *)

(* A step of a worker leaves alone everything but its process's memory and *)
(* the latch of its store, and takes place while the process runs or waits *)
(* for its workers: then the invariant is the matter of its keys.          *)
LEMMA WorkerFrame ==
  ASSUME Inv, NEW p \in Loaders, NEW l \in Load, PrintOK(l),
         pc[p] \in {"running", "waiting"}, Loading(p, l),
         latched' = latched \/ latched' = [latched EXCEPT ![p] = TRUE]
  PROVE  Inv'
<1> USE DEF Loading, Procs
<1>1. load' \in [Loaders -> Load] /\ load'[p] = l /\ \A q \in Loaders \ {p} : load'[q] = load[q]
  BY Zenon DEF Inv, TypeOK
<1>2. latched' \in [Procs -> BOOLEAN] /\ \A q \in Procs \ {p} : latched'[q] = latched[q]
  BY Zenon DEF Inv, TypeOK
<1>3. TypeOK'  BY Zenon, <1>1, <1>2 DEF Inv, TypeOK
<1>4. OwnerInv'  BY Zenon, <1>1 DEF Inv, OwnerInv
<1>5. PrintInv'  BY Zenon, <1>1 DEF Inv, PrintInv
<1>6. ReportInv'  BY Zenon, <1>1, <1>2 DEF Inv, ReportInv, LatchOK, LoadOK, Blank
<1>7. LineInv'  BY ZenonT(30) DEF Inv, LineInv, LineOK, Behind
<1> QED  BY Zenon, <1>3, <1>4, <1>5, <1>6, <1>7 DEF Inv

(* A worker that has no key to print takes another place and another key;  *)
(* one that could not print its key keeps it to its end.                   *)
LEMMA MovedKeeps ==
  ASSUME NEW l \in Load, NEW m \in Load, NEW w \in Workers, PrintOK(l),
         m.printed = l.printed, m.acked = l.acked, l.failed \subseteq m.failed, m.worker = l.worker,
         NEW at \in {"loop", "set", "print", "report", "finished"}, NEW key \in 0..MaxWrites,
         \/ l.worker[w].at \in {"loop", "set"}
         \/ /\ l.worker[w].at = "report" \/ (l.worker[w].at = "print" /\ "output" \in m.failed)
            /\ at \in {"report", "finished"} /\ key = l.worker[w].key,
         at # "print", at = "set" => key # 0
  PROVE  Moved(m, w, at, key) \in Load /\ PrintOK(Moved(m, w, at, key))
<1> DEFINE n == Moved(m, w, at, key)
<1>1. /\ n \in Load /\ n.failed = m.failed /\ n.acked = l.acked /\ n.printed = l.printed
      /\ n.worker[w].at = at /\ n.worker[w].key = key
      /\ \A v \in Workers : v # w => n.worker[v] = l.worker[v]
  BY ZenonT(30) DEF Moved, Load, WorkerState
<1> HIDE DEF n
<1>2. \A k \in l.acked : Keeps(l, w, k) => Keeps(n, w, k)  BY Zenon, <1>1 DEF Keeps
<1>3. \A v \in Workers, k \in l.acked : Keeps(l, v, k) => Keeps(n, v, k)  BY Zenon, <1>1, <1>2 DEF Keeps
<1>4. PrintOK(n)  BY Zenon, <1>1, <1>3 DEF PrintOK
<1> QED  BY Zenon, <1>1, <1>4 DEF n

(* Every step of a worker preserves the invariant.                         *)
LEMMA WorkerStep ==
  ASSUME Inv, NEW p \in Loaders, NEW w \in Workers, Worker(p, w)
  PROVE  Inv'
<1> DEFINE l == load[p]
           key == l.worker[w].key
<1>1. l \in Load /\ PrintOK(l) /\ l.worker[w] \in WorkerState /\ key \in 0..MaxWrites
  BY DEF Inv, TypeOK, PrintInv, Load, WorkerState
<1>2. 0 \in 0..MaxWrites  BY CommandAssumption
<1>3. CASE WorkerDraws(p, w)
  <2> DEFINE m == [l EXCEPT !.sequence = @ + 1]
             draw == l.sequence + 1
             n == Moved(m, w, "set", draw)
  <2>1. m \in Load /\ m.failed = l.failed /\ m.acked = l.acked /\ m.printed = l.printed /\ m.worker = l.worker
    BY SMTT(30), <1>1, <1>3, CommandAssumption DEF WorkerDraws, Load
  <2>2. draw \in 0..MaxWrites /\ draw # 0  BY <1>1, <1>3, CommandAssumption DEF WorkerDraws, Load
  <2>3. l.worker[w].at = "loop"  BY Zenon, <1>3 DEF WorkerDraws, At
  <2>4. Loading(p, n) /\ latched' = latched /\ pc[p] \in {"running", "waiting"}  BY Zenon, <1>3 DEF WorkerDraws, At
  <2> HIDE DEF l, m, draw
  <2>5. n \in Load /\ PrintOK(n)  BY Zenon, <1>1, <2>1, <2>2, <2>3, MovedKeeps
  <2> QED  BY Zenon, <2>4, <2>5, WorkerFrame
<1>4. CASE WorkerEnds(p, w)
  <2> DEFINE n == Moved(l, w, "finished", 0)
  <2>1. l.worker[w].at = "loop"  BY Zenon, <1>4 DEF WorkerEnds, At
  <2>2. Loading(p, n) /\ latched' = latched /\ pc[p] \in {"running", "waiting"}  BY Zenon, <1>4 DEF WorkerEnds, At
  <2> HIDE DEF l
  <2>3. n \in Load /\ PrintOK(n)  BY Zenon, <1>1, <1>2, <2>1, MovedKeeps
  <2> QED  BY Zenon, <2>2, <2>3, WorkerFrame
<1>5. CASE WorkerSets(p, w)
  <2>1. l.worker[w].at = "set" /\ pc[p] \in {"running", "waiting"}  BY Zenon, <1>5 DEF WorkerSets, At
  <2>2. ASSUME NEW f \in {"refused", "store"},
               Loading(p, Moved([l EXCEPT !.failed = @ \cup {f}], w, "report", 0)),
               latched' = latched \/ latched' = [latched EXCEPT ![p] = TRUE]
        PROVE  Inv'
    <3> DEFINE m == [l EXCEPT !.failed = @ \cup {f}]
               n == Moved(m, w, "report", 0)
    <3>1. m \in Load /\ l.failed \subseteq m.failed /\ m.acked = l.acked /\ m.printed = l.printed /\ m.worker = l.worker
      BY Zenon, <1>1 DEF Load
    <3>2. Loading(p, n)  BY Zenon, <2>2
    <3> HIDE DEF l, m
    <3>3. n \in Load /\ PrintOK(n)  BY Zenon, <1>1, <1>2, <2>1, <3>1, MovedKeeps
    <3> QED  BY Zenon, <2>1, <2>2, <3>2, <3>3, WorkerFrame
  <2>3. ASSUME Loading(p, Moved([l EXCEPT !.acked = @ \cup {key}], w, "print", key)), latched' = latched
        PROVE  Inv'
    <3> DEFINE m == [l EXCEPT !.acked = @ \cup {key}]
               n == Moved(m, w, "print", key)
    <3>1. key \in 1..MaxWrites  BY <1>1, <2>1 DEF PrintOK
    <3>2. m \in Load /\ m.failed = l.failed /\ m.acked = l.acked \cup {key} /\ m.printed = l.printed /\ m.worker = l.worker
      BY Zenon, <1>1, <3>1 DEF Load
    <3>3. Loading(p, n)  BY Zenon, <2>3
    <3> HIDE DEF l, m
    <3>4. /\ n \in Load /\ n.failed = l.failed /\ n.acked = l.acked \cup {key} /\ n.printed = l.printed
          /\ n.worker[w].at = "print" /\ n.worker[w].key = key
          /\ \A v \in Workers : v # w => n.worker[v] = l.worker[v]
      BY Zenon, <1>1, <3>2 DEF Moved, Load, WorkerState
    <3> HIDE DEF n
    <3>5. Keeps(n, w, key)  BY Zenon, <3>4 DEF Keeps
    <3>6. \A v \in Workers, k \in l.acked : Keeps(l, v, k) => Keeps(n, v, k)  BY Zenon, <2>1, <3>4 DEF Keeps
    <3>7. PrintOK(n)  BY ZenonT(30), <1>1, <3>4, <3>5, <3>6 DEF PrintOK
    <3> QED  BY Zenon, <2>1, <2>3, <3>3, <3>4, <3>7, WorkerFrame
  <2> QED  BY Zenon, <1>5, <2>2, <2>3 DEF WorkerSets
<1>6. CASE WorkerPrints(p, w)
  <2>1. l.worker[w].at = "print" /\ pc[p] \in {"running", "waiting"} /\ latched' = latched
    BY Zenon, <1>6 DEF WorkerPrints, At
  <2>2. CASE Loading(p, Moved([l EXCEPT !.printed = @ \cup {key}], w, "loop", 0))
    <3> DEFINE m == [l EXCEPT !.printed = @ \cup {key}]
               n == Moved(m, w, "loop", 0)
    <3>1. key \in l.acked  BY Zenon, <1>1, <2>1 DEF PrintOK
    <3>2. m \in Load /\ m.failed = l.failed /\ m.acked = l.acked /\ m.printed = l.printed \cup {key} /\ m.worker = l.worker
      BY ZenonT(30), <1>1, <3>1 DEF Load
    <3>3. Loading(p, n)  BY Zenon, <2>2
    <3> HIDE DEF l, m
    <3>4. /\ n \in Load /\ n.failed = l.failed /\ n.acked = l.acked /\ n.printed = l.printed \cup {key}
          /\ n.worker[w].at = "loop"
          /\ \A v \in Workers : v # w => n.worker[v] = l.worker[v]
      BY Zenon, <1>1, <1>2, <3>2 DEF Moved, Load, WorkerState
    <3> HIDE DEF n
    <3>5. \A v \in Workers \ {w}, k \in l.acked : Keeps(l, v, k) => Keeps(n, v, k)  BY Zenon, <3>4 DEF Keeps
    <3>6. \A k \in l.acked : Keeps(l, w, k) => k = key  BY Zenon DEF Keeps
    <3>7. PrintOK(n)  BY ZenonT(30), <1>1, <3>1, <3>4, <3>5, <3>6 DEF PrintOK
    <3> QED  BY Zenon, <2>1, <3>3, <3>4, <3>7, WorkerFrame
  <2>3. CASE Loading(p, Moved([l EXCEPT !.failed = @ \cup {"output"}], w, "report", key))
    <3> DEFINE m == [l EXCEPT !.failed = @ \cup {"output"}]
               n == Moved(m, w, "report", key)
    <3>1. /\ m \in Load /\ l.failed \subseteq m.failed /\ "output" \in m.failed
          /\ m.acked = l.acked /\ m.printed = l.printed /\ m.worker = l.worker
      BY Zenon, <1>1 DEF Load
    <3>2. Loading(p, n)  BY Zenon, <2>3
    <3> HIDE DEF l, m
    <3>3. n \in Load /\ PrintOK(n)  BY Zenon, <1>1, <2>1, <3>1, MovedKeeps
    <3> QED  BY Zenon, <2>1, <3>2, <3>3, WorkerFrame
  <2> QED  BY Zenon, <1>6, <2>2, <2>3 DEF WorkerPrints
<1>7. CASE reportLoadFailure(p, w)
  <2> DEFINE m == [l EXCEPT !.failures = <<"failure">>, !.cancelled = TRUE]
             n == Moved(m, w, "finished", key)
  <2>1. m \in Load /\ m.failed = l.failed /\ m.acked = l.acked /\ m.printed = l.printed /\ m.worker = l.worker
    BY Zenon, <1>1 DEF Load
  <2>2. l.worker[w].at = "report" /\ Loading(p, n) /\ latched' = latched /\ pc[p] \in {"running", "waiting"}
    BY Zenon, <1>7 DEF reportLoadFailure, At
  <2> HIDE DEF l, m
  <2>3. n \in Load /\ PrintOK(n)  BY Zenon, <1>1, <2>1, <2>2, MovedKeeps
  <2> QED  BY Zenon, <2>2, <2>3, WorkerFrame
<1> QED  BY Zenon, <1>3, <1>4, <1>5, <1>6, <1>7 DEF Worker

-----------------------------------------------------------------------------
(* The scanning goroutine of a repl.                                       *)

(* A step of the scanner preserves the invariant: it ends only with no     *)
(* line on offer, or for a signal.                                         *)
LEMMA ScannerStep ==
  ASSUME Inv, NEW p \in Repls, ScanLine(p) \/ ScanEnds(p) \/ ScanCancelled(p)
  PROVE  Inv'
<1> USE DEF Procs
<1>1. UNCHANGED <<lock, pc, done, latched, err, load>> /\ pc[p] \notin Blank
  BY Zenon DEF ScanLine, ScanEnds, ScanCancelled, Scanning, Ended, Blank
<1>2. repl \in [Repls -> Repl]  BY Zenon DEF Inv, TypeOK
<1> DEFINE Scanned ==
        /\ repl' \in [Repls -> Repl] /\ \A q \in Repls : q # p => repl'[q] = repl[q]
        /\ repl'[p].executed = repl[p].executed /\ repl'[p].quit = repl[p].quit
        /\ \/ /\ repl[p].scanner = "scan" /\ repl'[p].scanner = "offer"
              /\ repl'[p].read = repl[p].read + 1 /\ repl'[p].scanResult = repl[p].scanResult
           \/ /\ repl[p].scanner = "scan" \/ (done[p] /\ repl[p].scanner = "offer")
              /\ repl'[p].scanner = "ended" /\ repl'[p].read = repl[p].read
<1>3. Scanned
  <2>1. CASE ScanLine(p)  BY <1>2, <2>1, CommandAssumption DEF ScanLine, Scanning, Repl
  <2>2. ASSUME NEW failure \in {{}, {"input"}},
               repl' = [repl EXCEPT ![p].scanner = "ended", ![p].scanResult = <<failure>>],
               repl[p].scanner = "scan" \/ (done[p] /\ repl[p].scanner = "offer")
        PROVE  Scanned
    BY ZenonT(30), <1>2, <2>2 DEF Repl
  <2>3. CASE ScanEnds(p)
    <3>1. PICK failure \in Outcomes("input", "input") :
            repl' = [repl EXCEPT ![p].scanner = "ended", ![p].scanResult = <<failure>>]
      BY Zenon, <2>3 DEF ScanEnds
    <3>2. failure \in {{}, {"input"}}  BY Zenon DEF Outcomes
    <3>3. repl[p].scanner = "scan"  BY Zenon, <2>3 DEF ScanEnds, Scanning
    <3> HIDE DEF Scanned
    <3> QED  BY Zenon, <2>2, <3>1, <3>2, <3>3, Zenon
  <2>4. CASE ScanCancelled(p)  BY Zenon, <2>2, <2>4 DEF ScanCancelled, Scanning
  <2> QED  BY Zenon, <2>1, <2>3, <2>4
<1>4. TypeOK'  BY Zenon, <1>1, <1>3 DEF Inv, TypeOK
<1>5. OwnerInv' /\ PrintInv' /\ ReportInv'  BY Zenon, <1>1 DEF Inv, OwnerInv, PrintInv, ReportInv, LatchOK, LoadOK
<1>6. LineInv'
  <2>1. ASSUME NEW q \in Repls, q # p  PROVE LineOK(q)'
    <3>1. pc'[q] = pc[q] /\ repl'[q] = repl[q] /\ done'[q] = done[q] /\ err'[q] = err[q]
      BY Zenon, <1>1, <1>3, <2>1 DEF Inv, TypeOK, Procs
    <3>2. LineInv  BY Zenon DEF Inv
    <3> QED  BY Zenon, <3>1, <3>2, LineKept
  <2>2. LineOK(p)'
    <3>1. repl[p].read \in Nat /\ repl[p].executed \in Nat  BY <1>2, CommandAssumption DEF Repl
    <3>2. LineOK(p)  BY Zenon DEF Inv, LineInv
    <3>3. CASE repl'[p].scanner = "offer"
      <4>1. /\ repl[p].scanner = "scan" /\ repl'[p].read = repl[p].read + 1
            /\ repl'[p].scanResult = repl[p].scanResult
            /\ repl'[p].executed = repl[p].executed /\ repl'[p].quit = repl[p].quit
        BY Zenon, <1>3, <3>3
      <4>2. Behind(repl'[p], pc'[p]) = Behind(repl[p], pc[p]) + 1 /\ Behind(repl[p], pc[p]) \in Nat
        BY <1>1, <3>3, <4>1 DEF Behind
      <4> QED  BY SMTT(30), <1>1, <3>1, <3>2, <4>1, <4>2 DEF LineOK
    <3>4. CASE repl'[p].scanner = "ended"  BY <1>1, <1>3, <3>1, <3>2, <3>4 DEF LineOK, Behind
    <3> QED  BY Zenon, <1>3, <3>3, <3>4
  <2> QED  BY Zenon, <2>1, <2>2 DEF LineInv
<1> QED  BY Zenon, <1>4, <1>5, <1>6 DEF Inv

-----------------------------------------------------------------------------
(* The main goroutine, signals, and the life of a process.                 *)

Errors == {"usage", "open", "failure", "report", "input", "close"}

(* A process that ends gives up the lock if it has it, and its memory.     *)
LEMMA ExitFrame ==
  ASSUME Inv, NEW p \in Procs, NEW at \in {"exited", "killed"}, Goes(p, at), Forgotten(p),
         NEW errors \in SUBSET Errors, err' = [err EXCEPT ![p] = errors],
         (lock = p /\ lock' = Nobody) \/ (lock # p /\ lock' = lock)
  PROVE  Inv'
<1> USE DEF Goes, Forgotten
<1>1. /\ pc' \in [Procs -> Owning \cup Blank] /\ pc'[p] = at
      /\ \A q \in Procs : q # p => pc'[q] = pc[q]
  BY ZenonT(30) DEF Inv, TypeOK, Owning, Blank
<1>2. /\ done' \in [Procs -> BOOLEAN] /\ latched' \in [Procs -> BOOLEAN] /\ err' \in [Procs -> SUBSET Errors]
      /\ ~latched'[p]
      /\ \A q \in Procs : q # p => done'[q] = done[q] /\ latched'[q] = latched[q] /\ err'[q] = err[q]
  BY Zenon DEF Inv, TypeOK, Errors
<1>3. /\ load' \in [Loaders -> Load]
      /\ \A q \in Loaders : load'[q] = load[q] \/ (q = p /\ load'[q] = NewLoad(FALSE))
      /\ p \in Loaders => load'[p] = NewLoad(FALSE)
  BY ZenonT(30), NewMemory DEF Inv, TypeOK
<1>4. /\ repl' \in [Repls -> Repl]
      /\ \A q \in Repls : q # p => repl'[q] = repl[q]
      /\ p \in Repls => repl'[p] = NewRepl
  BY Zenon, NewMemory DEF Inv, TypeOK
<1>5. TypeOK'  BY Zenon, <1>1, <1>2, <1>3, <1>4 DEF Inv, TypeOK, Owning, Blank, Errors
<1>6. OwnerInv'
  <2>1. \A q \in Procs : (lock' = q) <=> (pc'[q] \in Owning)
    BY <1>1, CommandAssumption DEF Inv, OwnerInv, TypeOK, Owning
  <2>2. ASSUME NEW q \in Loaders, pc'[q] \in {"closing", "unlocking"}, NEW w \in Workers
        PROVE  load'[q].worker[w].at = "finished"
    BY ZenonT(30), <1>1, <1>3, <2>2 DEF Inv, OwnerInv, Procs
  <2> QED  BY Zenon, <2>1, <2>2 DEF OwnerInv
<1>7. PrintInv'  BY Zenon, <1>3, NewMemory DEF Inv, PrintInv
<1>8. ReportInv'
  <2>1. \A q \in Procs : LatchOK(q)'  BY ZenonT(30), <1>1, <1>2 DEF Inv, ReportInv, LatchOK, LoadOK, Blank
  <2>2. \A q \in Loaders : LoadOK(q)'
    BY ZenonT(30), <1>1, <1>2, <1>3, NewMemory DEF Inv, ReportInv, LatchOK, LoadOK, Blank, Procs
  <2> QED  BY Zenon, <2>1, <2>2 DEF ReportInv
<1>9. LineInv'
  <2>1. ASSUME NEW q \in Repls, q # p  PROVE LineOK(q)'
    <3>1. pc'[q] = pc[q] /\ repl'[q] = repl[q] /\ done'[q] = done[q] /\ err'[q] = err[q]
      BY Zenon, <1>1, <1>2, <1>4, <2>1 DEF Inv, TypeOK, Procs
    <3>2. LineInv  BY Zenon DEF Inv
    <3> QED  BY Zenon, <3>1, <3>2, LineKept
  <2>2. ASSUME p \in Repls  PROVE LineOK(p)'
    BY <1>1, <1>4, <2>2 DEF LineInv, LineOK, NewRepl
  <2> QED  BY Zenon, <2>1, <2>2 DEF LineInv
<1> QED  BY Zenon, <1>5, <1>6, <1>7, <1>8, <1>9 DEF Inv

(* The exits of a process, each with the lock it has or has not.           *)
LEMMA ExitStep ==
  ASSUME Inv, NEW p \in Procs,
         \/ BadArguments(p) \/ Kill(p) \/ releaseDirectoryLock(p)
         \/ (acquireDirectoryLock(p) /\ (lock # Nobody \/ done[p]))
         \/ (Opened(p) /\ pc'[p] = "exited")
  PROVE  Inv'
<1>1. err[p] \in SUBSET Errors /\ err \in [Procs -> SUBSET Errors] /\ pc \in [Procs -> Owning \cup Blank]
  BY Zenon DEF Inv, TypeOK, Errors, Owning, Blank
<1>2. (lock = p) <=> (pc[p] \in Owning)  BY Zenon DEF Inv, OwnerInv
<1>3. CASE BadArguments(p)
  <2>1. PICK errors \in {{}, {"usage"}} : Joins(p, errors)  BY Zenon, <1>3 DEF BadArguments
  <2>2. err[p] \cup errors \in SUBSET Errors  BY Zenon, <1>1, <2>1 DEF Errors
  <2>3. lock # p /\ lock' = lock /\ Goes(p, "exited") /\ Forgotten(p)  BY Zenon, <1>2, <1>3 DEF BadArguments, Owning
  <2> QED  BY Zenon, <2>1, <2>2, <2>3, ExitFrame DEF Joins
<1>4. CASE Kill(p)
  <2>1. (lock = p /\ lock' = Nobody) \/ (lock # p /\ lock' = lock)  BY Zenon, <1>4 DEF Kill
  <2>2. Goes(p, "killed") /\ Forgotten(p) /\ err' = [err EXCEPT ![p] = {}]  BY Zenon, <1>4 DEF Kill
  <2> QED  BY Zenon, <2>1, <2>2, ExitFrame
<1>5. CASE releaseDirectoryLock(p)
  <2>1. PICK unlock \in Outcomes("store", "close"), report \in Outcomes("diagnostics", "report") :
          Joins(p, closeStore((err[p] \cap {"close"}) \cup unlock, report))
    BY Zenon, <1>5 DEF releaseDirectoryLock
  <2> DEFINE errors == err[p] \cup closeStore((err[p] \cap {"close"}) \cup unlock, report)
  <2>2. errors \in SUBSET Errors
    <3>1. unlock \in SUBSET Errors /\ report \in SUBSET Errors /\ err[p] \in SUBSET Errors
      BY Zenon, <1>1, <2>1 DEF Errors, Outcomes
    <3> QED  BY Zenon, <3>1 DEF closeStore
  <2>3. err' = [err EXCEPT ![p] = errors]  BY Zenon, <2>1 DEF Joins
  <2>4. lock = p /\ lock' = Nobody /\ Goes(p, "exited") /\ Forgotten(p)
    BY Zenon, <1>2, <1>5 DEF releaseDirectoryLock, Owning
  <2> HIDE DEF errors
  <2> QED  BY Zenon, <2>2, <2>3, <2>4, ExitFrame
<1>6. CASE acquireDirectoryLock(p) /\ (lock # Nobody \/ done[p])
  <2>1. err[p] \cup {"open"} \in SUBSET Errors  BY Zenon, <1>1 DEF Errors
  <2>2. lock # p /\ lock' = lock /\ Goes(p, "exited") /\ Forgotten(p) /\ Joins(p, {"open"})
    BY Zenon, <1>2, <1>6 DEF acquireDirectoryLock, LockHeld, Owning
  <2> QED  BY Zenon, <2>1, <2>2, ExitFrame DEF Joins
<1>7. CASE Opened(p) /\ pc'[p] = "exited"
  <2>1. err[p] \cup {"open"} \in SUBSET Errors  BY Zenon, <1>1 DEF Errors
  <2>2. lock = p /\ lock' = Nobody /\ Goes(p, "exited") /\ Forgotten(p) /\ Joins(p, {"open"})
    BY Zenon, <1>1, <1>2, <1>7 DEF Opened, Owning, Goes
  <2> QED  BY Zenon, <2>1, <2>2, ExitFrame DEF Joins
<1> QED  BY Zenon, <1>3, <1>4, <1>5, <1>6, <1>7

(* A step of main that leaves the memory of both modes alone: main moves,  *)
(* joins errors, takes the lock from nobody, or is told of a signal.       *)
LEMMA MainFrame ==
  ASSUME Inv, NEW p \in Procs, NEW at \in Owning, Goes(p, at),
         NEW errors \in SUBSET Errors, Joins(p, errors), UNCHANGED <<done, latched, load, repl>>,
         lock' = p, lock \in {p, Nobody},
         \/ pc[p] = "start" /\ lock = Nobody /\ at = "opening"
         \/ pc[p] = "opening" /\ at = "running"
         \/ /\ pc[p] = "waiting" /\ at = "closing" /\ p \in Loaders
            /\ \A w \in Workers : load[p].worker[w].at = "finished"
         \/ pc[p] = "closing" /\ at = "unlocking" /\ (latched[p] => "close" \in errors)
  PROVE  Inv'
<1> USE DEF Goes, Joins
<1>1. /\ pc' \in [Procs -> Owning \cup Blank] /\ pc'[p] = at
      /\ \A q \in Procs : q # p => pc'[q] = pc[q]
  BY Zenon DEF Inv, TypeOK, Owning, Blank
<1>2. /\ err' \in [Procs -> SUBSET Errors] /\ err'[p] = err[p] \cup errors
      /\ \A q \in Procs : q # p => err'[q] = err[q]
  BY Zenon DEF Inv, TypeOK, Errors
<1>3. TypeOK'  BY Zenon, <1>1, <1>2 DEF Inv, TypeOK, Owning, Blank, Errors
<1>4. OwnerInv'
  <2>1. \A q \in Procs : (lock' = q) <=> (pc'[q] \in Owning)
    BY <1>1, CommandAssumption DEF Inv, OwnerInv, TypeOK, Owning
  <2>2. ASSUME NEW q \in Loaders, pc'[q] \in {"closing", "unlocking"}, NEW w \in Workers
        PROVE  load'[q].worker[w].at = "finished"
    BY Zenon, <1>1, <2>2, CommandAssumption DEF Inv, OwnerInv, Procs
  <2> QED  BY Zenon, <2>1, <2>2 DEF OwnerInv
<1>5. PrintInv'  BY Zenon DEF Inv, PrintInv
<1>6. ReportInv'
  <2>1. \A q \in Procs : LatchOK(q)'  BY ZenonT(30), <1>1, <1>2 DEF Inv, ReportInv, LatchOK, LoadOK, Blank, Owning
  <2>2. \A q \in Loaders : LoadOK(q)'
    BY <1>1, <1>2 DEF Inv, ReportInv, LatchOK, LoadOK, Blank, Procs, Owning
  <2> QED  BY Zenon, <2>1, <2>2 DEF ReportInv
<1>7. LineInv'
  <2>1. ASSUME NEW q \in Repls, q # p  PROVE LineOK(q)'
    <3>1. pc'[q] = pc[q] /\ repl'[q] = repl[q] /\ done'[q] = done[q] /\ err'[q] = err[q]
      BY Zenon, <1>1, <1>2, <2>1 DEF Inv, TypeOK, Procs
    <3>2. LineInv  BY Zenon DEF Inv
    <3> QED  BY Zenon, <3>1, <3>2, LineKept
  <2>2. ASSUME p \in Repls  PROVE LineOK(p)'
    <3>1. repl[p] \in Repl /\ p \notin Loaders  BY Zenon, <2>2, CommandAssumption DEF Inv, TypeOK
    <3>2. err[p] = {} \/ err'[p] # {}  BY Zenon, <1>2
    <3> QED  BY <1>1, <2>2, <3>1, <3>2 DEF Inv, LineInv, LineOK, Behind, NewRepl, Repl, Blank
  <2> QED  BY Zenon, <2>1, <2>2 DEF LineInv
<1> QED  BY Zenon, <1>3, <1>4, <1>5, <1>6, <1>7 DEF Inv

(* Open and Close step by step, and the wait for the workers.              *)
LEMMA StoreStep ==
  ASSUME Inv, NEW p \in Procs,
         \/ (acquireDirectoryLock(p) /\ ~(lock # Nobody \/ done[p]))
         \/ (Opened(p) /\ pc'[p] # "exited")
         \/ LoadReports(p) \/ CloseStore(p)
  PROVE  Inv'
<1>1. err \in [Procs -> SUBSET Errors] /\ pc \in [Procs -> Owning \cup Blank]
  BY Zenon DEF Inv, TypeOK, Errors, Owning, Blank
<1>2. (lock = p) <=> (pc[p] \in Owning)  BY Zenon DEF Inv, OwnerInv
<1>3. {} \in SUBSET Errors /\ (UNCHANGED err => Joins(p, {}))  BY Zenon, <1>1 DEF Joins
<1>4. CASE acquireDirectoryLock(p) /\ ~(lock # Nobody \/ done[p])
  <2>1. /\ lock = Nobody /\ lock' = p /\ pc[p] = "start" /\ Goes(p, "opening")
        /\ UNCHANGED <<done, latched, err, load, repl>>
    BY Zenon, <1>4 DEF acquireDirectoryLock, LockHeld
  <2>2. "opening" \in Owning  BY Zenon DEF Owning
  <2> QED  BY Zenon, <1>3, <2>1, <2>2, MainFrame
<1>5. CASE Opened(p) /\ pc'[p] # "exited"
  <2>1. /\ lock = p /\ lock' = p /\ pc[p] = "opening" /\ Goes(p, "running")
        /\ UNCHANGED <<done, latched, err, load, repl>>
    BY Zenon, <1>1, <1>2, <1>5 DEF Opened, Goes, Owning
  <2>2. "running" \in Owning  BY Zenon DEF Owning
  <2> QED  BY Zenon, <1>3, <2>1, <2>2, MainFrame
<1>6. CASE LoadReports(p)
  <2>1. PICK report \in Outcomes("diagnostics", "report") : Joins(p, report)  BY Zenon, <1>6 DEF LoadReports
  <2>2. report \in SUBSET Errors /\ "closing" \in Owning  BY Zenon, <2>1 DEF Outcomes, Errors, Owning
  <2>3. /\ lock = p /\ lock' = p /\ pc[p] = "waiting" /\ Goes(p, "closing") /\ p \in Loaders
        /\ \A w \in Workers : load[p].worker[w].at = "finished"
        /\ UNCHANGED <<done, latched, load, repl>>
    BY Zenon, <1>2, <1>6 DEF LoadReports, Owning
  <2> QED  BY Zenon, <2>1, <2>2, <2>3, MainFrame
<1>7. CASE CloseStore(p)
  <2>1. PICK failure \in Outcomes("store", "close") :
          Joins(p, failure \cup (IF latched[p] THEN {"close"} ELSE {}))
    BY Zenon, <1>7 DEF CloseStore
  <2> DEFINE errors == failure \cup (IF latched[p] THEN {"close"} ELSE {})
  <2>2. errors \in SUBSET Errors /\ "unlocking" \in Owning  BY Zenon, <2>1 DEF Outcomes, Errors, Owning
  <2>3. latched[p] => "close" \in errors  OBVIOUS
  <2>4. Joins(p, errors)  BY Zenon, <2>1
  <2>5. /\ lock = p /\ lock' = p /\ pc[p] = "closing" /\ Goes(p, "unlocking")
        /\ UNCHANGED <<done, latched, load, repl>>
    BY Zenon, <1>2, <1>7 DEF CloseStore, Owning
  <2> HIDE DEF errors
  <2> QED  BY Zenon, <2>2, <2>3, <2>4, <2>5, MainFrame
<1> QED  BY Zenon, <1>4, <1>5, <1>6, <1>7

(* runLoad leaves its select with a signal or with a failure.              *)
LEMMA LoadStopsStep ==
  ASSUME Inv, NEW p \in Procs, LoadStops(p)
  PROVE  Inv'
<1> USE DEF Procs
<1>1. /\ p \in Loaders /\ pc[p] = "running" /\ UNCHANGED <<lock, done, latched, repl>>
      /\ load[p] \in Load /\ PrintOK(load[p]) /\ p \notin Repls
  BY Zenon, CommandAssumption DEF LoadStops, Inv, TypeOK, PrintInv
<1>2. /\ pc' \in [Procs -> Owning \cup Blank] /\ pc'[p] = "waiting"
      /\ \A q \in Procs : q # p => pc'[q] = pc[q]
  BY Zenon DEF LoadStops, Goes, Inv, TypeOK, Owning, Blank
<1>3. /\ load' \in [Loaders -> Load] /\ \A q \in Loaders : q # p => load'[q] = load[q]
      /\ load'[p].printed = load[p].printed /\ load'[p].acked = load[p].acked
      /\ load'[p].worker = load[p].worker /\ load'[p].failed = load[p].failed
  <2>1. load \in [Loaders -> Load]  BY Zenon DEF Inv, TypeOK
  <2>2. CASE load' = [load EXCEPT ![p].cancelled = TRUE]  BY ZenonT(30), <1>1, <2>1, <2>2 DEF Load
  <2>3. CASE load' = [load EXCEPT ![p].cancelled = TRUE, ![p].failures = <<>>]  BY ZenonT(30), <1>1, <2>1, <2>3 DEF Load
  <2> QED  BY Zenon, <2>2, <2>3 DEF LoadStops
<1>4. /\ err' \in [Procs -> SUBSET Errors] /\ \A q \in Procs : q # p => err'[q] = err[q]
      /\ done[p] \/ err'[p] # {}
  <2>1. CASE done[p] /\ UNCHANGED err  BY Zenon, <2>1 DEF Inv, TypeOK, Errors
  <2>2. CASE load[p].failures # <<>> /\ Joins(p, {Head(load[p].failures)})
    <3>1. load[p].failures = <<"failure">>  BY Zenon, <1>1, <2>2 DEF Load
    <3>2. Head(load[p].failures) = "failure"  BY <3>1
    <3> QED  BY Zenon, <2>2, <3>2 DEF Joins, Inv, TypeOK, Errors
  <2> QED  BY Zenon, <2>1, <2>2 DEF LoadStops
<1>5. TypeOK'  BY ZenonT(30), <1>1, <1>2, <1>3, <1>4 DEF Inv, TypeOK, Owning, Blank, Errors
<1>6. OwnerInv'
  <2>1. \A q \in Procs : (lock' = q) <=> (pc'[q] \in Owning)  BY Zenon, <1>1, <1>2 DEF Inv, OwnerInv, Owning
  <2>2. \A q \in Loaders : pc'[q] \in {"closing", "unlocking"} =>
          \A w \in Workers : load'[q].worker[w].at = "finished"
    BY <1>1, <1>2, <1>3 DEF Inv, OwnerInv
  <2> QED  BY Zenon, <2>1, <2>2 DEF OwnerInv
<1>7. PrintInv'
  <2>1. PrintOK(load'[p])  BY Zenon, <1>1, <1>3, PrintKept
  <2> QED  BY Zenon, <1>3, <2>1 DEF Inv, PrintInv
<1>8. ReportInv'  BY ZenonT(30), <1>1, <1>2, <1>3, <1>4 DEF Inv, ReportInv, LatchOK, LoadOK, Blank
<1>9. LineInv'
  <2>1. ASSUME NEW q \in Repls  PROVE LineOK(q)'
    <3>1. pc'[q] = pc[q] /\ repl'[q] = repl[q] /\ done'[q] = done[q] /\ err'[q] = err[q]
      BY Zenon, <1>1, <1>2, <1>4, <2>1 DEF Inv, TypeOK, Procs
    <3>2. LineInv  BY Zenon DEF Inv
    <3> QED  BY Zenon, <3>1, <3>2, LineKept
  <2> QED  BY Zenon, <2>1 DEF LineInv
<1> QED  BY Zenon, <1>5, <1>6, <1>7, <1>8, <1>9 DEF Inv

(* What a step of serveREPL owes its lines when it leaves them as r and    *)
(* main at the point at: every line read is executed or in hand, and a     *)
(* loop that ends has a reason.                                            *)
LinesServed(p, r, at, errors) ==
  /\ r.scanResult # <<>> => r.scanner = "ended"
  /\ r.executed <= r.read
  /\ at # "closing" => /\ r.executed + Behind(r, at) <= r.read
                       /\ done[p] \/ r.executed + Behind(r, at) = r.read
  /\ at = "closing" =>
       done[p] \/ r.quit \/ errors # {} \/ (r.scanner = "ended" /\ r.executed = r.read)

(* A step of serveREPL: main and the lines move, the store may latch.      *)
LEMMA ServeFrame ==
  ASSUME Inv, NEW p \in Repls, pc[p] \in {"running", "executing"},
         NEW at \in {"running", "executing", "closing"}, Goes(p, at),
         NEW r \in Repl, repl' = [repl EXCEPT ![p] = r],
         NEW errors \in SUBSET Errors, Joins(p, errors), UNCHANGED <<lock, done, load>>,
         latched' = latched \/ latched' = [latched EXCEPT ![p] = TRUE],
         LinesServed(p, r, at, errors)
  PROVE  Inv'
<1> USE DEF Procs
<1>0. p \notin Loaders  BY Zenon, CommandAssumption
<1>1. /\ pc' \in [Procs -> Owning \cup Blank] /\ pc'[p] = at
      /\ \A q \in Procs : q # p => pc'[q] = pc[q]
  BY Zenon DEF Goes, Inv, TypeOK, Owning, Blank
<1>2. /\ err' \in [Procs -> SUBSET Errors] /\ err'[p] = err[p] \cup errors
      /\ \A q \in Procs : q # p => err'[q] = err[q]
  BY Zenon DEF Joins, Inv, TypeOK, Errors
<1>3. repl' \in [Repls -> Repl] /\ repl'[p] = r /\ \A q \in Repls : q # p => repl'[q] = repl[q]
  BY Zenon DEF Inv, TypeOK
<1>4. latched' \in [Procs -> BOOLEAN] /\ \A q \in Procs : q # p => latched'[q] = latched[q]
  BY Zenon DEF Inv, TypeOK
<1>5. TypeOK'  BY ZenonT(30), <1>1, <1>2, <1>3, <1>4 DEF Inv, TypeOK, Owning, Blank, Errors
<1>6. OwnerInv'  BY ZenonT(30), <1>0, <1>1 DEF Inv, OwnerInv, Owning
<1>7. PrintInv'  BY Zenon DEF Inv, PrintInv
<1>8. ReportInv'
  <2>0. ReportInv  BY Zenon DEF Inv
  <2>1. ASSUME NEW q \in Procs  PROVE LatchOK(q)'
    <3>1. CASE q = p  BY Zenon, <1>1, <3>1 DEF LatchOK, Blank
    <3>2. CASE q # p  BY ZenonT(30), <1>1, <1>2, <1>4, <2>0, <3>2 DEF ReportInv, LatchOK
    <3> QED  BY Zenon, <3>1, <3>2
  <2>2. ASSUME NEW q \in Loaders  PROVE LoadOK(q)'  BY Zenon, <1>0, <1>1, <1>2, <2>0 DEF ReportInv, LoadOK
  <2> QED  BY Zenon, <2>1, <2>2 DEF ReportInv
<1>9. LineInv'
  <2>1. ASSUME NEW q \in Repls, q # p  PROVE LineOK(q)'
    <3>1. pc'[q] = pc[q] /\ repl'[q] = repl[q] /\ done'[q] = done[q] /\ err'[q] = err[q]
      BY Zenon, <1>1, <1>2, <1>3, <2>1 DEF Inv, TypeOK, Procs
    <3>2. LineInv  BY Zenon DEF Inv
    <3> QED  BY Zenon, <3>1, <3>2, LineKept
  <2>2. LineOK(p)'
    BY Zenon, <1>1, <1>2, <1>3 DEF LinesServed, LineOK, Repl, Blank
  <2> QED  BY Zenon, <2>1, <2>2 DEF LineInv
<1> QED  BY Zenon, <1>5, <1>6, <1>7, <1>8, <1>9 DEF Inv

(* serveREPL takes a line, executes it, or returns.                        *)
LEMMA ServeStep ==
  ASSUME Inv, NEW p \in Repls, TakeLine(p) \/ executeREPL(p) \/ ServeEnds(p)
  PROVE  Inv'
<1> DEFINE r == repl[p]
<1>1. /\ p \in Procs /\ r \in Repl /\ repl \in [Repls -> Repl]
      /\ err \in [Procs -> SUBSET Errors] /\ latched \in [Procs -> BOOLEAN]
  BY Zenon DEF Procs, Inv, TypeOK, Errors
<1>2. {} \in SUBSET Errors /\ (UNCHANGED err => Joins(p, {}))  BY Zenon, <1>1 DEF Joins
<1>3. /\ r.scanResult # <<>> => r.scanner = "ended"
      /\ pc[p] \in {"running", "executing"} =>
           /\ r.executed + Behind(r, pc[p]) <= r.read
           /\ done[p] \/ r.executed + Behind(r, pc[p]) = r.read
  BY Zenon DEF Inv, LineInv, LineOK
<1>4. CASE TakeLine(p)
  <2> DEFINE n == [r EXCEPT !.scanner = "scan"]
  <2>1. pc[p] = "running" /\ r.scanner = "offer" /\ Behind(r, pc[p]) = 1  BY <1>4 DEF TakeLine, Scanning, Behind
  <2>2. /\ n \in Repl /\ n.scanner = "scan" /\ n.scanResult = r.scanResult
        /\ n.executed = r.executed /\ n.read = r.read
    BY Zenon, <1>1 DEF Repl
  <2>3. repl' = [repl EXCEPT ![p] = n] /\ Goes(p, "executing") /\ UNCHANGED <<lock, done, latched, err, load>>
    BY Zenon, <1>1, <1>4 DEF TakeLine
  <2>4. n.scanResult = <<>>  BY Zenon, <1>3, <2>1, <2>2
  <2>5. /\ n.executed + Behind(n, "executing") <= n.read
        /\ done[p] \/ n.executed + Behind(n, "executing") = n.read
    BY <1>3, <2>1, <2>2 DEF Behind
  <2>6. n.executed <= n.read  BY <1>1, <1>3, <2>1, <2>2, CommandAssumption DEF Repl
  <2> HIDE DEF n, r
  <2> QED  BY Zenon, <1>2, <2>1, <2>2, <2>3, <2>4, <2>5, <2>6, ServeFrame DEF LinesServed
<1>5. CASE executeREPL(p)
  <2> DEFINE quits == [r EXCEPT !.executed = @ + 1, !.quit = TRUE]
             n == [r EXCEPT !.executed = @ + 1]
  <2>1. pc[p] = "executing" /\ UNCHANGED <<lock, done, load>>  BY Zenon, <1>5 DEF executeREPL
  <2>2. r.executed + 1 <= r.read /\ r.executed + 1 \in 0..MaxLines
    <3>1. r.executed \in 0..MaxLines /\ r.read \in 0..MaxLines /\ MaxLines \in Nat
      BY Zenon, <1>1, CommandAssumption DEF Repl
    <3>2. r.executed + Behind(r, "executing") <= r.read  BY Zenon, <1>3, <2>1
    <3>3. Behind(r, "executing") \in 1..2  BY DEF Behind
    <3> HIDE DEF r
    <3> QED  BY <3>1, <3>2, <3>3
  <2>3. CASE repl' = [repl EXCEPT ![p].executed = @ + 1, ![p].quit = TRUE] /\ Goes(p, "closing") /\ UNCHANGED <<latched, err>>
    <3>1. /\ quits \in Repl /\ quits.quit /\ quits.scanner = r.scanner /\ quits.scanResult = r.scanResult
          /\ quits.executed <= quits.read
      BY Zenon, <1>1, <2>2 DEF Repl
    <3>2. repl' = [repl EXCEPT ![p] = quits]  BY Zenon, <1>1, <2>3
    <3> HIDE DEF quits, r
    <3> QED  BY Zenon, <1>2, <1>3, <2>1, <2>3, <3>1, <3>2, ServeFrame DEF LinesServed
  <2>4. CASE /\ repl' = [repl EXCEPT ![p].executed = @ + 1]
             /\ \E fails \in Outcomes("store", "store") : latched' = [latched EXCEPT ![p] = @ \/ fails # {}]
             /\ \E report \in Outcomes("diagnostics", "report") :
                  Joins(p, report) /\ Goes(p, IF report = {} THEN "running" ELSE "closing")
    <3>1. /\ n \in Repl /\ n.scanner = r.scanner /\ n.scanResult = r.scanResult
          /\ n.executed = r.executed + 1 /\ n.read = r.read /\ n.executed <= n.read
      BY Zenon, <1>1, <2>2 DEF Repl
    <3>2. repl' = [repl EXCEPT ![p] = n]  BY Zenon, <1>1, <2>4
    <3>3. latched' = latched \/ latched' = [latched EXCEPT ![p] = TRUE]
      <4>1. PICK fails \in Outcomes("store", "store") : latched' = [latched EXCEPT ![p] = @ \/ fails # {}]
        BY Zenon, <2>4
      <4>2. CASE latched[p] \/ fails # {}
        <5>1. (latched[p] \/ fails # {}) = TRUE  BY Zenon, <4>2
        <5> QED  BY Zenon, <4>1, <5>1
      <4>3. CASE ~(latched[p] \/ fails # {})
        <5>1. (latched[p] \/ fails # {}) = latched[p]  BY Zenon, <1>1, <4>3
        <5>2. [latched EXCEPT ![p] = latched[p]] = latched  BY Zenon, <1>1
        <5> QED  BY Zenon, <4>1, <5>1, <5>2
      <4> QED  BY Zenon, <4>2, <4>3
    <3>4. PICK report \in Outcomes("diagnostics", "report") :
            Joins(p, report) /\ Goes(p, IF report = {} THEN "running" ELSE "closing")
      BY Zenon, <2>4
    <3>5. report \in SUBSET Errors  BY Zenon, <3>4 DEF Outcomes, Errors
    <3>6. /\ n.executed + Behind(n, "running") <= n.read
          /\ done[p] \/ n.executed + Behind(n, "running") = n.read
      BY SMTT(30), <1>1, <1>3, <2>1, <3>1, CommandAssumption DEF Behind, Repl
    <3> HIDE DEF n, r
    <3>7. CASE report = {}
      <4>1. Goes(p, "running")  BY Zenon, <3>4, <3>7
      <4> QED  BY Zenon, <1>3, <2>1, <3>1, <3>2, <3>3, <3>4, <3>5, <3>6, <4>1, ServeFrame DEF LinesServed
    <3>8. CASE report # {}
      <4>1. Goes(p, "closing")  BY Zenon, <3>4, <3>8
      <4> QED  BY Zenon, <1>3, <2>1, <3>1, <3>2, <3>3, <3>4, <3>5, <3>8, <4>1, ServeFrame DEF LinesServed
    <3> QED  BY Zenon, <3>7, <3>8
  <2> QED  BY Zenon, <1>5, <2>3, <2>4 DEF executeREPL
<1>6. CASE ServeEnds(p)
  <2>1. pc[p] = "running" /\ Goes(p, "closing") /\ UNCHANGED <<lock, done, latched, load>>
    BY Zenon, <1>6 DEF ServeEnds
  <2>2. r.executed <= r.read  BY Zenon DEF Inv, LineInv, LineOK
  <2>3. CASE done[p] /\ UNCHANGED <<err, repl>>
    <3>1. repl' = [repl EXCEPT ![p] = r]  BY Zenon, <1>1, <2>3
    <3> HIDE DEF r
    <3> QED  BY Zenon, <1>1, <1>2, <1>3, <2>1, <2>2, <2>3, <3>1, ServeFrame DEF LinesServed
  <2>4. CASE /\ r.scanResult # <<>> /\ Joins(p, Head(r.scanResult))
             /\ repl' = [repl EXCEPT ![p].scanResult = <<>>]
    <3> DEFINE n == [r EXCEPT !.scanResult = <<>>]
               errors == Head(r.scanResult)
    <3>1. /\ n \in Repl /\ n.scanner = r.scanner /\ n.scanResult = <<>>
          /\ n.executed = r.executed /\ n.read = r.read
      BY Zenon, <1>1 DEF Repl
    <3>2. repl' = [repl EXCEPT ![p] = n]  BY Zenon, <1>1, <2>4
    <3>3. errors \in SUBSET Errors  BY <1>1, <2>4 DEF Repl, Errors
    <3>4. n.scanner = "ended" /\ (done[p] \/ n.executed = n.read)
      BY <1>1, <1>3, <2>1, <2>4, <3>1, CommandAssumption DEF Behind, Repl
    <3>5. Joins(p, errors)  BY Zenon, <2>4
    <3> HIDE DEF n, r, errors
    <3> QED  BY Zenon, <2>1, <2>2, <3>1, <3>2, <3>3, <3>4, <3>5, ServeFrame DEF LinesServed
  <2> QED  BY Zenon, <1>6, <2>3, <2>4 DEF ServeEnds
<1> QED  BY Zenon, <1>4, <1>5, <1>6

(* A store that latches is one that Close has still to report on.          *)
LEMMA FlushStep ==
  ASSUME Inv, NEW p \in Procs, FlushFails(p)
  PROVE  Inv'
<1>1. /\ latched' \in [Procs -> BOOLEAN] /\ \A q \in Procs : q # p => latched'[q] = latched[q]
      /\ pc[p] \in {"running", "executing", "waiting"} /\ UNCHANGED <<lock, pc, done, err, load, repl>>
  BY Zenon DEF FlushFails, Inv, TypeOK
<1>2. TypeOK'  BY Zenon, <1>1 DEF Inv, TypeOK
<1>3. OwnerInv' /\ PrintInv'  BY Zenon, <1>1 DEF Inv, OwnerInv, PrintInv
<1>4. ReportInv'
  <2>1. \A q \in Procs : LatchOK(q)'  BY Zenon, <1>1 DEF Inv, ReportInv, LatchOK, LoadOK, Blank
  <2>2. \A q \in Loaders : LoadOK(q)'  BY Zenon, <1>1 DEF Inv, ReportInv, LatchOK, LoadOK
  <2> QED  BY Zenon, <2>1, <2>2 DEF ReportInv
<1>5. LineInv'  BY ZenonT(30), <1>1 DEF Inv, LineInv, LineOK, Behind
<1> QED  BY Zenon, <1>2, <1>3, <1>4, <1>5 DEF Inv

(* A signal only weakens what a process must do.                           *)
LEMMA SignalStep ==
  ASSUME Inv, NEW p \in Procs, Signal(p)
  PROVE  Inv'
<1>1. /\ done' \in [Procs -> BOOLEAN] /\ \A q \in Procs : done'[q] = done[q] \/ done'[q]
      /\ UNCHANGED <<lock, pc, latched, err, load, repl>>
  BY Zenon DEF Signal, Inv, TypeOK
<1>2. TypeOK'  BY Zenon, <1>1 DEF Inv, TypeOK
<1>3. OwnerInv' /\ PrintInv'  BY Zenon, <1>1 DEF Inv, OwnerInv, PrintInv
<1>4. ReportInv'  BY Zenon, <1>1 DEF Inv, ReportInv, LatchOK, LoadOK, Procs
<1>5. LineInv'  BY ZenonT(30), <1>1 DEF Inv, LineInv, LineOK, Behind, Procs
<1> QED  BY Zenon, <1>2, <1>3, <1>4, <1>5 DEF Inv

(* A command that is run again starts with the memory of a new one.        *)
LEMMA RestartStep ==
  ASSUME Inv, NEW p \in Procs, Restart(p)
  PROVE  Inv'
<1>1. /\ pc[p] \in {"exited", "killed"} /\ pc' \in [Procs -> Owning \cup Blank] /\ pc'[p] = "start"
      /\ \A q \in Procs : q # p => pc'[q] = pc[q]
  BY Zenon DEF Restart, Ended, Goes, Inv, TypeOK, Owning, Blank
<1>2. /\ err' \in [Procs -> SUBSET Errors] /\ \A q \in Procs : q # p => err'[q] = err[q]
      /\ UNCHANGED <<lock, done, latched, repl>>
  BY Zenon DEF Restart, Inv, TypeOK, Errors
<1>3. /\ load' \in [Loaders -> Load]
      /\ \A q \in Loaders : q # p => load'[q] = load[q]
      /\ p \in Loaders => \E big \in BOOLEAN : load'[p] = NewLoad(big)
  BY ZenonT(30), NewMemory DEF Restart, Inv, TypeOK
<1>4. TypeOK'
  <2>1. pc' \in [Procs -> {"start", "opening", "running", "executing", "waiting", "closing",
                          "unlocking", "exited", "killed"}]
    BY Zenon, <1>1 DEF Owning, Blank
  <2> QED  BY Zenon, <1>2, <1>3, <2>1 DEF Inv, TypeOK, Errors
<1>5. OwnerInv'  BY <1>1, <1>2, <1>3 DEF Inv, OwnerInv, Owning, Procs
<1>6. PrintInv'  BY Zenon, <1>3, NewMemory DEF Inv, PrintInv
<1>7. ReportInv'
  <2>1. \A q \in Procs : LatchOK(q)'  BY Zenon, <1>1, <1>2 DEF Inv, ReportInv, LatchOK, LoadOK, Blank
  <2>2. \A q \in Loaders : LoadOK(q)'
    BY ZenonT(30), <1>1, <1>2, <1>3, NewMemory DEF Inv, ReportInv, LatchOK, LoadOK, Blank, Procs
  <2> QED  BY Zenon, <2>1, <2>2 DEF ReportInv
<1>8. LineInv'
  <2>1. ASSUME NEW q \in Repls, q # p  PROVE LineOK(q)'
    <3>1. pc'[q] = pc[q] /\ repl'[q] = repl[q] /\ done'[q] = done[q] /\ err'[q] = err[q]
      BY Zenon, <1>1, <1>2, <2>1 DEF Inv, TypeOK, Procs
    <3>2. LineInv  BY Zenon DEF Inv
    <3> QED  BY Zenon, <3>1, <3>2, LineKept
  <2>2. ASSUME p \in Repls  PROVE LineOK(p)'
    <3>1. repl'[p] = NewRepl  BY Zenon, <1>1, <1>2, <2>2 DEF Inv, LineInv, LineOK, Blank
    <3> QED  BY <1>1, <3>1 DEF LineOK, NewRepl
  <2> QED  BY Zenon, <2>1, <2>2 DEF LineInv
<1> QED  BY Zenon, <1>4, <1>5, <1>6, <1>7, <1>8 DEF Inv

-----------------------------------------------------------------------------
(* The theorems.                                                           *)

(* The invariant holds in the first state.                                 *)
LEMMA InitInv == Init => Inv
<1> SUFFICES ASSUME Init PROVE Inv  OBVIOUS
<1>1. load \in [Loaders -> Load] /\ \A p \in Loaders : \E big \in BOOLEAN : load[p] = NewLoad(big)
  <2>1. \A p \in Loaders : \E big \in BOOLEAN : load[p] = NewLoad(big)  BY Zenon DEF Init
  <2> QED  BY Zenon, <2>1, NewMemory DEF Init
<1>2. TypeOK  BY Zenon, <1>1, NewMemory DEF Init, TypeOK
<1>3. OwnerInv  BY Zenon, CommandAssumption DEF Init, OwnerInv, Owning, Procs
<1>4. PrintInv  BY Zenon, <1>1, NewMemory DEF PrintInv
<1>5. ReportInv  BY Zenon, <1>1, NewMemory DEF Init, ReportInv, LatchOK, LoadOK, Procs
<1>6. LineInv
  <2>1. ASSUME NEW p \in Repls  PROVE LineOK(p)
    <3>1. pc[p] = "start" /\ repl[p] = NewRepl  BY Zenon, <2>1 DEF Init, Procs
    <3> QED  BY <3>1 DEF LineOK, NewRepl
  <2> QED  BY Zenon, <2>1 DEF LineInv
<1> QED  BY Zenon, <1>2, <1>3, <1>4, <1>5, <1>6 DEF Inv

(* Every step preserves the invariant.                                     *)
LEMMA NextInv == Inv /\ [Next]_vars => Inv'
<1> SUFFICES ASSUME Inv, [Next]_vars PROVE Inv'  OBVIOUS
<1>1. ASSUME NEW p \in Procs, Main(p)  PROVE Inv'
  <2>1. TakeLine(p) \/ executeREPL(p) \/ ServeEnds(p) => p \in Repls
    BY Zenon DEF TakeLine, Scanning, executeREPL, ServeEnds
  <2> QED  BY Zenon, <1>1, <2>1, ExitStep, StoreStep, LoadStopsStep, ServeStep DEF Main
<1>2. ASSUME NEW p \in Procs, Restart(p) \/ FlushFails(p) \/ Signal(p) \/ Kill(p)  PROVE Inv'
  BY Zenon, <1>2, RestartStep, FlushStep, SignalStep, ExitStep
<1>3. CASE UNCHANGED vars
  <2> USE <1>3 DEF vars, Inv
  <2>1. TypeOK' /\ OwnerInv'  BY Zenon DEF TypeOK, OwnerInv
  <2>2. PrintInv' /\ ReportInv'  BY Zenon DEF PrintInv, ReportInv, LatchOK, LoadOK
  <2>3. LineInv'  BY ZenonT(30) DEF LineInv, LineOK, Behind
  <2> QED  BY Zenon, <2>1, <2>2, <2>3
<1> QED  BY Zenon, <1>1, <1>2, <1>3, WorkerStep, ScannerStep DEF Next

(* The invariant holds throughout.                                         *)
THEOREM CommandInvariant == Spec => []Inv
BY InitInv, NextInv, PTL DEF Spec

(* Every process is at a point of its run that the code has, with errors,  *)
(* memory and lines of their types.                                        *)
THEOREM CommandTypes == Spec => []TypeOK
<1>1. Inv => TypeOK  BY Zenon DEF Inv
<1> QED  BY <1>1, CommandInvariant, PTL

(* Two processes never have one directory's store open: recovery, writes   *)
(* and Close all happen under the directory lock, and no worker outlives   *)
(* its load's Close.                                                       *)
THEOREM DirectoryOwned == Spec => []OwnerOnly
<1>1. Inv => OwnerOnly
  BY Zenon DEF Inv, OwnerInv, OwnerOnly, Ended, Owning
<1> QED  BY <1>1, CommandInvariant, PTL

(* Every exit of the command reports what failed.                          *)
THEOREM ExitsReport == Spec => FailureReported
<1>1. Inv /\ [Next]_vars => [\A p \in Procs : ExitReports(p)]_vars
  <2> SUFFICES ASSUME Inv, Next, NEW p \in Procs, ~Ended(p), pc'[p] = "exited", err'[p] = {}
               PROVE  ~latched[p] /\ (p \in Loaders => done[p] \/ load[p].failed = {})
    BY Zenon DEF ExitReports
  <2>1. pc \in [Procs -> Owning \cup Blank]  BY Zenon DEF Inv, TypeOK, Owning, Blank
  <2>2. pc[p] \in {"start", "opening"} \/ (pc[p] = "unlocking" /\ err[p] \subseteq err'[p])
    <3> USE <2>1 DEF Ended, Goes
    <3>1. pc'[p] # pc[p]  BY Zenon DEF Ended
    <3>2. ASSUME NEW q \in Procs, Main(q)  PROVE <2>2
      <4>1. CASE q = p
        <5>1. CASE releaseDirectoryLock(p)
          <6>1. err \in [Procs -> SUBSET Errors]  BY Zenon DEF Inv, TypeOK, Errors
          <6> QED  BY Zenon, <5>1, <6>1 DEF releaseDirectoryLock, Joins
        <5>2. CASE executeREPL(p)  BY Zenon, <5>2 DEF executeREPL
        <5> QED
          BY Zenon, <3>2, <4>1, <5>1, <5>2 DEF Main, BadArguments, acquireDirectoryLock, LockHeld, Opened, LoadStops,
             LoadReports, TakeLine, ServeEnds, CloseStore
      <4>2. CASE q # p
        BY Zenon, <3>1, <3>2, <4>2 DEF Main, BadArguments, acquireDirectoryLock, LockHeld, Opened, LoadStops,
           LoadReports, TakeLine, executeREPL, ServeEnds, CloseStore, releaseDirectoryLock
      <4> QED  BY Zenon, <4>1, <4>2
    <3>3. ASSUME NEW q \in Procs, Restart(q) \/ FlushFails(q) \/ Signal(q) \/ Kill(q)  PROVE <2>2
      BY Zenon, <3>1, <3>3 DEF Restart, FlushFails, Signal, Kill
    <3>4. ASSUME NEW q \in Loaders, NEW w \in Workers, Worker(q, w)  PROVE <2>2
      BY Zenon, <3>1, <3>4 DEF Worker, WorkerDraws, WorkerEnds, WorkerSets, WorkerPrints, reportLoadFailure, Loading
    <3>5. ASSUME NEW q \in Repls, ScanLine(q) \/ ScanEnds(q) \/ ScanCancelled(q)  PROVE <2>2
      BY Zenon, <3>1, <3>5 DEF ScanLine, ScanEnds, ScanCancelled
    <3> QED  BY Zenon, <3>2, <3>3, <3>4, <3>5 DEF Next
  <2> QED  BY Zenon, <2>2 DEF Inv, ReportInv, LatchOK, LoadOK, Blank
<1> QED  BY <1>1, CommandInvariant, PTL DEF Spec, FailureReported

INSTANCE FiniteSetTheorems

(* What a load printed was acknowledged, and each of its workers has at    *)
(* most one acknowledged key that is not printed.                          *)
THEOREM PrintsAcked == Spec => []PrintedIsAcked
<1>1. ASSUME Inv, NEW p \in Loaders
      PROVE  /\ load[p].printed \subseteq load[p].acked
             /\ Cardinality(load[p].acked \ load[p].printed) <= Cardinality(Workers)
             /\ pc[p] = "unlocking" /\ "output" \notin load[p].failed => load[p].acked \ load[p].printed = {}
  <2> DEFINE l == load[p]
             unprinted == l.acked \ l.printed
             f == [w \in Workers |-> l.worker[w].key]
             keys == {f[w] : w \in Workers}
  <2>1. PrintOK(l)  BY Zenon, <1>1 DEF Inv, PrintInv
  <2>2. unprinted \subseteq keys  BY ZenonT(30), <2>1 DEF PrintOK, Keeps
  <2>3. f \in Surjection(Workers, keys)  BY Zenon DEF Surjection
  <2>4. IsFiniteSet(keys) /\ Cardinality(keys) <= Cardinality(Workers) /\ Cardinality(keys) \in Nat
    <3> HIDE DEF keys, f
    <3> QED  BY Zenon, <2>3, FS_Surjection, FS_CardinalityType, CommandAssumption
  <2>5. Cardinality(unprinted) <= Cardinality(keys) /\ Cardinality(unprinted) \in Nat
    <3> HIDE DEF keys, unprinted
    <3> QED  BY Zenon, <2>2, <2>4, FS_Subset, FS_CardinalityType
  <2>6. Cardinality(unprinted) <= Cardinality(Workers)
    <3>1. Cardinality(Workers) \in Nat  BY Zenon, FS_CardinalityType, CommandAssumption
    <3> HIDE DEF keys, unprinted
    <3> QED  BY <2>4, <2>5, <3>1
  <2>7. pc[p] = "unlocking" /\ "output" \notin l.failed => unprinted = {}
    BY Zenon, <1>1, <2>1 DEF Inv, OwnerInv, PrintOK, Keeps
  <2> QED  BY Zenon, <2>1, <2>6, <2>7 DEF PrintOK
<1>2. Inv => PrintedIsAcked  BY Zenon, <1>1 DEF PrintedIsAcked
<1> QED  BY <1>2, CommandInvariant, PTL

(* A repl executes its whole input unless a signal, a quit or an error     *)
(* ends it.                                                                *)
THEOREM LinesExecuted == Spec => []EveryLineExecuted
<1>1. Inv => EveryLineExecuted  BY Zenon DEF Inv, LineInv, LineOK, EveryLineExecuted
<1> QED  BY <1>1, CommandInvariant, PTL
=============================================================================
