----------------------------- MODULE DurableMap -----------------------------
(***************************************************************************)
(* What a store promises as long as the power stays on: a map that         *)
(* survives the process, and a view of it for reads that may have lost     *)
(* entries to eviction but never holds an older one.  It knows no          *)
(* segments, no snapshots and no shards; DurableStore implements it.       *)
(***************************************************************************)
EXTENDS Naturals, Sequences

CONSTANTS Keys, MaxTime, MaxSequence

Entry == [seq : 0..MaxSequence, deadline : 0..MaxTime]
NoEntry == [seq |-> 0, deadline |-> 0]

VARIABLES
  durable,   \* what Open would find now
  through,   \* the sequence of the last record in it
  up,        \* a process has the store open
  failed,    \* that store has latched an error
  visible,   \* what its readers find
  applied,   \* the sequence of the last record in that
  pending,   \* records in durable and not yet in visible, as [key, entry]
  now

vars == <<up, failed, applied, now, pending, visible, through, durable>>

Live(e, t) == IF e.deadline # 0 /\ t >= e.deadline THEN NoEntry ELSE e
Nothing == [k \in Keys |-> NoEntry]

(* The records that may follow: a write numbered by its place, or a        *)
(* deletion.                                                               *)
Records(n) ==
  {r \in [1..n -> [key : Keys, entry : Entry]] :
     \A i \in 1..n : r[i].entry = NoEntry \/ r[i].entry.seq = through + i}

(* The map after records r: the last one of a key decides.                 *)
After(map, r) ==
  [k \in Keys |->
     LET writes == {i \in DOMAIN r : r[i].key = k}
     IN  IF writes = {} THEN map[k]
         ELSE Live(r[CHOOSE i \in writes : \A j \in writes : j <= i].entry, now)]

Grows(r) == through' = through + Len(r) /\ durable' = After(durable, r)

Init ==
  /\ durable = Nothing /\ through = 0
  /\ up = FALSE /\ failed = FALSE
  /\ visible = Nothing /\ applied = 0 /\ pending = <<>>
  /\ now = 0

(* Open: readers find nothing but what is durable, all of it unless the    *)
(* capacity is short.                                                      *)
Start ==
  /\ ~up /\ up'
  /\ UNCHANGED <<failed, pending, now, through, durable>>
  /\ applied' = through
  /\ DOMAIN visible' = Keys /\ \A k \in Keys : visible'[k] \in {NoEntry, durable[k]}

(* Writes become durable, all of them before the first is answered.        *)
Write ==
  /\ up /\ ~failed /\ pending = <<>> /\ pending' # <<>>
  /\ UNCHANGED <<up, failed, applied, now, visible>>
  /\ pending' \in Records(Len(pending')) /\ Grows(pending')

(* One is answered, in order, and readers find it; that may cost others    *)
(* their place.                                                            *)
Apply ==
  /\ up /\ pending # <<>>
  /\ pending' = Tail(pending) /\ applied' = applied + 1
  /\ UNCHANGED <<up, failed, now, through, durable>>
  /\ LET k == Head(pending).key
     IN  /\ visible'[k] = Live(Head(pending).entry, now)
         /\ \A j \in Keys \ {k} : visible'[j] \in {visible[j], NoEntry}
         /\ DOMAIN visible' = Keys

(* The store fails for good; a write that failed may be durable in part.   *)
Fail ==
  /\ up /\ ~failed /\ failed'
  /\ UNCHANGED <<up, applied, now, pending, visible>>
  /\ \E r \in Records(through' - through) : Grows(r)

(* The process ends; the write it was in may be durable in part.           *)
Stop ==
  /\ up /\ ~up' /\ ~failed'
  /\ visible' = Nothing /\ applied' = 0 /\ pending' = <<>>
  /\ UNCHANGED now
  /\ IF failed \/ pending # <<>>
       THEN UNCHANGED <<through, durable>>
       ELSE \E r \in Records(through' - through) : Grows(r)

(* Time passes, and entries with it.                                       *)
Pass ==
  /\ now' > now
  /\ UNCHANGED <<up, failed, applied, pending, through>>
  /\ durable' = [k \in Keys |-> Live(durable[k], now')]
  /\ visible' = [k \in Keys |-> Live(visible[k], now')]

Next == Start \/ Write \/ Apply \/ Fail \/ Stop \/ Pass

Spec == Init /\ [][Next]_vars
=============================================================================
