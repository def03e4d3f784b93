------------------------------ MODULE ShardLru ------------------------------
(***************************************************************************)
(* One shard of the memory: the map, the doubly linked recency list and    *)
(* the charged bytes, under recovery, reads, writes applied by the writer  *)
(* goroutine some time after they were accepted, and the sweep.            *)
(*                                                                         *)
(* An entry is named by its key; the pointers previous, next, recent and   *)
(* oldest are keys or Nil.  The value is its charged size (entrySize).     *)
(* phase says who holds shard.mu and where; a critical section that loops  *)
(* is one step per entry, because Len and Bytes look at it without the     *)
(* lock.                                                                   *)
(***************************************************************************)
EXTENDS Integers, Sequences, FiniteSets, Functions

CONSTANTS
  Keys,           \* the keys that hash to this shard
  Nil,            \* the nil pointer
  Sizes,          \* charged sizes of the entries callers and the log hold
  Capacity,       \* shard.capacity
  TTLs,           \* arguments of SetTTL
  MaxInt,         \* the largest int64
  MaxTime,        \* bound on the clock
  QueueBound,     \* bound on writes accepted and not yet applied
  SampleSize,     \* sweepSampleSize
  RepeatDivisor   \* sweepRepeatDivisor

ASSUME ShardAssumption ==
  /\ IsFiniteSet(Keys) /\ Nil \notin Keys
  /\ Sizes \subseteq Nat \ {0}
  /\ Capacity \in Nat
  /\ MaxInt \in Nat /\ MaxTime \in 0..MaxInt /\ TTLs \subseteq 1..MaxInt
  /\ QueueBound \in Nat /\ SampleSize \in Nat /\ RepeatDivisor \in Nat

VARIABLES
  entries,    \* shard.entries: key -> [size, deadline, previous, next]
  recent,     \* shard.recent
  oldest,     \* shard.oldest
  bytes,      \* shard.bytes
  phase,      \* what the critical section of the shard is doing
  stamp,      \* the time that critical section works with
  sweep,      \* where runSweep is when it does not hold the lock
  sweepNow,   \* the time sweepShard read before it waited for the lock
  sampled,    \* entries the sweep has looked at under the lock
  reclaimed,  \* how many of them it removed
  requests,   \* writes accepted and not yet applied, in log order
  now,        \* the clock
  counted     \* the counters of store.stats that the last step advanced

list == <<entries, recent, oldest, bytes>>
sweeper == <<sweep, sweepNow, sampled, reclaimed>>
vars == <<list, phase, stamp, sweeper, requests, now, counted>>

Time == 0..MaxTime
Deadlines == (-(MaxInt + 1))..MaxInt
Pointers == Keys \cup {Nil}
Entry == [size : Sizes, deadline : Deadlines, previous : Pointers, next : Pointers]
Request == [op : {"set", "delete"}, key : Keys, size : Sizes \cup {0}, deadline : Deadlines]

Opening == {"replay", "reclaim", "shrink"}

deadlinePassed(deadline, time) == deadline # 0 /\ time >= deadline

(* int64 arithmetic of time.Now().Add(ttl).UnixNano().                     *)
Wrap(n) == ((n + MaxInt + 1) % (2 * (MaxInt + 1))) - (MaxInt + 1)

-----------------------------------------------------------------------------
(* The list.  shard is the record of the four fields that these functions  *)
(* change together.                                                        *)

Shard == [entries |-> entries, recent |-> recent, oldest |-> oldest, bytes |-> bytes]
Becomes(shard) ==
  /\ entries' = shard.entries /\ recent' = shard.recent
  /\ oldest' = shard.oldest /\ bytes' = shard.bytes

(* The neighbours of k in the list point past it.                          *)
Unlinked(shard, k) ==
  LET e == shard.entries[k]
  IN  [j \in DOMAIN shard.entries |->
         [shard.entries[j] EXCEPT
            !.next = IF e.previous = j THEN e.next ELSE @,
            !.previous = IF e.next = j THEN e.previous ELSE @]]

removeEntryMutant(shard, k) ==
  LET e == shard.entries[k]
  IN  [entries |-> Restrict(Unlinked(shard, k), DOMAIN shard.entries \ {k}),
       recent |-> IF e.previous = Nil THEN e.next ELSE shard.recent,
       oldest |-> shard.oldest,
       bytes |-> shard.bytes - e.size]

removeEntry(shard, k) ==
  LET e == shard.entries[k]
  IN  [entries |-> Restrict(Unlinked(shard, k), DOMAIN shard.entries \ {k}),
       recent |-> IF e.previous = Nil THEN e.next ELSE shard.recent,
       oldest |-> IF e.next = Nil THEN e.previous ELSE shard.oldest,
       bytes |-> shard.bytes - e.size]

markRecent(shard, k) ==
  LET e == shard.entries[k]
      rest == Unlinked(shard, k)
      last == IF e.next = Nil /\ shard.oldest = k THEN e.previous ELSE shard.oldest
  IN  IF shard.recent = k THEN shard
      ELSE [shard EXCEPT
              !.entries = [j \in DOMAIN rest |->
                 CASE j = k -> [e EXCEPT !.previous = Nil, !.next = shard.recent]
                   [] j = shard.recent -> [rest[j] EXCEPT !.previous = k]
                   [] OTHER -> rest[j]],
              !.recent = k,
              !.oldest = IF shard.recent = Nil THEN k ELSE last]

setEntryUnchargedMutant(shard, k, size, deadline) ==
  LET old == IF k \in DOMAIN shard.entries THEN shard.entries[k]
             ELSE [size |-> 0, deadline |-> 0, previous |-> Nil, next |-> Nil]
      current == [old EXCEPT !.size = size, !.deadline = deadline]
  IN  markRecent([shard EXCEPT
                    !.entries = [j \in DOMAIN @ \cup {k} |-> IF j = k THEN current ELSE @[j]],
                    !.bytes = IF old.size = 0 THEN @ ELSE @ - old.size + size], k)

setEntryOverchargedMutant(shard, k, size, deadline) ==
  LET old == IF k \in DOMAIN shard.entries THEN shard.entries[k]
             ELSE [size |-> 0, deadline |-> 0, previous |-> Nil, next |-> Nil]
      current == [old EXCEPT !.size = size, !.deadline = deadline]
  IN  markRecent([shard EXCEPT
                    !.entries = [j \in DOMAIN @ \cup {k} |-> IF j = k THEN current ELSE @[j]],
                    !.bytes = @ + size], k)

setEntry(shard, k, size, deadline) ==
  LET old == IF k \in DOMAIN shard.entries THEN shard.entries[k]
             ELSE [size |-> 0, deadline |-> 0, previous |-> Nil, next |-> Nil]
      current == [old EXCEPT !.size = size, !.deadline = deadline]
  IN  markRecent([shard EXCEPT
                    !.entries = [j \in DOMAIN @ \cup {k} |-> IF j = k THEN current ELSE @[j]],
                    !.bytes = @ - old.size + size], k)

(* removeEntryLocked counts an expiry or an eviction; a delete counts      *)
(* nothing.                                                                *)
Remove(k, kinds) == Becomes(removeEntry(Shard, k)) /\ counted' = kinds

-----------------------------------------------------------------------------
(* Open: replay without regard to deadlines and capacity, then             *)
(* enforceRecoveredState.                                                  *)

Init ==
  /\ entries = <<>> /\ recent = Nil /\ oldest = Nil /\ bytes = 0
  /\ phase = "replay" /\ stamp = 0
  /\ sweep = "idle" /\ sweepNow = 0 /\ sampled = {} /\ reclaimed = 0
  /\ requests = <<>>
  /\ now \in Time
  /\ counted = {}

applyRecoveredSet(k, size, deadline) ==
  /\ phase = "replay"
  /\ Becomes(setEntry(Shard, k, size, deadline)) /\ counted' = {}
  /\ UNCHANGED <<phase, stamp, sweeper, requests, now>>

RecoverDelete(k) ==
  /\ phase = "replay" /\ k \in DOMAIN entries
  /\ Remove(k, {})
  /\ UNCHANGED <<phase, stamp, sweeper, requests, now>>

enforceRecoveredState ==
  /\ phase = "replay"
  /\ phase' = "reclaim" /\ stamp' = now /\ counted' = {}
  /\ UNCHANGED <<list, sweeper, requests, now>>

Reclaimable == {k \in DOMAIN entries : deadlinePassed(entries[k].deadline, stamp)}

reclaimExpired(k) ==
  /\ phase = "reclaim" /\ k \in Reclaimable
  /\ Remove(k, {"expiries"})
  /\ UNCHANGED <<phase, stamp, sweeper, requests, now>>

ReclaimEnds ==
  /\ phase = "reclaim" /\ Reclaimable = {}
  /\ phase' = "shrink" /\ counted' = {}
  /\ UNCHANGED <<list, stamp, sweeper, requests, now>>

(* evictToCapacityLocked, after recovery ("shrink") or a write ("evict").  *)
evictToCapacity ==
  /\ phase \in {"shrink", "evict"} /\ bytes > Capacity
  /\ Remove(oldest, IF deadlinePassed(entries[oldest].deadline, stamp) THEN {"expiries"} ELSE {"evictions"})
  /\ UNCHANGED <<phase, stamp, sweeper, requests, now>>

EvictionEnds ==
  /\ phase \in {"shrink", "evict"} /\ bytes <= Capacity
  /\ phase' = "free" /\ counted' = {}
  /\ UNCHANGED <<list, stamp, sweeper, requests, now>>

-----------------------------------------------------------------------------
(* Callers and the writer.  validateEntrySize has turned away what cannot  *)
(* fit; the deadline is fixed when the call is accepted and the write is   *)
(* applied later, in order.                                                *)

Accept(op, k, size, deadline) ==
  /\ phase \notin Opening /\ Len(requests) < QueueBound
  /\ requests' = Append(requests, [op |-> op, key |-> k, size |-> size, deadline |-> deadline])
  /\ counted' = {}
  /\ UNCHANGED <<list, phase, stamp, sweeper, now>>

SetTTLMutant(k, size, ttl) == Accept("set", k, size, Wrap(now + ttl))

Set(k, size) == size <= Capacity /\ Accept("set", k, size, 0)
SetTTL(k, size, ttl) == size <= Capacity /\ Accept("set", k, size, Wrap(now + ttl))
Delete(k) == Accept("delete", k, 0, 0)

applySet ==
  /\ phase = "free" /\ requests # <<>> /\ Head(requests).op = "set"
  /\ LET r == Head(requests)
     IN  Becomes(setEntry(Shard, r.key, r.size, r.deadline))
  /\ requests' = Tail(requests)
  /\ phase' = "applied" /\ counted' = {}
  /\ UNCHANGED <<stamp, sweeper, now>>

(* The rest of applySet, with the time read now: current is shard.recent.  *)
AppliedExpired ==
  /\ phase = "applied" /\ deadlinePassed(entries[recent].deadline, now)
  /\ Remove(recent, {"expiries"})
  /\ phase' = "free"
  /\ UNCHANGED <<stamp, sweeper, requests, now>>

AppliedLive ==
  /\ phase = "applied" /\ ~deadlinePassed(entries[recent].deadline, now)
  /\ phase' = IF bytes > Capacity THEN "evict" ELSE "free"
  /\ stamp' = now /\ counted' = {}
  /\ UNCHANGED <<list, sweeper, requests, now>>

applyDelete ==
  /\ phase = "free" /\ requests # <<>> /\ Head(requests).op = "delete"
  /\ IF Head(requests).key \in DOMAIN entries
     THEN Remove(Head(requests).key, {}) ELSE UNCHANGED list /\ counted' = {}
  /\ requests' = Tail(requests)
  /\ UNCHANGED <<phase, stamp, sweeper, now>>

getIntoMutant(k) ==
  /\ phase = "free"
  /\ \/ k \notin DOMAIN entries /\ counted' = {"misses"} /\ UNCHANGED list
     \/ /\ k \in DOMAIN entries /\ deadlinePassed(entries[k].deadline, now)
        /\ Remove(k, {"expiries", "misses"})
     \/ /\ k \in DOMAIN entries /\ ~deadlinePassed(entries[k].deadline, now)
        /\ UNCHANGED list /\ counted' = {"hits"}
  /\ UNCHANGED <<phase, stamp, sweeper, requests, now>>

(* Get and GetInto: absent, expired, or found and marked recent.           *)
getInto(k) ==
  /\ phase = "free"
  /\ \/ k \notin DOMAIN entries /\ counted' = {"misses"} /\ UNCHANGED list
     \/ /\ k \in DOMAIN entries /\ deadlinePassed(entries[k].deadline, now)
        /\ Remove(k, {"expiries", "misses"})
     \/ /\ k \in DOMAIN entries /\ ~deadlinePassed(entries[k].deadline, now)
        /\ Becomes(markRecent(Shard, k)) /\ counted' = {"hits"}
  /\ UNCHANGED <<phase, stamp, sweeper, requests, now>>

-----------------------------------------------------------------------------
(* The sweep: the time is read before the lock is taken; a pass ends when  *)
(* the sample is complete, the map exhausted or the time budget spent, and *)
(* another one follows while a good part of the sample was reclaimed.      *)

SweepBegins ==
  /\ sweep \in {"idle", "again"} /\ phase \notin Opening
  /\ sweep' = "waiting" /\ sweepNow' = now /\ counted' = {}
  /\ UNCHANGED <<list, phase, stamp, sampled, reclaimed, requests, now>>

SweepLocks ==
  /\ sweep = "waiting" /\ phase = "free"
  /\ phase' = "sweep" /\ counted' = {}
  /\ UNCHANGED <<list, stamp, sweeper, requests, now>>

SweepVisitsMutant(k) ==
  /\ phase = "sweep" /\ k \in DOMAIN entries \ sampled /\ Cardinality(sampled) < SampleSize
  /\ sampled' = sampled \cup {k}
  /\ IF deadlinePassed(entries[k].deadline, sweepNow - 1)
     THEN Remove(k, {"expiries"}) /\ reclaimed' = reclaimed + 1
     ELSE UNCHANGED <<list, reclaimed>> /\ counted' = {}
  /\ UNCHANGED <<phase, stamp, sweep, sweepNow, requests, now>>

SweepVisits(k) ==
  /\ phase = "sweep" /\ k \in DOMAIN entries \ sampled /\ Cardinality(sampled) < SampleSize
  /\ sampled' = sampled \cup {k}
  /\ IF deadlinePassed(entries[k].deadline, sweepNow)
     THEN Remove(k, {"expiries"}) /\ reclaimed' = reclaimed + 1
     ELSE UNCHANGED <<list, reclaimed>> /\ counted' = {}
  /\ UNCHANGED <<phase, stamp, sweep, sweepNow, requests, now>>

SweepUnlocks ==
  /\ phase = "sweep"
  /\ phase' = "free" /\ counted' = {}
  /\ \/ sweep' = "idle"
     \/ sampled # {} /\ reclaimed * RepeatDivisor >= Cardinality(sampled) /\ sweep' = "again"
  /\ sweepNow' = 0 /\ sampled' = {} /\ reclaimed' = 0
  /\ UNCHANGED <<list, stamp, requests, now>>

Tick ==
  /\ now < MaxTime
  /\ now' = now + 1 /\ counted' = {}
  /\ UNCHANGED <<list, phase, stamp, sweeper, requests>>

-----------------------------------------------------------------------------
(* Deadlines of records an earlier process wrote.                          *)
RecoveredDeadlines == {0} \cup {Wrap(t + ttl) : t \in 0..now, ttl \in TTLs}

Recover ==
  \/ \E k \in Keys, size \in Sizes, deadline \in RecoveredDeadlines :
       applyRecoveredSet(k, size, deadline)
  \/ \E k \in Keys : RecoverDelete(k) \/ reclaimExpired(k)
  \/ enforceRecoveredState \/ ReclaimEnds

Submit ==
  \E k \in Keys :
    \/ \E size \in Sizes : Set(k, size) \/ \E ttl \in TTLs : SetTTL(k, size, ttl)
    \/ Delete(k)

Apply == applySet \/ AppliedExpired \/ AppliedLive \/ applyDelete \/ evictToCapacity \/ EvictionEnds

Sweep == SweepBegins \/ SweepLocks \/ SweepUnlocks \/ \E k \in Keys : SweepVisits(k)

Next == Recover \/ Submit \/ Apply \/ Sweep \/ Tick \/ \E k \in Keys : getInto(k)

Spec == Init /\ [][Next]_vars

(* The log ends, the goroutines run, and map iteration starts at a random  *)
(* entry, so that no entry is left out of every sample.                    *)
FairSpec ==
  /\ Spec
  /\ WF_vars(enforceRecoveredState) /\ WF_vars(ReclaimEnds) /\ WF_vars(Apply)
  /\ WF_vars(SweepBegins) /\ WF_vars(SweepUnlocks)
  /\ SF_vars(SweepLocks)
  /\ \A k \in Keys : SF_vars(SweepVisits(k)) /\ WF_vars(reclaimExpired(k))

-----------------------------------------------------------------------------
(* Properties.                                                             *)

(* Every variable stays in its type.                                       *)
TypeOK ==
  /\ DOMAIN entries \subseteq Keys /\ entries \in [DOMAIN entries -> Entry]
  /\ recent \in Pointers /\ oldest \in Pointers /\ bytes \in Nat
  /\ phase \in Opening \cup {"free", "applied", "evict", "sweep"}
  /\ stamp \in Time /\ now \in Time
  /\ sweep \in {"idle", "waiting", "again"} /\ sweepNow \in Time
  /\ sampled \subseteq Keys /\ reclaimed \in Nat
  /\ requests \in Seq(Request) /\ Len(requests) <= QueueBound
  /\ counted \subseteq {"hits", "misses", "expiries", "evictions"}

(* s lists the entries from the most to the least recent one, and every    *)
(* pointer of the shard agrees with it.                                    *)
Lists(s) ==
  /\ IsInjective(s) /\ Range(s) = DOMAIN entries
  /\ recent = IF s = <<>> THEN Nil ELSE s[1]
  /\ oldest = IF s = <<>> THEN Nil ELSE s[Len(s)]
  /\ \A i \in 1..Len(s) :
       /\ entries[s[i]].previous = IF i = 1 THEN Nil ELSE s[i - 1]
       /\ entries[s[i]].next = IF i = Len(s) THEN Nil ELSE s[i + 1]

(* The entries met by following next from shard.recent, at most one for    *)
(* each entry of the map.                                                  *)
Order ==
  LET n == Cardinality(DOMAIN entries)
      walk[i \in 1..n] ==
        IF i = 1 THEN recent
        ELSE IF walk[i - 1] \in DOMAIN entries THEN entries[walk[i - 1]].next ELSE Nil
  IN  [i \in 1..n |-> walk[i]]

(* Whatever the sequence of sets, reads, deletes, expiries and evictions,  *)
(* the recency list holds exactly the entries of the map and its two       *)
(* directions agree: a wrong pointer would make a later eviction take the  *)
(* wrong entry, or none.                                                   *)
ListIntact == Cardinality(DOMAIN entries) > 0 => Lists(Order)

(* The charged bytes are the sizes of the entries held, so that a shard    *)
(* over its capacity always has an oldest entry to evict; and when no      *)
(* critical section is open the shard fits.                                *)
ChargeExact ==
  /\ bytes = SumFunction([k \in DOMAIN entries |-> entries[k].size])
  /\ phase \in {"free", "sweep"} => bytes <= Capacity

(* The eviction loop of a write never reaches the entry just written, which*)
(* validateEntrySize has shown to fit by itself.                           *)
FreshWriteKept == phase = "evict" /\ bytes > Capacity => oldest # recent

(* The shard implements a recency order: reads and writes bring an entry to*)
(* the front, only a shard over its capacity evicts, and always from the   *)
(* back; an entry is written or deleted only by the accepted write whose   *)
(* turn it is; what is counted as an expiry had passed the deadline that   *)
(* its caller asked for (now + ttl, not the integer it may have wrapped    *)
(* to), also when the sweep works with a time it read before waiting for   *)
(* the lock, except that a sum beyond MaxInt expires at once.              *)
Asked(deadline) == IF deadline < 0 THEN deadline + 2 * (MaxInt + 1) ELSE deadline
Held == [k \in DOMAIN entries |-> [size |-> entries[k].size, deadline |-> Asked(entries[k].deadline)]]
AsAsked(r) == [op |-> r.op, key |-> r.key, size |-> r.size, deadline |-> Asked(r.deadline)]
Accepted == [i \in 1..Len(requests) |-> AsAsked(requests[i])]
Stage == IF phase = "replay" THEN "opening" ELSE "open"
Abstract == INSTANCE RecencyOrder WITH
  order <- Order, held <- Held, accepted <- Accepted, stage <- Stage
ImplementsRecencyOrder == Abstract!Spec

(* An entry past its deadline is reclaimed although nobody reads it.       *)
SweepReclaims ==
  \A k \in Keys :
    (k \in DOMAIN entries /\ deadlinePassed(entries[k].deadline, now))
      ~> (k \notin DOMAIN entries \/ ~deadlinePassed(entries[k].deadline, now))
=============================================================================
