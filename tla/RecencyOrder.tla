---------------------------- MODULE RecencyOrder ----------------------------
(***************************************************************************)
(* What a shard promises: its entries in one order of recency, changed by  *)
(* the writes that were accepted, one at a time and in their order.  A use *)
(* brings an entry to the front, a shard over its capacity loses the entry *)
(* at the back, and nothing expires before the time its caller asked for,  *)
(* unless that time lies beyond the largest integer of the clock.          *)
(***************************************************************************)
EXTENDS Integers, Sequences, Functions

CONSTANTS
  Keys,
  Sizes,     \* charged sizes
  TTLs,
  Capacity,  \* the charged bytes a shard may hold
  MaxInt     \* the largest integer of the clock

VARIABLES
  order,     \* the keys held, the most recently used first
  held,      \* key -> [size, deadline], deadline 0 for none
  accepted,  \* the writes that are still to be applied
  stage,     \* "opening" while the log is replayed, then "open"
  now,       \* the clock
  counted    \* the statistics the last step advanced

vars == <<order, held, accepted, stage, now, counted>>

(* s without k, which it holds at most once.                               *)
Without(s, k) ==
  LET p == CHOOSE i \in 1..Len(s) : s[i] = k
  IN  IF \E i \in 1..Len(s) : s[i] = k
      THEN [i \in 1..(Len(s) - 1) |-> IF i < p THEN s[i] ELSE s[i + 1]] ELSE s

Charged == SumFunction([k \in DOMAIN held |-> held[k].size])
Others(k) == Without(order, k)

(* A deadline that the clock cannot show has passed from the start.        *)
Expired(k) == held[k].deadline # 0 /\ (held[k].deadline <= now \/ held[k].deadline > MaxInt)

Init == order = <<>> /\ held = <<>> /\ accepted = <<>> /\ stage = "opening" /\ counted = {}

Write(k, size, deadline) ==
  /\ order' = <<k>> \o Others(k)
  /\ held' = [j \in DOMAIN held \cup {k} |->
                IF j = k THEN [size |-> size, deadline |-> deadline] ELSE held[j]]

Drop(k) == order' = Others(k) /\ held' = Restrict(held, DOMAIN held \ {k})

-----------------------------------------------------------------------------
(* The log is replayed: any sequence of writes and deletes.                *)
Replay ==
  /\ stage = "opening"
  /\ \E k \in Keys : \/ Drop(k)
                     \/ \E size \in Sizes, deadline \in 0..(2 * MaxInt + 1) : Write(k, size, deadline)
  /\ counted' = {} /\ UNCHANGED <<accepted, stage, now>>

Opened ==
  /\ stage = "opening" /\ stage' = "open"
  /\ counted' = {} /\ UNCHANGED <<order, held, accepted, now>>

(* A Set or SetTTL of what fits, or a Delete; a TTL counts from now.       *)
Accept ==
  /\ stage = "open"
  /\ \E k \in Keys :
       \/ \E size \in Sizes, deadline \in {0} \cup {now + ttl : ttl \in TTLs} :
            /\ size <= Capacity
            /\ accepted' = Append(accepted,
                 [op |-> "set", key |-> k, size |-> size, deadline |-> deadline])
       \/ accepted' = Append(accepted, [op |-> "delete", key |-> k, size |-> 0, deadline |-> 0])
  /\ counted' = {} /\ UNCHANGED <<order, held, stage, now>>

(* The oldest write accepted takes effect; a delete only if it is one.     *)
Apply ==
  /\ accepted # <<>>
  /\ LET r == Head(accepted)
     IN  \/ r.op = "set" /\ Write(r.key, r.size, r.deadline)
         \/ r.op = "delete" /\ Drop(r.key)
  /\ accepted' = Tail(accepted)
  /\ counted' = {} /\ UNCHANGED <<stage, now>>

Hit(k) ==
  /\ ~Expired(k)
  /\ order' = <<k>> \o Others(k)
  /\ counted' = {"hits"}
  /\ UNCHANGED <<held, accepted, stage, now>>

Miss(k) ==
  /\ k \notin DOMAIN held /\ counted' = {"misses"}
  /\ UNCHANGED <<order, held, accepted, stage, now>>

(* A read, a sweep, a write or a recovery met an entry past its deadline.  *)
Expire(k) ==
  /\ Expired(k) /\ Drop(k) /\ counted' \in {{"expiries"}, {"expiries", "misses"}}
  /\ UNCHANGED <<accepted, stage, now>>

(* Only the least recently used entry, and only while there is too much.   *)
Evict ==
  /\ order # <<>> /\ Charged > Capacity
  /\ Drop(order[Len(order)]) /\ counted' = {"evictions"}
  /\ UNCHANGED <<accepted, stage, now>>

(* Time passes, or the shard does what callers cannot see.                 *)
Pass == now' >= now /\ counted' = {} /\ UNCHANGED <<order, held, accepted, stage>>

Next ==
  \/ Replay \/ Opened \/ Accept \/ Apply
  \/ \E k \in DOMAIN held : Hit(k) \/ Expire(k)
  \/ \E k \in Keys : Miss(k)
  \/ Evict \/ Pass

Spec == Init /\ [][Next]_vars
=============================================================================
