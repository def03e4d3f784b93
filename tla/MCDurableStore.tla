--------------------------- MODULE MCDurableStore ---------------------------
(* Small instances of DurableStore for TLC.                                *)
EXTENDS StoreRefinement

CONSTANTS a, b

(* Two keys that share the only shard of a store opened with one, and live *)
(* in different shards of a store opened with two.                         *)
MCKeys == {a, b}
MCHash == [k \in MCKeys |-> IF k = a THEN 0 ELSE 1]

Set(k, d) == [op |-> "set", key |-> k, deadline |-> d]
Delete(k) == [op |-> "delete", key |-> k, deadline |-> 0]

(* Two keys written and one of them deleted; the same with one key that    *)
(* expires at time 1; one key that is written and deleted.                 *)
PlainRequests == {Set(a, 0), Set(b, 0), Delete(a)}
ExpiringRequests == {Set(a, 0), Set(a, 1), Set(b, 0)}
OneKeyRequests == {Set(a, 0), Delete(a)}

(* One shard that holds one entry, so that the second key evicts; or that  *)
(* and, from one Open to the next, two shards with room for both keys.     *)
OneShard == {<<1, 1>>}
Resharded == {<<1, 1>>, <<2, 2>>}
=============================================================================
