-------------------------- MODULE StoreRefinement ---------------------------
(***************************************************************************)
(* The store implements DurableMap, and under which mapping.               *)
(***************************************************************************)
EXTENDS DurableStore

(* What the history leaves and what readers find, without the entries that *)
(* have expired, and what is still to be answered.                         *)
DurableImage == [k \in Keys |-> Live(Latest(k, Len(history)))]
VisibleImage == [k \in Keys |-> Live(entries[k])]
Answers(records) == [i \in DOMAIN records |-> [key |-> records[i].key, entry |-> EntryOf(records[i])]]

(* Seen from its callers the store is a durable map of the records it has  *)
(* written: rolling, pruning and every step of a snapshot are invisible, a *)
(* write is answered after it is durable, eviction hides entries from      *)
(* readers and never changes one, and the Open after a crash or a Close    *)
(* shows what was written, although it finds it in the files: by           *)
(* RecoveryIsExact they always recover to what is here called durable.     *)
Map == INSTANCE DurableMap WITH
  durable <- DurableImage,
  through <- Len(history),
  up <- status = "up",
  failed <- latched,
  visible <- VisibleImage,
  applied <- logSequence,
  pending <- Answers(pending)
ImplementsDurableMap == Map!Spec
=============================================================================
