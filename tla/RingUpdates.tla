----------------------------- MODULE RingUpdates -----------------------------
(***************************************************************************)
(* What the notifier and the subscriber of ring roots share: the operation *)
(* of an update (support/src/members_notifier_subscriber.rs) and the way   *)
(* index lists are cut into messages.                                      *)
(***************************************************************************)
EXTENDS StorageMaps

\* RingRootOp: Built with a revision >= 0, or Deleted.
Deleted == -1

\* `slice.chunks(size)` of an ascending index list.
Chunks(indices, size) ==
  LET rank(r) == Cardinality({q \in indices : q < r})
      count == (Cardinality(indices) + size - 1) \div size
  IN [k \in 1..count |-> {r \in indices : rank(r) \div size = k - 1}]
==============================================================================
