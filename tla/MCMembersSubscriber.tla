------------------------- MODULE MCMembersSubscriber -------------------------
(* Instances of MembersSubscriber for TLC: a notifier that sends anything. *)
EXTENDS MembersSubscriber

CONSTANTS MaxSequence, MaxRevision

\* Every set of updates to at most MaxUpdatesPerBatch rings, with every
\* sequence number, and a next_ring_index below or above all rings; only an
\* initialisation, which reads the roots in storage, has no deletions.
MCUpdates(ops) ==
  UNION {[S -> ops] :
           S \in {T \in SUBSET RingIndices : Cardinality(T) <= MaxUpdatesPerBatch}}

MCMessages ==
  UNION {[call : {call}, identifier : Collections, sequence : 0..MaxSequence,
          updates : MCUpdates((IF call = "update" THEN {Deleted} ELSE {})
                                \cup 0..MaxRevision),
          next_ring_index : {1, MaxRingIndex + 1}] : call \in {"init", "update"}}
  \cup [call : {"terminate"}, identifier : {0}, sequence : {0},
        updates : {<<>>}, next_ring_index : {0}]
==============================================================================
