-------------------------- MODULE MCMembersNotifier --------------------------
(* Instances of MembersNotifier for TLC. *)
EXTENDS MembersNotifier

\* Parachains are interchangeable in the safety runs.
ParaSymmetry == Permutations(Paras)

\* Storage order differs from the order of the indices.
MCStorageRank == [r \in RingIndices |-> (MaxRingIndex - r)]

MCOneList == {<<1>>}
BuiltOnce == [r \in RingIndices |-> 0]
==============================================================================
