--------------------------- MODULE MCRingRootSync ----------------------------
(* Instances of RingRootSync for TLC. *)
EXTENDS RingRootSync

MCStorageRank == [r \in RingIndices |-> MaxRingIndex - r]
BuiltOnce == [r \in RingIndices |-> 0]
FirstRebuilt == [r \in RingIndices |-> IF r = 0 THEN 1 ELSE 0]
MCOneList == {<<1>>}
==============================================================================
