---------------------------- MODULE MCProofOfInk -----------------------------
(* Instances of ProofOfInk for TLC. *)
EXTENDS ProofOfInk, TLC

\* The first candidate has the full allocation at once, the second does not.
MCConfigs == [reroll_timeout : {0}, fasttrack_count : {1}, maximum : {2},
              timeout : {0}]

MCLists == {<<<<[value |-> 1, count |-> 1]>>, <<[value |-> 1, count |-> 1]>>>>}

MCSymmetry == Permutations(Accounts) \cup Permutations(Tickets)
==============================================================================
