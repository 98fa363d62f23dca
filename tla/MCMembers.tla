------------------------------ MODULE MCMembers ------------------------------
(* TLC instances of Members.                                               *)
EXTENDS Members, TLC

NoMerges == {}
\* The first ring into an index that no ring has reached yet.
FirstIntoFuture == {<<2, 0>>}
MCSymmetry == Permutations(Keys)
==============================================================================
