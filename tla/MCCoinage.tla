------------------------------ MODULE MCCoinage ------------------------------
(* Instances of Coinage for TLC. *)
EXTENDS Coinage

MCFreeLimits == [p \in Persons |-> 1]

MCSymmetry == Permutations(Accounts) \cup Permutations(Keys)
==============================================================================
