--------------------------- MODULE MCUnloadTokens ----------------------------
(* Instances of UnloadTokens for TLC. *)
EXTENDS UnloadTokens

MCFreeLimits == [p \in Persons |-> 1]
==============================================================================
