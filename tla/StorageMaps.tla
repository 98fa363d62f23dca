----------------------------- MODULE StorageMaps -----------------------------
(***************************************************************************)
(* Partial functions as models of the storage maps of a pallet.            *)
(***************************************************************************)
EXTENDS Integers, FiniteSets, Sequences, FiniteSetsExt, SequencesExt

\* Insertion into and removal from a storage map.
Insert(f, k, v) == [x \in DOMAIN f \cup {k} |-> IF x = k THEN v ELSE f[x]]
Without(f, k) == [x \in DOMAIN f \ {k} |-> f[x]]
WithoutAll(f, S) == [x \in DOMAIN f \ S |-> f[x]]
IsPartialFunction(f, S, T) == DOMAIN f \subseteq S /\ f \in [DOMAIN f -> T]

\* A map with ValueQuery and default 0.
Get(f, k) == IF k \in DOMAIN f THEN f[k] ELSE 0
==============================================================================
