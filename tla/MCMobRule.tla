------------------------------ MODULE MCMobRule ------------------------------
(* Instances of MobRule for TLC. *)
EXTENDS MobRule

\* Two rounds, of which a voter with part of the points claims part, and a
\* schedule of no rounds, whose amount does not divide evenly.
MCSchedules == {[remaining |-> 2, amount_per_round |-> 2, period |-> 1],
                [remaining |-> 0, amount_per_round |-> 3, period |-> 0]}
==============================================================================
