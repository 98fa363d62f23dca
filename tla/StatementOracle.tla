--------------------------- MODULE StatementOracle ---------------------------
(***************************************************************************)
(* What support/src/traits/reality.rs promises of a StatementOracle: give  *)
(* it a statement and a callback, get a ticket, and be called back with    *)
(* that ticket and a judgement, at some later time and at most once.       *)
(* MobRule implements it; ProofOfInk relies on no more than this.          *)
(***************************************************************************)
EXTENDS StorageMaps

CONSTANT MaxTickets     \* bound: statements ever judged

ASSUME OracleAssumption == MaxTickets \in Nat

VARIABLES
  nextTicket,
  pending,              \* tickets whose callback is still to come
  answers               \* how many callbacks there were

oracleVars == <<nextTicket, pending, answers>>

\* Truth(True), Truth(False) and Contempt.
Judgements == {"True", "False", "Contempt"}

OracleInit ==
  /\ nextTicket = 0
  /\ pending = {}
  /\ answers = 0

judge_statement ==
  /\ nextTicket < MaxTickets
  /\ nextTicket' = nextTicket + 1
  /\ pending' = pending \cup {nextTicket}
  /\ UNCHANGED answers

callback(ticket, judgement) ==
  /\ ticket \in pending /\ judgement \in Judgements
  /\ pending' = pending \ {ticket}
  /\ answers' = answers + 1
  /\ UNCHANGED nextTicket

OracleNext ==
  \/ judge_statement
  \/ \E t \in pending, j \in Judgements : callback(t, j)

OracleSpec == OracleInit /\ [][OracleNext]_oracleVars
==============================================================================
