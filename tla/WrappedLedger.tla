---------------------------- MODULE WrappedLedger ----------------------------
(***************************************************************************)
(* What pallets/coinage promises whoever wraps an asset in it: every unit  *)
(* in circulation, as a coin or as a key in a recycler, is backed by a     *)
(* unit on hold.  Value enters with a deposit, leaves with a withdrawal,   *)
(* and is otherwise only moved or destroyed; what was destroyed stays on   *)
(* hold and never circulates again.                                        *)
(***************************************************************************)
EXTENDS Naturals

VARIABLES held, circulating, destroyed

ledgerVars == <<held, circulating, destroyed>>

LedgerInit == held = 0 /\ circulating = 0 /\ destroyed = 0

Deposit(n) ==
  /\ held' = held + n /\ circulating' = circulating + n
  /\ UNCHANGED destroyed

\* `burnt` goes in the same step: the change left over from a fee.
Withdraw(n, burnt) ==
  /\ n + burnt <= circulating
  /\ circulating' = circulating - n - burnt
  /\ held' = held - n
  /\ destroyed' = destroyed + burnt

LedgerNext ==
  \/ \E n \in 0..held' : Deposit(n)
  \/ \E n \in 0..held, burnt \in 0..circulating : Withdraw(n, burnt)

LedgerSpec == LedgerInit /\ [][LedgerNext]_ledgerVars
==============================================================================
