---------------------------- MODULE UnloadTokens -----------------------------
(***************************************************************************)
(* The tokens of pallets/coinage that entitle to unload a recycler: free   *)
(* ones, a number of them per (lite) person and period, and paid ones,     *)
(* bought with a fresh member key that joins the collection of the current *)
(* period.  A token is spent by an anonymous proof; all the pallet knows   *)
(* of it is the alias, so spent aliases are remembered until the token     *)
(* could no longer be accepted, and cleaned up in steps.                   *)
(*                                                                         *)
(* A definition whose name starts with Bug_ is a deliberate mistake in the *)
(* definition after it; no specification uses one.                         *)
(***************************************************************************)
EXTENDS AppendOnlyCollections

CONSTANTS
  Persons,              \* people and lite people
  FreeLimits,           \* free tokens of a person per period
  PaidKeys,
  UnloadTokenTimePeriod, GraceWindow,      \* of free tokens
  PaidTimePeriod, PaidExpirationTime,
  CleanConsumedFreeTokenLimit, DustCleanupBatchSize,
  MaxNow                \* bound: time

ASSUME TokenAssumption ==
  /\ FreeLimits \in [Persons -> Nat]
  /\ UnloadTokenTimePeriod \in Nat \ {0} /\ GraceWindow \in Nat
  /\ PaidTimePeriod \in Nat \ {0} /\ PaidExpirationTime \in Nat
  /\ CleanConsumedFreeTokenLimit \in Nat \ {0} /\ DustCleanupBatchSize \in Nat \ {0}
  /\ MaxNow \in Nat

VARIABLES
  now,
  freeConsumed,         \* `ConsumedFreeUnloadTokens`: <<period, alias>>
  paidMembers,          \* `PaidUnloadTokenMembers`
  paidCollections,      \* `PaidTokenCollectionsCreated`: period -> collection
  paidNextRing,         \* `PaidUnloadTokenNextRingToClean`
  paidConsumed,         \* `PaidUnloadTokenConsumed`: <<period, ring, key>>
  paidDusting,          \* `PaidUnloadTokenDusting`
  spent,                \* history: how often each token was spent
  bought                \* history: paid key -> the period it was last bought in

freeVars == <<freeConsumed>>
paidVars == <<paidMembers, paidCollections, paidNextRing, paidConsumed,
              paidDusting, bought>>
tokenVars == <<now, freeVars, paidVars, spent>>

TokenInit ==
  /\ now = 0 /\ freeConsumed = {} /\ paidMembers = {}
  /\ paidCollections = <<>> /\ paidNextRing = <<>> /\ paidConsumed = {}
  /\ paidDusting = {} /\ spent = <<>> /\ bought = <<>>

\* What `clear_prefix` may take of S, in no particular order.
BatchOf(S, limit) == {B \in SUBSET S : Cardinality(B) = Min({limit, Cardinality(S)})}

CountSpent(token) == spent' = Insert(spent, token, Get(spent, token) + 1)

-----------------------------------------------------------------------------
(* Free tokens.  The proof's context holds period and counter, so the alias *)
(* stands for the person and the counter.                                  *)

FreePeriod(t) == t \div UnloadTokenTimePeriod

\* A transaction sent at the end of a period is still accepted a little later.
current_free_unload_token_periods ==
  {FreePeriod(Max({now - GraceWindow, 0})), FreePeriod(now)}

SpendFree(who, counter, period) ==
  /\ period \in current_free_unload_token_periods
  /\ counter < FreeLimits[who]
  /\ <<period, who, counter>> \notin freeConsumed
  /\ freeConsumed' = freeConsumed \cup {<<period, who, counter>>}
  /\ CountSpent(<<"free", period, who, counter>>)
  /\ UNCHANGED <<now, paidVars>>

Bug_PeriodOver(period) == period < FreePeriod(now)

\* No period that is still accepted is cleaned.
FreePeriodOver(period) == \A p \in current_free_unload_token_periods : period < p

clean_consumed_free_token(period, batch) ==
  LET ofPeriod == {t \in freeConsumed : t[1] = period}
  IN /\ FreePeriodOver(period) /\ ofPeriod # {}
     /\ batch \in BatchOf(ofPeriod, CleanConsumedFreeTokenLimit)
     /\ freeConsumed' = freeConsumed \ batch
     /\ UNCHANGED <<now, paidVars, spent>>

-----------------------------------------------------------------------------
(* Paid tokens. *)

current_period == now \div PaidTimePeriod
period_expiration_time(period) == (period + 1) * PaidTimePeriod + PaidExpirationTime

WithCurrentCollection ==
  IF current_period \in DOMAIN paidCollections THEN paidCollections
  ELSE Insert(paidCollections, current_period, create_collection)

\* on_poll
ensure_current_period_collection_exists ==
  /\ current_period \notin DOMAIN paidCollections
  /\ paidCollections' = WithCurrentCollection
  /\ UNCHANGED <<now, freeVars, paidMembers, paidNextRing, paidConsumed,
                 paidDusting, spent, bought>>

\* The end of every call that buys a token.
add_member(k) ==
  /\ k \notin paidMembers
  /\ CanAdd(WithCurrentCollection[current_period], {k})
  /\ paidCollections' = [WithCurrentCollection EXCEPT ![current_period] =
                           add_members(@, {k})]
  /\ paidMembers' = paidMembers \cup {k}
  /\ bought' = Insert(bought, k, current_period)
  /\ UNCHANGED <<now, freeVars, paidNextRing, paidConsumed, paidDusting, spent>>

OnboardPaid(period, k) ==
  /\ CanOnboard(paidCollections[period], k)
  /\ paidCollections' = [paidCollections EXCEPT ![period] = Onboarded(@, k, now)]
  /\ UNCHANGED <<now, freeVars, paidMembers, paidNextRing, paidConsumed,
                 paidDusting, spent, bought>>

\* validate_token_consumption_proof and mark_token_consumed.
SpendPaid(period, ring, k) ==
  /\ period \in DOMAIN paidCollections
  /\ k \in RingKeys(paidCollections[period], ring)
  /\ now < period_expiration_time(period)
  /\ <<period, ring, k>> \notin paidConsumed
  /\ paidConsumed' = paidConsumed \cup {<<period, ring, k>>}
  /\ CountSpent(<<"paid", period, ring, k>>)
  /\ UNCHANGED <<now, freeVars, paidMembers, paidCollections, paidNextRing,
                 paidDusting, bought>>

Bug_CleanedWithPeriod(period) ==
  period \in DOMAIN paidCollections /\ current_period > period

PaidPeriodOver(period) ==
  period \in DOMAIN paidCollections /\ now >= period_expiration_time(period)

NextRing(period) == IF period \in DOMAIN paidNextRing THEN paidNextRing[period] ELSE 1

\* Rings are cleaned one after another; they are not removed.
clean_paid_unload_token_ring(period) ==
  LET members == RingKeys(paidCollections[period], NextRing(period))
  IN /\ PaidPeriodOver(period) /\ members # {}
     /\ paidMembers' = paidMembers \ members
     /\ paidNextRing' = Insert(paidNextRing, period, NextRing(period) + 1)
     /\ UNCHANGED <<now, freeVars, paidCollections, paidConsumed, paidDusting,
                    spent, bought>>

delete_expired_paid_unload_token_collection(period) ==
  /\ PaidPeriodOver(period)
  /\ RingKeys(paidCollections[period], NextRing(period)) = {}
  /\ paidCollections' = Without(paidCollections, period)
  /\ paidNextRing' = Without(paidNextRing, period)
  /\ paidDusting' = IF \E t \in paidConsumed : t[1] = period
                    THEN paidDusting \cup {period} ELSE paidDusting
  /\ UNCHANGED <<now, freeVars, paidMembers, paidConsumed, spent, bought>>

Bug_OneBatchOnly(period, dust, batch) == paidDusting \ {period}

\* `clear_prefix` leaves a cursor unless it took everything.
AfterBatch(period, dust, batch) ==
  IF batch = dust THEN paidDusting \ {period} ELSE paidDusting

clean_paid_unload_token_dust(period, batch) ==
  LET dust == {t \in paidConsumed : t[1] = period}
  IN /\ period = Min(paidDusting)
     /\ batch \in BatchOf(dust, DustCleanupBatchSize)
     /\ paidConsumed' = paidConsumed \ batch
     /\ paidDusting' = AfterBatch(period, dust, batch)
     /\ UNCHANGED <<now, freeVars, paidMembers, paidCollections, paidNextRing,
                    spent, bought>>

-----------------------------------------------------------------------------
SpendToken ==
  \/ \E who \in Persons, period \in current_free_unload_token_periods :
       \E counter \in 0..(FreeLimits[who] - 1) : SpendFree(who, counter, period)
  \/ \E period \in DOMAIN paidCollections, ring \in 1..MaxRings, k \in PaidKeys :
       SpendPaid(period, ring, k)

\* The authorised calls of maintenance.
CleanFree ==
  \E t \in freeConsumed, batch \in SUBSET freeConsumed :
    clean_consumed_free_token(t[1], batch)
CleanPaid(period) ==
  \/ clean_paid_unload_token_ring(period)
  \/ delete_expired_paid_unload_token_collection(period)
CleanPaidDust ==
  \E period \in paidDusting, batch \in SUBSET paidConsumed :
    clean_paid_unload_token_dust(period, batch)

Tick ==
  /\ now < MaxNow /\ now' = now + 1
  /\ UNCHANGED <<freeVars, paidVars, spent>>

TokenMaintenance ==
  \/ CleanFree
  \/ CleanPaidDust
  \/ ensure_current_period_collection_exists
  \/ \E period \in DOMAIN paidCollections :
       CleanPaid(period) \/ \E k \in PaidKeys : OnboardPaid(period, k)
  \/ Tick

TokenNext ==
  \/ \E k \in PaidKeys : add_member(k)
  \/ SpendToken
  \/ TokenMaintenance

\* What the offchain worker submits every few blocks: free tokens of the last
\* ten periods that are over, paid ones of the oldest period only.
WorkerCleansFree ==
  \E t \in freeConsumed, batch \in SUBSET freeConsumed :
    /\ t[1] >= Min(current_free_unload_token_periods) - 10
    /\ clean_consumed_free_token(t[1], batch)
WorkerCleansPaid ==
  paidCollections # <<>> /\ CleanPaid(Min(DOMAIN paidCollections))

TokenFairness ==
  /\ WF_tokenVars(Tick)
  /\ WF_tokenVars(WorkerCleansFree)
  /\ WF_tokenVars(WorkerCleansPaid)
  /\ WF_tokenVars(CleanPaidDust)

TokenSpec == TokenInit /\ [][TokenNext]_tokenVars /\ TokenFairness

-----------------------------------------------------------------------------
\* No token entitles to two unloads, although what was spent is forgotten in
\* the end: free tokens are accepted in a grace window after their period, and
\* the aliases of a paid period go in batches after its collection is deleted.
TokensSpentOnce == \A t \in DOMAIN spent : spent[t] = 1

\* Whoever paid for a token has it until its period has expired: the key stays
\* registered and the collection of that period holds it.
PaidTokensKept ==
  \A k \in DOMAIN bought :
    now < period_expiration_time(bought[k]) =>
      /\ k \in paidMembers /\ bought[k] \in DOMAIN paidCollections
      /\ k \in paidCollections[bought[k]].waiting
               \cup AllRingKeys(paidCollections[bought[k]])

\* What no token can be spent against any more is forgotten in the end: the
\* collection of an expired period, the aliases spent in it, although they go in
\* batches after it was deleted, and those of free tokens.
ExpiredForgotten ==
  \A period \in 0..MaxNow :
    /\ period_expiration_time(period) <= MaxNow =>
         <>[](/\ period \notin DOMAIN paidCollections
              /\ \A t \in paidConsumed : t[1] # period)
    /\ period < FreePeriod(Max({MaxNow - GraceWindow, 0})) =>
         <>[](\A t \in freeConsumed : t[1] # period)
==============================================================================
