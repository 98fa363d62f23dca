------------------------------- MODULE Coinage -------------------------------
(***************************************************************************)
(* pallets/coinage: coins of values 2^v that wrap an underlying asset.     *)
(* Coins pass from account to account and age; loading one into the        *)
(* recycler of its value replaces it by a member key (a voucher) in a ring *)
(* and whoever proves membership unloads the value anew, as coins or as    *)
(* the asset.  Composed with the tokens that entitle to unload and with    *)
(* the transaction extension AsCoinage, which checks a call, takes its     *)
(* coin, token or first alias before dispatch, and settles a failure.      *)
(*                                                                         *)
(* Amounts are counted in a unit of which the smallest coin has            *)
(* UnitAmount.  Balances outside the pallet are one sum.  A proof is taken *)
(* to show exactly what it is for: membership of a key in a ring whose     *)
(* root is valid; its alias is the key.  The fee varies from call to call. *)
(***************************************************************************)
EXTENDS UnloadTokens

CONSTANTS
  Accounts, Keys,
  MaximumExponent,      \* values are exponents above the minimum
  UnitAmount,
  MinimumExponentForOutputUnloadFee,
  MaxSplitOutputs, MaxConsolidation, MaxBatchUnpaidLoad, MaximumAge,
  RecyclerExpirationTime, CoinFailureLockPeriod,
  Fees,
  Supply                \* bound: units of the underlying asset

Values == 0..MaximumExponent

ASSUME CoinageAssumption ==
  /\ IsFiniteSet(Accounts) /\ IsFiniteSet(Keys)
  /\ MaximumExponent \in Nat /\ UnitAmount \in Nat \ {0} /\ Supply \in Nat
  /\ MinimumExponentForOutputUnloadFee \in Values
  /\ MaxSplitOutputs \in Nat \ {0, 1} /\ MaxConsolidation \in Nat \ {0}
  /\ MaxBatchUnpaidLoad \in Nat /\ MaximumAge \in Nat
  /\ RecyclerExpirationTime \in Nat /\ CoinFailureLockPeriod \in Nat
  /\ Fees \subseteq Nat

VARIABLES
  assetSet,             \* `UnderlyingAssetId` is set
  initialized,          \* `InitializePalletAccount`
  coins,                \* `CoinsByOwner`
  lockedCoins,          \* `LockedCoins`
  recyclers,            \* `RecyclerCollectionCreated`: value -> collection
  lastRemoved,          \* `RecyclersLastRemovedRingIndex`; 0: none
  coinToRecycler,       \* `RecyclersCoinToRecycler`: key -> value
  unloaded,             \* `RecyclersUnloaded`: <<value, ring, key>>
  dusting,              \* `RecyclersDusting`: <<value, ring>>
  held,                 \* the asset on hold in the pallet account
  destroyed             \* `TotalValueOfDestroyedCoins`

setupVars == <<assetSet, initialized>>
coinVars == <<coins, lockedCoins>>
ringVars == <<recyclers, lastRemoved, coinToRecycler, unloaded, dusting>>
fundVars == <<held, destroyed>>
vars == <<tokenVars, setupVars, coinVars, ringVars, fundVars>>

Init ==
  /\ TokenInit
  /\ assetSet = FALSE /\ initialized = FALSE
  /\ coins = <<>> /\ lockedCoins = <<>>
  /\ recyclers = <<>> /\ lastRemoved = [v \in Values |-> 0]
  /\ coinToRecycler = <<>> /\ unloaded = {} /\ dusting = {}
  /\ held = 0 /\ destroyed = 0

\* coin_value_to_unit and coin_value_to_asset_amount.
Units(v) == 2 ^ v
Amount(v) == Units(v) * UnitAmount

TotalUnits(out) == MapThenSumSet(LAMBDA x : Units(out[x]), DOMAIN out)

Outside == Supply - held

-----------------------------------------------------------------------------
set_underlying_asset_id ==
  /\ ~assetSet /\ assetSet' = TRUE
  /\ UNCHANGED <<tokenVars, initialized, coinVars, ringVars, fundVars>>

\* ensure_collection_exists
WithRecyclers(S) ==
  [v \in DOMAIN recyclers \cup S |->
     IF v \in DOMAIN recyclers THEN recyclers[v] ELSE create_collection]

\* on_poll; the minimum balance it mints is not on hold.
do_initialize ==
  /\ assetSet /\ ~initialized /\ initialized' = TRUE
  /\ recyclers' = WithRecyclers(Values)
  /\ UNCHANGED <<tokenVars, assetSet, coinVars, lastRemoved, coinToRecycler,
                 unloaded, dusting, fundVars>>

-----------------------------------------------------------------------------
(* Recyclers. *)

\* RecyclerManager::load and load_batch_grouped, for keys with their values.
CanLoad(new) ==
  /\ DOMAIN new \cap DOMAIN coinToRecycler = {}
  /\ \A k \in DOMAIN new : CanAdd(WithRecyclers({new[k]})[new[k]], {k})
Loaded(new) ==
  LET with == WithRecyclers(Range(new))
  IN [v \in DOMAIN with |-> add_members(with[v], {k \in DOMAIN new : new[k] = v})]
load(new) ==
  /\ CanLoad(new)
  /\ recyclers' = Loaded(new)
  /\ coinToRecycler' = [k \in DOMAIN coinToRecycler \cup DOMAIN new |->
                          IF k \in DOMAIN new THEN new[k] ELSE coinToRecycler[k]]

Expired(ring) ==
  ring.immutable_since # NoTime /\ now >= ring.immutable_since + RecyclerExpirationTime

\* A recycler that expired is invalid even before it is cleaned.
validate_recycler_revision(v, i) ==
  /\ v \in DOMAIN recyclers /\ i \in DOMAIN recyclers[v].rings
  /\ RingKeys(recyclers[v], i) # {}
  /\ ~Expired(recyclers[v].rings[i])

\* The vouchers that proofs can be made for.
Vouchers(v, i) ==
  IF validate_recycler_revision(v, i)
  THEN {<<v, i, k>> : k \in RingKeys(recyclers[v], i)} ELSE {}

NotUnloaded(A) == A \cap unloaded = {}

\* RecyclerManager::unload, of the vouchers A of one call.
unload(A) ==
  /\ A # {} /\ Cardinality(A) <= MaxConsolidation
  /\ NotUnloaded(A)
  /\ unloaded' = unloaded \cup A

TotalAmount(A) == MapThenSumSet(LAMBDA x : Amount(x[1]), A)

Bug_AllRemain(v, i) == Cardinality(RingKeys(recyclers[v], i))

\* How many of the vouchers of a ring were never unloaded.
Remaining(v, i) ==
  Cardinality(RingKeys(recyclers[v], i))
    - Cardinality({x \in unloaded : x[1] = v /\ x[2] = i})

Bug_DustForgotten(v, i) == dusting
Dusted(v, i) ==
  IF \E x \in unloaded : x[1] = v /\ x[2] = i THEN dusting \cup {<<v, i>>} ELSE dusting

clean_recycler(v) ==
  LET i == lastRemoved[v] + 1
  IN
  /\ v \in DOMAIN recyclers /\ i \in DOMAIN recyclers[v].rings
  /\ Expired(recyclers[v].rings[i])
  /\ coinToRecycler' = WithoutAll(coinToRecycler, RingKeys(recyclers[v], i))
  /\ recyclers' = [recyclers EXCEPT ![v] = remove_ring(@, i)]
  /\ dusting' = Dusted(v, i)
  /\ lastRemoved' = [lastRemoved EXCEPT ![v] = i]
  /\ destroyed' = destroyed + Amount(v) * Remaining(v, i)
  /\ UNCHANGED <<tokenVars, setupVars, coinVars, unloaded, held>>

clean_recycler_dust(ring, batch) ==
  LET dust == {x \in unloaded : <<x[1], x[2]>> = ring}
  IN /\ ring \in dusting /\ batch \in BatchOf(dust, DustCleanupBatchSize)
     /\ unloaded' = unloaded \ batch
     /\ dusting' = IF batch = dust THEN dusting \ {ring} ELSE dusting
     /\ UNCHANGED <<tokenVars, setupVars, coinVars, recyclers, lastRemoved,
                    coinToRecycler, fundVars>>

\* The worker of pallets/members.
MembersWork(v) ==
  /\ \/ \E k \in Keys : /\ CanOnboard(recyclers[v], k)
                        /\ recyclers' = [recyclers EXCEPT ![v] = Onboarded(@, k, now)]
     \/ \E page \in (SUBSET recyclers[v].leaving) \ {{}} :
          recyclers' = [recyclers EXCEPT ![v] = delete_ring_page(@, page)]
  /\ UNCHANGED <<tokenVars, setupVars, coinVars, lastRemoved, coinToRecycler,
                 unloaded, dusting, fundVars>>
-----------------------------------------------------------------------------
(* Calls with a coin.  The extension takes the coin before the dispatch; a  *)
(* dispatch that fails puts it back, locked for a time that doubles.       *)

CanUseCoin(a) ==
  /\ assetSet /\ a \in DOMAIN coins
  /\ a \in DOMAIN lockedCoins => now >= lockedCoins[a].until

WithCoins(base, out, age) ==
  [a \in DOMAIN base \cup DOMAIN out |->
     IF a \in DOMAIN out THEN [value |-> out[a], age |-> age] ELSE base[a]]

\* What a call may make coins of: accounts that have none, with values.
Outputs ==
  UNION {[D -> Values] : D \in {D \in SUBSET (Accounts \ DOMAIN coins) :
                                  Cardinality(D) <= MaxSplitOutputs}}

CoinSpent(a) ==
  coins' = Without(coins, a) /\ lockedCoins' = Without(lockedCoins, a)

DispatchFailed(a) ==
  LET retries == IF a \in DOMAIN lockedCoins THEN lockedCoins[a].retries + 1 ELSE 0
  IN lockedCoins' = Insert(lockedCoins, a,
                      [retries |-> retries,
                       until |-> now + 2 ^ retries * CoinFailureLockPeriod])
     /\ UNCHANGED <<tokenVars, setupVars, coins, ringVars, fundVars>>

split(a, out) ==
  /\ CanUseCoin(a) /\ coins[a].age < MaximumAge
  /\ TotalUnits(out) = Units(coins[a].value)
  /\ coins' = WithCoins(Without(coins, a), out, coins[a].age + 1)
  /\ lockedCoins' = Without(lockedCoins, a)
  /\ UNCHANGED <<tokenVars, setupVars, ringVars, fundVars>>

transfer(a, b) ==
  /\ CanUseCoin(a) /\ coins[a].age < MaximumAge
  /\ b \notin DOMAIN coins
  /\ coins' = WithCoins(Without(coins, a), Insert(<<>>, b, coins[a].value), coins[a].age + 1)
  /\ lockedCoins' = Without(lockedCoins, a)
  /\ UNCHANGED <<tokenVars, setupVars, ringVars, fundVars>>

\* A key the members pallet still knows passes the check but fails the call.
load_recycler_with_coin(a, k) ==
  LET new == Insert(<<>>, k, coins[a].value)
  IN
  /\ CanUseCoin(a)
  /\ k \notin DOMAIN coinToRecycler /\ coins[a].value \in DOMAIN recyclers
  /\ IF CanLoad(new)
     THEN /\ CoinSpent(a) /\ load(new)
          /\ UNCHANGED <<tokenVars, setupVars, lastRemoved, unloaded, dusting,
                         fundVars>>
     ELSE DispatchFailed(a)

\* `transferred`: whether the destination takes the amount.
direct_offboard_coin_into_external_asset(a, transferred) ==
  /\ CanUseCoin(a) /\ coins[a].age = 0
  /\ IF transferred
     THEN /\ CoinSpent(a)
          /\ held' = held - Amount(coins[a].value)
          /\ UNCHANGED <<tokenVars, setupVars, ringVars, destroyed>>
     ELSE DispatchFailed(a)

\* What a coin is worth beyond the fee is destroyed.
pay_for_recycler_unload_fee_token_with_coin(a, k, fee, transferred) ==
  LET amount == Amount(coins[a].value)
  IN
  /\ CanUseCoin(a) /\ coins[a].age < MaximumAge
  /\ amount >= fee /\ k \notin paidMembers
  /\ IF transferred
     THEN /\ CoinSpent(a) /\ add_member(k)
          /\ held' = held - fee
          /\ destroyed' = destroyed + (amount - fee)
          /\ UNCHANGED <<setupVars, ringVars>>
     ELSE DispatchFailed(a)

-----------------------------------------------------------------------------
(* Calls of a signed account. *)

\* ..._with_native and ..._with_external_asset.  Within a utility or proxy call
\* the first passes the extension's gate also before the asset is set.
pay_for_recycler_unload_fee_token(k) ==
  /\ add_member(k)
  /\ UNCHANGED <<setupVars, coinVars, ringVars, fundVars>>

load_recycler_with_external_asset(k, v) ==
  /\ assetSet /\ Amount(v) <= Outside
  /\ load(Insert(<<>>, k, v))
  /\ held' = held + Amount(v)
  /\ UNCHANGED <<tokenVars, setupVars, coinVars, lastRemoved, unloaded, dusting,
                 destroyed>>

\* One or a batch.  The extension drops the whole transaction when a load fails.
load_recycler_with_external_asset_unpaid(new) ==
  /\ assetSet /\ DOMAIN new # {} /\ Cardinality(DOMAIN new) <= MaxBatchUnpaidLoad
  /\ Range(new) \subseteq DOMAIN recyclers
  /\ TotalUnits(new) * UnitAmount <= Outside
  /\ load(new)
  /\ held' = held + TotalUnits(new) * UnitAmount
  /\ UNCHANGED <<tokenVars, setupVars, coinVars, lastRemoved, unloaded, dusting,
                 destroyed>>

\* Inputs of several recyclers; the signer pays the fees.
unload_recyclers_into_external_asset_non_anonymous(A) ==
  /\ assetSet /\ unload(A)
  /\ held' = held - TotalAmount(A)
  /\ UNCHANGED <<tokenVars, setupVars, coinVars, recyclers, lastRemoved,
                 coinToRecycler, dusting, destroyed>>

-----------------------------------------------------------------------------
(* Anonymous calls: A are vouchers of one recycler.  They are entitled by a *)
(* token, or pay the fee from the output; then the first voucher is marked *)
(* before the dispatch, and forfeit if it fails.                           *)

Prepaid == SpendToken
FromOutput(A) ==
  /\ \E x \in A : x[1] >= MinimumExponentForOutputUnloadFee
  /\ UNCHANGED tokenVars

unload_recycler_into_coin(A, v, a) ==
  LET n == Cardinality(A)
  IN
  /\ Prepaid /\ a \notin DOMAIN coins
  /\ unload(A)
  /\ \E e \in Values : n = 2 ^ e /\ v + e \in Values
                       /\ coins' = WithCoins(coins, Insert(<<>>, a, v + e), 0)
  /\ UNCHANGED <<setupVars, lockedCoins, recyclers, lastRemoved,
                 coinToRecycler, dusting, fundVars>>

\* What of max_fee is not needed for the fee.
ChangeBurnt(maxFee, fee) == destroyed + (maxFee - fee)

\* max_fee is what the coins lack to the value of the vouchers.
unload_recycler_into_coins(A, out, fee) ==
  LET maxFee == TotalAmount(A) - TotalUnits(out) * UnitAmount
  IN
  /\ unload(A)
  /\ \/ /\ Prepaid /\ maxFee = 0
        /\ UNCHANGED fundVars
     \/ /\ FromOutput(A) /\ maxFee >= fee
        /\ held' = held - fee
        /\ destroyed' = ChangeBurnt(maxFee, fee)
  /\ coins' = WithCoins(coins, out, 1)
  /\ UNCHANGED <<setupVars, lockedCoins, recyclers, lastRemoved,
                 coinToRecycler, dusting>>

\* The fee goes from the hold to its destination, the rest to the receiver.
unload_recycler_into_external_asset(A, fee) ==
  /\ unload(A)
  /\ Prepaid \/ (FromOutput(A) /\ TotalAmount(A) >= fee)
  /\ held' = held - TotalAmount(A)
  /\ UNCHANGED <<setupVars, coinVars, recyclers, lastRemoved, coinToRecycler,
                 dusting, destroyed>>

unload_recycler_into_external_asset_and_vouchers(A, new, fee) ==
  LET external == TotalAmount(A) - TotalUnits(new) * UnitAmount
  IN
  /\ DOMAIN new # {} /\ external >= 0
  /\ unload(A) /\ load(new)
  /\ Prepaid \/ (FromOutput(A) /\ external >= fee)
  /\ held' = held - external
  /\ UNCHANGED <<setupVars, coinVars, lastRemoved, dusting, destroyed>>

\* A dispatch may fail for the proofs that only it verifies.
PrepaidUnloadFails(A) ==
  /\ A # {} /\ Prepaid
  /\ UNCHANGED <<setupVars, coinVars, ringVars, fundVars>>

FromOutputUnloadFails(x) ==
  /\ FromOutput({x}) /\ unload({x})
  /\ destroyed' = destroyed + Amount(x[1])
  /\ UNCHANGED <<setupVars, coinVars, recyclers, lastRemoved, coinToRecycler,
                 dusting, held>>

-----------------------------------------------------------------------------
NewVouchers ==
  UNION {[S -> Values] : S \in SUBSET (Keys \ DOMAIN coinToRecycler)}

CoinNext ==
  \E a \in Accounts :
    \/ \E out \in Outputs : split(a, out)
    \/ \E b \in Accounts : transfer(a, b)
    \/ \E k \in Keys : load_recycler_with_coin(a, k)
    \/ \E ok \in BOOLEAN : direct_offboard_coin_into_external_asset(a, ok)
    \/ \E k \in PaidKeys, fee \in Fees, ok \in BOOLEAN :
         pay_for_recycler_unload_fee_token_with_coin(a, k, fee, ok)

SignedNext ==
  \/ \E k \in PaidKeys : pay_for_recycler_unload_fee_token(k)
  \/ \E k \in Keys, v \in Values : load_recycler_with_external_asset(k, v)
  \/ \E new \in NewVouchers : load_recycler_with_external_asset_unpaid(new)
  \/ \E A \in SUBSET UNION {Vouchers(v, i) : v \in Values, i \in 1..MaxRings} :
       unload_recyclers_into_external_asset_non_anonymous(A)

AnonymousNext ==
  \E v \in Values, i \in 1..MaxRings :
    \E A \in SUBSET Vouchers(v, i) :
      \/ \E a \in Accounts : unload_recycler_into_coin(A, v, a)
      \/ \E out \in Outputs, fee \in Fees : unload_recycler_into_coins(A, out, fee)
      \/ \E fee \in Fees : unload_recycler_into_external_asset(A, fee)
      \/ \E new \in NewVouchers, fee \in Fees :
           unload_recycler_into_external_asset_and_vouchers(A, new, fee)
      \/ PrepaidUnloadFails(A)
      \/ \E x \in A : FromOutputUnloadFails(x)

MaintenanceNext ==
  \/ set_underlying_asset_id
  \/ do_initialize
  \/ \E v \in Values : clean_recycler(v)
  \/ \E ring \in dusting, batch \in SUBSET unloaded : clean_recycler_dust(ring, batch)
  \/ \E v \in DOMAIN recyclers : MembersWork(v)
  \/ TokenMaintenance /\ UNCHANGED <<setupVars, coinVars, ringVars, fundVars>>

Next == CoinNext \/ SignedNext \/ AnonymousNext \/ MaintenanceNext

Spec == Init /\ [][Next]_vars

-----------------------------------------------------------------------------
\* Coins, and the vouchers that were not unloaded: of keys that wait and of
\* rings that were not cleaned, also when they expired.
Circulating ==
  LET waiting == {x \in (DOMAIN recyclers) \X Keys : x[2] \in recyclers[x[1]].waiting}
      inRings == {x \in (DOMAIN recyclers) \X (1..MaxRings) \X Keys :
                    x[3] \in RingKeys(recyclers[x[1]], x[2])}
  IN MapThenSumSet(LAMBDA a : Amount(coins[a].value), DOMAIN coins)
       + TotalAmount(waiting) + TotalAmount(inRings \ unloaded)

\* Everything that circulates is backed, through loads, unloads, fees, burnt
\* change, forfeits of failed calls and expiry: whatever a call does to coins,
\* rings and aliases is a step of the ledger.
Ledger == INSTANCE WrappedLedger WITH circulating <- Circulating
ImplementsLedger == Ledger!LedgerSpec

\* A key is registered for the recycler that holds it, once, and until its ring
\* is cleaned; the alias of an unloaded voucher is remembered while its ring
\* exists, and afterwards only while its removal is still to come.
RecyclersExact ==
  /\ \A k \in Keys, v \in Values :
       LET c == recyclers[v]
       IN (k \in DOMAIN coinToRecycler /\ coinToRecycler[k] = v)
            <=> v \in DOMAIN recyclers /\ k \in c.waiting \cup AllRingKeys(c)
  /\ \A k \in DOMAIN coinToRecycler :
       LET c == recyclers[coinToRecycler[k]]
       IN Cardinality({i \in DOMAIN c.rings : k \in c.rings[i].keys})
            = (IF k \in c.waiting THEN 0 ELSE 1)
  /\ \A x \in unloaded : x[3] \in RingKeys(recyclers[x[1]], x[2])
                         \/ <<x[1], x[2]>> \in dusting
  /\ \A ring \in dusting : ring[2] <= lastRemoved[ring[1]]
==============================================================================
