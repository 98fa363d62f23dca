# The personhood pallets of the Paseo runtimes in TLA+

This directory specifies, model-checks and proves properties of the
personhood infrastructure in `src/pallets/` of the Paseo runtimes repository.
Three protocols are modelled:

* the path of a member key: it is onboarded into a ring on the People chain
  (`members`), the root of the ring changes, the change is announced
  (`members-notifier`), travels over XCM to subscribing parachains
  (`members-subscriber`) and is there used to check membership proofs;
* the path to personhood: a candidate applies, commits to a design and submits
  evidence (`proof-of-ink`), people vote on it and are rewarded (`mob-rule`);
* anonymous coins: an asset is wrapped in coins, coins become vouchers in rings
  of members and are unloaded again by anonymous proofs (`coinage`).

All pallets are state machines driven by transactions. A transaction is
atomic, so concurrency is the interleaving of transactions by owners, users,
anyone and the offchain workers, and of the chains. Offchain workers read
storage, decide what is due and submit an unsigned call that is included later,
against a state that may have changed; each such call has an `authorize` or
`ensure_can_*` check that is evaluated again at inclusion.

## 1. Inventory

### The core

| Component | State | Operations | Interacts with |
|---|---|---|---|
| `members` (`pallets/members`) | `Collections`, `SuspendedCollections`, `OnboardingSize`, `RingsState`, `Members`, the paged `OnboardingQueue` with `QueuePageIndices`, `CurrentRingIndex`, `RingKeys` (ring, page), `RingKeysStatus`, `PendingSuspensions`, `ActiveMembers`, `StaleRings`, `RingDeletionQueue`, `Root`, `OldRoots` | owner traits `AppendOnlyMembers`, `FlexibleMembers` (create, add, sessions, remove members, remove ring, delete collection); calls `merge_rings`, `self_include`, `set_onboarding_size`; offchain maintenance: remove suspended keys, merge queue pages, onboard, build, mark stale, clean old roots, delete pages, rings, queue, collection | owners: people-multi (flexible), people-lite and coinage (append-only); `OnRingRootChange` and `RingRootsProvider` towards the notifier |
| `members-notifier` | `Subscribers`, `PendingInit`, `SealedBatchSequence`, `PageState`, `PendingUpdates`, `PageUpdatesCount`, `CurrentBatch`, `SealedBatchIndices`, `SubscribersWithCurrentBatch`, `ReplayCooldowns` | hook `on_ring_root_change`; `subscribe`, `unsubscribe`, `request_replay`; worker: `enqueue_updates`, `send_batch`, `send_init_page`, `abandon_stuck_batch` | reads roots from members; sends `initialize_ring_roots`, `update_ring_roots`, `terminate_subscription` |
| `members-subscriber` | `Subscription`, `RingRoots` (a window of recent roots per ring), `RingCollectionStates` (count, next index, missing and deleted indices), `RingCollectionExponents`, `ProcessingState` | the three calls of the notifier; `terminate_subscription` by local governance; worker: `replay_missing_roots`; `MembershipProver` | sends `unsubscribe` and `request_replay` |
| synchronisation | the two HRMP channels and both pallets | delivery in order per channel | origins as configured in `people-paseo` |

### On top of it

| Component | State | Operations | Interacts with |
|---|---|---|---|
| `mob-rule` | `OpenCases`, `RipeCases`, `DoneCases`, `Votes`, `Credits`, `VotingPenalties`, `VotingPoints`, `AccumulatedPoints`, `PayoutDistribution`, `RoundSchedules`, `ActiveSince`, holds on the pot | `vote`, `touch_case`, `claim_vote(s)`, `claim_credit`, `payout_rewards`, cleaning calls, payout schedules and rounds, `intervene`; worker: `close_case`, `force_ripen_case`, `clean_vote`, `reap_case`; `on_poll` watches the number of people | called as `StatementOracle`, calls its owner back |
| `proof-of-ink` | `Candidates`, `People`, `ReferralTickets`, invites, `CommittedDesigns`, `AllocationCount`, `Configuration`, reimbursements | three ways to apply, `commit`, `submit_evidence`, the callback `judged`, `timeout`, `flakeout`, registration as referred or not, tickets, invites, configuration | the oracle, the ids of `people-multi`, its own transaction extension |
| `coinage` | `Coins` with age, `LockedCoins`, recyclers (one collection per value) with `RecyclersCoinToRecycler`, unloaded aliases and dust, free and paid unload tokens, `TotalValueOfDestroyedCoins` | make, split, transfer, load, unload (as coins, as asset, into new vouchers), pay for tokens; worker: clean recyclers, tokens and dust; the extension `AsCoinage` | `members` through `AppendOnlyMembers`, the asset on hold |

Hard behaviours. *Members*: a key can be in three places at once (queue, a
slot pending suspension, a new slot); counters (`total`, `included`,
`ActiveMembers`, head and tail) are kept by hand in many calls; the worker's
snapshot is stale; deletion takes many transactions. *Notifier*: chains leave
and return while a batch is distributed; pages wrap; batches time out; roots
change between the pages of an initialisation, which follow hash order.
*Subscriber*: messages are lost (skipped or abandoned batches), repeated
(batches resent after a partial failure, replays) and carry older sequence
numbers; index sets have limits. *Mob-rule*: a case has
four ways out while its closing call is pooled, votes change under it, and
points, credit and holds belong to three different rounds at a time.
*Proof-of-ink*: verdicts come after the candidate timed out and applied again;
ids, designs, deposits, referrals and allocations are released by hand on five
ways out. *Coinage*: the extension takes something before dispatch and settles
afterwards; rings expire with vouchers in them; what is spent has to be
forgotten, but not before it could be spent again. *Together*: termination on one side races
messages in flight, and only gaps in the index space are ever repaired.

What makes them correct, in a sentence each: every key is where its record
says and counters agree with what is stored; a root commits to exactly the
included keys and one accepted revision never stands for two key sets; no work
is forgotten and all of it is done in the end; a batch is kept until everyone
was served or it timed out; the subscriber's books are straight whatever it
receives; when nothing about a ring is on the way, the subscriber accepts
exactly its current root; a case is answered once, and always; nobody is proven
by a verdict on something else; everything that circulates is backed; and no
token or voucher is used twice.

### The other parts

| Component | What it does | Correct when |
|---|---|---|
| people-multi | recognises and suspends people, personal ids, alias accounts; owns a flexible collection | a person's record, key and alias stay one-to-one through suspension and key migration |
| people-lite | attests lite people into an append-only collection | allowances are not exceeded, consumers are registered once |
| score, game | score and the phases of a game, payouts | phases follow their schedule, no participant is processed twice |
| airdrop, pgas, honour, resources | rewards, names and allowances on top of membership proofs | nothing is claimed twice, totals are conserved |
| alias-accounts, origin-restriction, chunks-manager, value-transfer-auth, storage-initialization, dummy-dim, dotns-gateway | small supporting pallets | local invariants |
| runtimes, precompiles, chain specs, weights | configuration and data | - |

`PROJECT.json` lists every component with its status, and, under `hazards`,
what is hard to test in the modelled code, each at its line.

## 2. Plan

1. `RingUpdates`, `MembersNotifier`, its proofs (done).
2. `MembersSubscriber` against arbitrary messages (done).
3. `RingRootSync`, which composes 1 and 2 over channels (done).
4. `Members` with its two modes (done).
5. `StatementOracle` as the promise between applications and voting; `MobRule`,
   shown to implement it; `ProofOfInk`, built on it (done).
6. `AppendOnlyCollections`, `UnloadTokens`, `Coinage` and the promise
   `WrappedLedger` it is shown to implement (done).
7. Next: `people-multi` and `people-lite` as owners of collections with the
   alias accounts; `score` and `game`; then `airdrop`, `pgas`, `resources`,
   `honour` and `origin-restriction` as small modules. `Members` composed with
   `MembersNotifier`, so that the provider of roots is the real one.
8. Proofs (section 6): every safety invariant and action property of the
   passing runs and both refinements, `MobRule` of `StatementOracle` and
   `Coinage` of `WrappedLedger` (done). What item 7 adds comes with its proofs.

## 3. Modules and their correspondence to the code

Storage items are variables with the item's name in camel case, a storage map
is a function with the present keys as its domain (or with a default value
where the code uses `ValueQuery`). Every call, hook and offchain submission is
one action with the whole handler in it; a call that returns an error changes
nothing and needs no action. Definitions keep the names of the Rust functions;
`PROJECT.json` maps each one to its lines.

* `RingUpdates` - what the pallets share: the ring operation (a revision or
  `Deleted`), chunking, insertion into and removal from maps.
* `MembersNotifier` - one notifier and any number of parachains. The provider
  of roots is an environment (`ProviderActions`): rings at or below the current
  index are built, rebuilt and removed, and every change calls
  `on_ring_root_change`. Channels open, close and change size. `Executed`
  takes messages out of a channel. Ages saturate at the thresholds that read
  them, and page numbers wrap at `PageModulus` (2^16 in the code).
  `StorageRank` is the hashed order in which `Root` is iterated; `StorageOrder`
  assumes that no two rings have one place in it.
* `MembersSubscriber` - one subscriber against any element of `Messages`, in
  any order. A root is its revision. `batchWait` and `replayWait` are the two
  cooldowns counting down, `replayPool` is the call in the transaction pool.
* `RingRootSync` - extends the notifier and instantiates the subscriber on one
  chain, `Chain`. HRMP is reliable and ordered; losses are what the pallets do.
  `excused` and `gaveUp` are history variables: keys that were lost to this
  chain (their batch was skipped, abandoned or arrived while the subscription
  was not active, or a local termination threw them away) and not sealed
  again since, and indices whose replay was given up.
  `EnsureSubscriberOrigin` says whether the runtime lets the subscriber's
  `unsubscribe` through; in `people-paseo` it does not (section 7).
* `Members` - one collection, `AppendOnly` or not. A root is the set of keys
  it commits to; the delay of self-inclusion and the retention of old roots
  may have run out at any time. `announced` is a history variable: what
  `OnRingRootChange` was told last. Collections are independent in the code
  but for `MaxCollections`, so one is enough.
* `StorageMaps` - partial functions as storage maps.
* `StatementOracle` - the trait of `support/src/traits/reality.rs` as a
  specification: a statement gets a ticket, and a ticket is called back at some
  later time and at most once.
* `MobRule` - all calls, the poll hook and the worker. Times are ages, capped
  where no condition tells them apart any more. The number of people is an
  environment (`people_change`). `Perbill` arithmetic is integer arithmetic
  with `Accuracy` parts, with the code's rounding. `unbacked` is a history
  variable: what schedules of no rounds put into rounds without holding it.
* `ProofOfInk` - extends `StatementOracle`: the oracle may answer any pending
  ticket with any judgement at any time, and a callback that fails uses up its
  ticket. Personal ids are reserved, given up and recognised as in
  `people-multi`. `since_ticket` is a history variable: the first ticket of the
  candidate's present attempt.
* `AppendOnlyCollections` - `Members` in append-only mode as its users see it:
  keys wait, rings fill in turn, and a removed ring's keys stay known until
  its pages are gone.
* `UnloadTokens` - free and paid tokens, and their cleaning in steps; a
  specification of its own and the part of `Coinage` that entitles to unload.
  `spent` and `bought` are history variables.
* `Coinage` - coins, recyclers, fees and the extension `AsCoinage`: each call is
  one action, with what the extension takes before dispatch and settles after
  a failure.
* `WrappedLedger` - what coinage promises: value enters by deposit, leaves by
  withdrawal, is moved or destroyed, and what circulates is on hold.
  `ImplementsLedger` maps `circulating` to the value of all coins and of all
  vouchers not unloaded.
* `StorageMaps_proofs` - lemmas about maps, sums, sequences and finite sets that
  the other proofs cite; `MembersNotifier_proofs`, `MembersSubscriber_proofs`,
  `RingRootSync_proofs`, `Members_proofs`, `MobRule_proofs`,
  `ProofOfInk_proofs`, `Coinage_proofs` - section 6. A few operators of the
  models have a form the provers can unfold: `RemoveFirst` of `Members` is
  written without the library's recursion, and `Coinage` makes a map of one
  entry with `Insert`, not with `:>`.
* `MC*` - instances for TLC. `MCMembersFlexible` starts where merging is
  possible: two rings that were filled, thinned to one member each by removal
  sessions and rebuilt (revision 2); reaching this from an empty collection
  takes more keys than can be explored.

A definition `Bug_X` in a module is a deliberate mistake in the definition
after it (a dropped guard, an off-by-one, a missing reset) and is used by no
specification. Each property was seen to fail with one of them.

## 4. Runs

| Run | Instance | Shows |
|---|---|---|
| `notifier_safety` | 2 chains, 2 rings built and removed, 3 pages, batches of 1, channels that close, no replays (the `sync_*` runs have them) | `remaining_subscribers` is exact whoever leaves, returns or is served; page counters agree with pages across the wrap; a batch is cleared only when served or timed out |
| `subscriber` | 3 rings, every message of up to 2 updates (no deletion in an initialisation) with 2 sequences, limits 2 | counts and index sets are exact against any stream; nothing survives termination; a missing index is asked for a bounded number of times and is then resolved, if the worker is not held off for ever |
| `sync_replay` | 2 rings, batches of 2 in messages of 1, channels that close, the subscriber's worker on, unsubscription and new subscription | settled rings are mirrored exactly although batches are refused in part, resent, abandoned and replayed; every ring lost with a batch is stored, deleted, missing or given up; governance leaves no orphaned subscriber |
| `sync_liveness` | 2 rings, the first of them rebuilt, threshold 2, replays requested by third parties, local termination | a new revision replaces the old one in the mirror; a chain that stays registered gets in sync and stays so, apart from lost keys (`excused`) |
| `members_flexible` | 3 keys, rings of 4, a session, merging, self-inclusion, 2 queue pages | queue, slots, counters and roots agree; no work is forgotten (so `mark_ring_stale_authorized` is never needed); the current ring has room; an accepted revision keeps its meaning |
| `members_append_only` | 3 keys, rings of 2 in pages of 1, removal and deletion | slots, records and counters while rings, though never the one being filled, are removed and deleted piecewise; every root change is announced; immutable rings are frozen; a deleted collection leaves nothing; deletion completes |
| `members_liveness` | 2 keys, rings of 2, queue pages of 1, a session, self-inclusion | after the last session all suspensions are cleared, the queue is empty and every key is covered by a root |
| `mob_rule` | 2 voters, a case, a schedule of two rounds and one of none, amounts that do not divide evenly, people below and above the threshold | tallies count the votes that are stored; the running round covers every claim, with rounding; holds equal promises, but for what a schedule of no rounds starts without holding it; the oracle's promise (refinement); with enough people every case is judged, voted on or not |
| `proof_of_ink` | 2 accounts, an inviter, a person who refers with 2 tickets, one elective design, 2 verdicts | counts, deposits, references and referrals agree with the candidates whichever way a candidacy ended; ids and designs have one holder; there is room for every ticket given away; late verdicts prove nobody |
| `unload_tokens` | 1 person, 2 paying keys, periods of 2 and 1 with a grace of 1, batches of 1 | no token is spent twice although spent ones are forgotten; who paid keeps the token until it expires; what expired is forgotten |
| `coinage` | 3 keys, 3 accounts, 2 values, rings of 2, 4 units, failing calls, expiry | whatever calls, failures, fees and cleaning do is a step of the ledger (refinement); keys and aliases are remembered exactly as long as needed |
| `sync_origin` | small | the difference of section 7 (a violation) |

**Bounds.** They are named constants (`MaxRingIndex`, `MaxRevision`,
`MaxQueued`, `MaxRequests`, `MaxSessions`, `MaxCreations`, `MaxCases`,
`MaxRounds`, `MaxAge`, `MaxIds`, `MaxTickets`, `MaxRings`, `MaxNow`, `Supply`)
and guards. Deployed limits are larger (notifier: 10 subscribers, batches of 10,
stuck after 100 blocks; subscriber: 255 missing and 100 deleted indices, windows
of 3, giving up at 10) and enter comparisons only; the instances take values at
which every comparison goes both ways: pages fill and wrap, windows evict, index
sets are full (in `subscriber`; the `sync_*` runs have room for every ring), a
ring is filled by a cohort and by self-inclusion, an initialisation takes
several pages. Two chains suffice for the notifier's interplay since batches are
per chain apart from the counter, which is proved for any number. Two rings are
needed for gaps, out-of-order pages and chunks. A session and three keys are
needed for a key in two places, a full ring with pending slots, and merging with
a third member waiting. `MobRule` has no interplay of cases but through voters
and rounds, so one case with two voters and two rounds meets every order of
vote, close, claim, clean and pay. `ProofOfInk` needs two candidates for a
design or id given up by one and taken by the other, and two tickets of the
oracle for a verdict that comes late. `UnloadTokens` needs time for a period,
its grace and the next one; `Coinage` three keys for a full ring with a voucher
in the next. `CHECK_DEADLOCK FALSE` is set for `Members`, `UnloadTokens` and
`Coinage`: a collection that is deleted, or whose sessions and revisions are
used up, may have nothing left to do, and time ends at `MaxNow`.

What the instances do not reach: the `sync_*` runs have one collection;
`sync_replay` has one place in the channel and batches of two messages, so that
a batch refused in part is skipped or abandoned and never completed
(`MirroredCorrect` covers completion), and `NoOrphan` is checked there without
local termination. In `subscriber` the limit of `clear_all_ring_data` covers all
that can be stored, in `notifier_safety` the page numbers never meet unsent
pages (`BacklogBelowWrap`, an assumption of the model that no guard of the code
ensures), and with `MaxNow` = 3 the ten periods after which the worker gives up
free tokens are not over. `members_liveness` has an onboarding size of 1. In
`mob_rule` one schedule at a time is waiting, which the theorems do not assume;
a round of the empty schedule may be followed by those of the other, whose holds
its leftover then takes. `TicketsHonoured` is about room: a ticket whose
referrer was banned is refused by another check. `PaidTokensKept` counts a key
that waits for its ring as kept.

**Symmetry** is used in runs without liveness only: of chains (`notifier_safety`),
of accounts and tickets (`proof_of_ink`), of accounts and keys (`coinage`).

## 5. Fairness

The offchain workers run in every block and submit what is due for as long as
it is due, and pooled calls leave the pool by inclusion or longevity: weak
fairness for maintenance calls, sealing and clocks. Sends get strong fairness:
the worker retries each block, so a send goes through if the channel has room
again and again. Replays of the subscriber get strong fairness since batches
may hold the worker off again and again. Nothing is assumed of owners, users,
governance, abandonment, or of a channel being open.

`MobRule`: every block has a timestamp and polls the pallet, and the worker
submits `close_case` and `force_ripen_case` for as long as they are valid: weak
fairness of the clock, the poll hook and these two. Nothing is assumed of
voters; `EveryCaseJudged` only asks that the number of people stays at or above
the threshold, below which the code disables expiry. `UnloadTokens`: weak
fairness of time and of what the worker really submits, which is cleaning free
tokens of the last ten periods, paid ones of the oldest period, and dust.

`MissingResolved` states what is needed beyond this: batches must pause, and
`deleted_indices` must not stay full, since the worker ignores a collection
whose `deleted_indices` is full.

## 6. Proofs

Every theorem holds for all values of the constants that satisfy the named
assumptions of its module: the integrity test of the pallet, the finiteness of
the sets of chains, voters, accounts and collections, that the order of a
storage map is total (`StorageOrder`), and the shapes of the parameters. No
theorem fixes a number of chains, keys, rounds or messages. Where a theorem has
a hypothesis of its own, it is named below with the reason; the runs that check
the property satisfy it, but for `sync_liveness` (see `MirroredCorrect`).

**`MembersNotifier_proofs`**

* `TypeCorrect`: `Spec => []TypeOK`.
* `RemainingCorrect`: `Spec => []RemainingExact`. The counter alone is not
  inductive. `BatchInv` adds that who received the batch is subscribed, that
  nobody was initialised at a later sequence than the last sealed one, that an
  active batch carries that sequence, and that no receiver is recorded without
  a batch. The second fact is needed when a chain unsubscribes and returns
  during a batch: its `last_init_sequence` is then the batch's own sequence
  and it must not be counted; the third when sealing, where all present
  subscribers have to be counted. `DropExact` carries the argument: taking one
  awaited chain out lowers the cardinality by one and clears the batch with
  the last.
* `ClearedOnlyWhenServedCorrect`: the action property, from the same invariant.
* `PagesCorrect`: `Spec => []PagesExact`. The window from `send_page` to
  `write_page` is kept as a distance modulo `PageModulus` (`Behind`), which
  grows and shrinks by one (`WindowGrows`, `WindowShrinks`). It cannot come
  round because `ProviderActions` is guarded by `BacklogBelowWrap`, the
  assumption that fewer than 65535 pages are waiting.

**`MembersSubscriber_proofs`**

* `StateExactCorrect`, `NothingKeptCorrect`: under `ClearsAll`, for any set
  `Messages` of well-formed messages in any order. `SubscriberInv` is the two
  properties and the types. `ClearsAll` says that `ClearLimit` covers all
  windows; without it both are false, because what `clear_all_ring_data` leaves
  over is not counted any more (section 7). `TrackedExists` shows that the
  choice in `TrackedDeletions`, which stands for the loop over a message's
  deletions, always has a solution, and `TrackedBound` that it keeps the limit.

**`RingRootSync_proofs`** instantiates the subscriber's lemmas, after proving
the assumptions they rest on.

* `NoOrphanCorrect`: if neither router refuses a termination and the notifier
  does not execute `unsubscribe` of a subscriber that can terminate locally,
  then no subscriber accepts proofs unknown to the notifier. `OrphanInv` adds
  what is under way: while the chain is not registered, every initialisation
  in its channel is followed by a termination. The hypotheses are those of the
  runs and both are needed (section 7).
* `GapsTrackedCorrect`: every ring below the subscriber's `next_ring_index` is
  stored, deleted, missing or given up, through skipped, abandoned, refused
  and replayed batches. `GapInv` adds the provider's side (only rings that
  were built are pending or sealed, and the ring being filled is never a
  deleted one, so each message names only rings below its `next_ring_index`),
  the types of both channels and `SubscriberInv`. The hypothesis `Roomy` is
  `ClearsAll` and `RoomForAll`: the index sets have room for every ring, so
  below 100 rings of a collection with the deployed limits. Beyond it the
  property is false, as section 7 says of `detect_missing_rings_in_batch`.
* `MirroredCorrect`: once nothing about a ring is under way, the subscriber
  accepts proofs against exactly its current root. The hypotheses are those of
  `sync_replay`: no local termination, terminations that are sent, and
  `ClearsAll`. Each excludes a case that section 7 describes, in which the
  subscriber is left with a root that nothing under way will correct.
  What has to be invariant is not what the subscriber stores but what it will
  store when it has handled everything in its channel. `View` is the part of a
  subscriber that `Mirrored` reads and `Handled(v, m)` what a message makes of
  it (`ReceivedView` shows that the handlers do exactly that).
  `Leads(Present, outbox, e)` says that the messages under way take the
  subscriber of now to the view `e`, and `MirrorInv` that there is such an end
  with `EndsRight(e)`: every ring that is settled and that the initialisation,
  if one is going on, has passed in the order of storage (`Swept`) has its
  current root there; every collection begun has its exponent (`Begun`); and
  the last sequence is not ahead of `sealedBatchSequence`. A step then either
  appends messages and carries the end on (`UpdatesLead`, with `BatchCarries`:
  the chunks of a batch name every sealed key and carry its current root), or
  takes the first one and moves the present along, or changes which rings are
  settled. `PageAll`, `PageUpTo` and `InitAdvances` follow an initialisation
  page by page while roots change in front of it and behind it;
  `MirrorSeal` and `MirrorLost` treat batches that are sealed, abandoned or
  skipped.

**`Members_proofs`**

* `QueueExactCorrect`, `SlotsExactCorrect`, `CountsExactCorrect`,
  `RootCommitsCorrect`, `WorkTrackedCorrect`, `CurrentOpenCorrect`,
  `DeletedCleanCorrect`: under `Supported`, for any keys, queue pages and ring
  pages. None of them is inductive alone. `MembersInv` joins them and adds
  what they need of each other: that slots pending suspension exist
  (`SlotsInv`); how `total` keys fill the pages of a ring, that rings from the
  current one on have room, and that the pages of a removed ring wait for
  deletion (`RingsInv`); that roots and stale rings are of rings with a status
  (`RootsInv`, `StaleInv`); what each mode never has (`ModeInv`); and that a
  collection is created where nothing was left behind (`NoneInv`).
  `CountsExact` and `WorkTracked` follow from it.
* `ImmutableFrozenCorrect`: the action property, from the same invariant.
* `RootsAnnouncedCorrect`: under `AppendOnly` as well, as section 7 says of
  `remove_suspended_keys`; `AnnouncedInv` says of each root what was announced.
* `RevisionsStableCorrect`: the action property, under `UsedOnce` as well, from
  `OldRootsInv`: an old root is older than its ring's root, or its ring has
  ended (`Spent`) and is none that others are merged into.

`Supported` says that rings and collections are deleted in append-only mode
only and that such collections do not merge rings: coinage is the only owner
that deletes, its collections are append-only, and `merge_rings` is documented
for flexible collections, which have one page. `UsedOnce` says that the
collection is created once and that no ring is merged away and merged into
afterwards; a collection created anew, or such a ring, starts at revision 0
again and the property is then false (section 7).

**`MobRule_proofs`**

* `CasesDisjoint` and `MobRuleImplementsOracle`: a case is open, ripe or done
  and never two of these (`CaseInv`), so each step maps to a step of
  `StatementOracle` or to a stutter.
* `VotesCountedCorrect`: tallies and the voters' records are the cardinalities
  of the stored votes (`VotesInv`), through votes withdrawn, changed, claimed
  and cleaned.
* `CasesAnsweredOnce`: the number of callbacks and of cases still pending is the
  number of cases ever opened, in `MobRule` itself and for any number of cases:
  no way out of a case calls its owner twice or drops it unanswered.
* `PointsCoveredCorrect`, `HoldsAccountedCorrect`: `MoneyInv` relates points, the
  running round, credit and the three kinds of funds. What is promised exceeds
  what is held by at most `unbacked`, a history variable that adds up what
  schedules of no rounds put into rounds; without such a schedule it stays 0 and
  the holds are exact. The claims that remain
  are a sum of roundings, which the next claim lowers by no more than what it
  is paid. `RewardTypes` adds that nobody holds points of a round that has not
  begun.

**`ProofOfInk_proofs`**

* `BooksCorrect`, `IdsAndDesignsCorrect`, `TicketsHonouredCorrect`: every
  action is first shown to have one of a few effects on the books
  (`InkEffect`: applying, committing, proving, flaking, dropping,
  registering), and each effect to keep `InkInv`.
* `ProvenByOwnEvidenceCorrect`: the action property, from `EvidenceInv`: the
  statements a candidate waits for were submitted in its present attempt and
  as strictly as its allocation asks for. It is carried over `InkInv`, whose
  types say that the pending tickets are those with a statement and that all
  lie below the next one.

**`Coinage_proofs`**

* `TokensSpentOnceCorrect`: `SpentInv` says how long a spent token is
  remembered: a free one while its period is accepted, a paid one until its
  period expires. Cleaning only ever forgets what lies before.
* `PaidTokensKeptCorrect`: `KeptInv` follows a bought key from the waiting
  list into a ring, and says that registered keys are the keys of the existing
  collections, which are disjoint.
* `ComposedTokensCorrect`: both hold in the whole pallet too, since every step
  of `Coinage` is one of `UnloadTokens` or leaves its variables alone
  (`TokenPart`).
* `RecyclersExactCorrect`: `RecyclerInv` says that the rings up to the last one
  removed are empty and the one being filled is not among them
  (`RingsRemovedInOrder`), that a key is registered for the recycler that
  holds it and for no other (`KeysRegistered`), and that the aliases remembered
  are of keys in their ring or of a removed ring still to be cleaned
  (`AliasesKept`).
* `BackedCorrect`, `ImplementsLedgerCorrect`: coinage implements
  `WrappedLedger`, and so what is on hold is what circulates and what was
  destroyed. `circulating` is the sum over all coins (`CoinTotal`) and all
  vouchers not unloaded, by their place in a recycler (`LiveTotal`).
  `PalletInv` joins the invariants above with `Backed`, and each call is shown
  to be a deposit, a withdrawal or a move by what it does to the two sums. A
  voucher unloaded into coins needs that the coins of a split amount to its
  value (`PowerSum`); `clean_recycler` needs that the value it adds to
  `TotalValueOfDestroyedCoins` is that of the vouchers it forgets.

**`StorageMaps_proofs`** holds the lemmas these share: finite maps and their
sums, lists without repetition, page numbers modulo n, places in an order,
powers of two. `MapThenSumSet` of the
community modules is defined by recursion over a `CHOOSE` of an iterator, which
the provers cannot unfold; a sum is therefore related to the cardinality of a
set of units (`Total`, `SumsUp`, `SumsUpUnique`), where adding, removing and
changing one summand are facts about finite sets. Induction over a natural
number is done by a least counterexample (`MinExists`), since the library's
induction theorems take an operator.

Only model-checked: all liveness (`MissingResolved`, `EventuallyInSync`,
`Maintained`, `DeletionCompletes`, `EveryCaseJudged`, `ExpiredForgotten`), which
with fairness and `ENABLED` is out of the prover's reach; `Mirrored` with local
termination, which holds for the one collection of `sync_liveness` and not for
two (section 7); and `EndsOnBothSides`, which is violated. Every other property
of a run is a theorem. Each inductive invariant was model-checked on the
instances of the runs before it was proved.

## 7. Differences between code and documentation

Shown by a run that TLC finds violated:

* `sync_origin`: `send_to_notifier` sends `unsubscribe` with the sovereign
  account's origin, which `people-paseo` turns into a signed origin, while the
  call wants a sibling parachain origin. A subscriber that was terminated
  locally goes on being served.

Met while modelling and described here without a run of their own:

* members: `remove_suspended_keys` replaces a ring's root by the empty one
  without `on_ring_root_change`. If a key is kept the ring is rebuilt and
  announced later; if none is, subscribers keep the old root. `RootsAnnounced`
  is therefore checked for append-only collections.
* members: a ring that was merged away and is then merged into is built anew at
  revision 0, and its earlier revisions in `OldRoots` are accepted again.
  `merge_rings` does not check the mode either; on an append-only collection
  with several pages it moves page 0 and drops the status of the rest.
* `detect_missing_rings_in_batch` scans the new indices of a batch only; the
  documentation of the message says it scans all from 0. A ring passed over
  because `missing_indices` or `deleted_indices` was full is not found again.
* `initialize_ring_roots` with a higher sequence re-initialises an active
  subscription; the documentation of the call says it is rejected.
* An initialisation page in flight makes a locally terminated subscriber active
  again. In a runtime that lets `unsubscribe` through, it is then active and
  unregistered for good, until governance acts; `NoOrphan` is therefore checked
  without local termination.
* Such a page names the rings of one collection. Updates of another collection
  that follow are stored, but the collection has no entry in
  `RingCollectionExponents`, which `initialize_ring_roots` alone writes
  (`lib.rs:454`) and the verification of a proof reads (`lib.rs:952`): its
  proofs are refused until the chain is initialised again. `MirroredCorrect`
  has therefore the hypothesis that there is no local termination.
* `clear_all_ring_data` stops at `MaxCollections * MaxRingRootsPerCollection`
  roots, a number that insertion does not respect. `NothingKept` is checked
  with a limit that is large enough.
* If the terminate message of `unsubscribe` cannot be sent and the chain is
  subscribed again before a batch was sealed, rings deleted in between survive
  on the subscriber: the initialisation has the old sequence and clears
  nothing. `Mirrored` is checked with `TerminateMayFail = FALSE`.
* Suspending all keys of a queue page leaves an empty page between head and
  tail, which a `defensive_assert!` of `onboard_members` excludes; onboarding
  nevertheless continues (`Maintained`).
* `merge_rings` accepts a base index above the current ring; its root is not
  below `next_ring_index`, where subscribers look for it.
* mob-rule: the comment of the contempt rule says more contempt votes than nays,
  the code asks for at least as many.
* mob-rule: `schedule_payout_rounds` accepts a schedule of no rounds with an amount
  (`lib.rs:904-928`) and holds nothing for it. `start_payout_round`
  (`lib.rs:858-889`, with a saturating decrement) then starts a round with that
  amount all the same. Claims of the round find less on hold than they are
  entitled to, which the `debug_assert_eq!` of `claim_credit` (`lib.rs:978`)
  excludes, or are paid out of what other schedules hold; so does the release
  of what was left over (`lib.rs:866-876`). `HoldsAccounted` bounds the
  difference and the run has such a schedule.
* proof-of-ink: `set_referral_ticket` is documented to overwrite the ticket; it
  adds one to a list.
* coinage: between `clean_recycler` and the deletion of the ring's pages a key
  is unknown to coinage and still known to members. A load of such a key passes
  validation and fails in dispatch, where the extension says dispatch should
  never fail (`extension.rs:786`).
* coinage: of a failing call the documentation says the origin coin is still
  consumed (`lib.rs:2085`); the extension restores and locks it.
* coinage: keys that were not yet in a ring when the collection of their paid
  period is deleted stay in `PaidUnloadTokenMembers` for ever, and the worker
  cleans free tokens of the last ten expired periods only.
* people-multi: suspending a person removes `AccountToPersonalId` without giving
  back the account's reference (`dec_sufficients`).

## 8. Not modelled

Cryptography (a root is its key set, a proof is membership), weights, fees,
events, encodings and migrations; the contents of a collection's ring
exponent; `MaxCollections` and the interplay of collections; entropy and the
rendering of procedural designs (`proof-of-ink`); the preservation mode of a
depositor's account (`coinage`); the components listed as `not_modelled` in
`PROJECT.json`: `score`, `game`, `airdrop`, `people-lite`, `resources`, `pgas`,
`honour`, `alias-accounts` and `origin-restriction` are state machines still to
come (section 2); `value-transfer-auth`, `chunks-manager`, the precompile and
`storage-initialization` keep no state that several steps could bring out of
order; `dotns-gateway` is one half of a protocol whose other half, a contract,
is not in the repository. Nine tenths of the repository's lines are runtime
configuration, generated weights, benchmarks, tests and chain data, which have
no behaviour of their own. The notifier's environment assumes
that the hook is called for every change and that a removed ring is not built
again; the exceptions in `Members` are the differences above.
