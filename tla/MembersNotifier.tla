--------------------------- MODULE MembersNotifier ---------------------------
(***************************************************************************)
(* pallets/members-notifier: the pallet of the People chain that tells     *)
(* subscriber parachains about changed ring roots.  Changed (collection,   *)
(* ring) pairs gather in pages; the offchain worker seals one page at a    *)
(* time into a batch, sends the batch to every subscriber and clears it    *)
(* once nobody waits for it any more.  A new subscriber is initialised     *)
(* page by page with all current roots.                                    *)
(*                                                                         *)
(* Outside the pallet and modelled from its use: the provider of ring      *)
(* roots (the members pallet), the XCM channels and the clock.             *)
(* Every handler is one transaction, hence one atomic action.  A handler   *)
(* that returns an error leaves the state alone and is a stuttering step.  *)
(*                                                                         *)
(* A definition whose name starts with Bug_ is a deliberate mistake in the *)
(* definition after it; no specification uses one.  Replacing the          *)
(* definition by it must break a property.                                 *)
(***************************************************************************)
EXTENDS RingUpdates

CONSTANTS
  Paras,                  \* parachains that may subscribe
  Collections,            \* identifiers of the ring collections
  MaxRingIndex,           \* bound: rings 0..MaxRingIndex of a collection
  MaxRevision,            \* bound: how often each ring is rebuilt
  StorageRank,            \* place of a ring in the hashed order of `Root`
  CollectionLists,        \* the collection lists `subscribe` is called with
  MaxSubscribers,
  MaxUpdatesPerBatch,
  UpdateTriggerBlocks,
  UpdateTriggerThreshold,
  StuckBatchTimeout,
  ReplayCooldown,
  PageModulus,            \* 2^16 in the code: pages are u16 and wrap
  ReplaySets,             \* index sets third parties request replays of
  ChannelSizes,           \* updates one message can carry; 0 is no channel
  MaxQueued               \* bound: messages waiting in one XCM channel

RingIndices == 0..MaxRingIndex

\* What the integrity test asserts, and the shapes of the parameters.
ASSUME NotifierAssumption ==
  /\ IsFiniteSet(Paras)
  /\ MaxRingIndex \in Nat /\ MaxRevision \in [RingIndices -> Nat]
  /\ StorageRank \in [RingIndices -> RingIndices]
  /\ CollectionLists \subseteq Seq(Collections)
  /\ MaxSubscribers \in Nat /\ ReplayCooldown \in Nat
  /\ MaxUpdatesPerBatch \in Nat \ {0}
  /\ UpdateTriggerBlocks \in Nat
  /\ UpdateTriggerThreshold \in 0..MaxUpdatesPerBatch
  /\ StuckBatchTimeout \in Nat \ {0}
  /\ PageModulus \in Nat \ {0}
  /\ ReplaySets \subseteq SUBSET RingIndices
  /\ ChannelSizes \subseteq Nat
  /\ MaxQueued \in Nat

\* The order of a storage map is total: no two keys have one place.
ASSUME StorageOrder ==
  \A r, q \in RingIndices : StorageRank[r] = StorageRank[q] => r = q

VARIABLES
  roots,                  \* provider: the current revision of each ring root
  currentRingIndex,       \* provider: `CurrentRingIndex`
  channel,                \* per para, updates that fit one message (0: none)
  outbox,                 \* per para, XCM messages sent and not yet executed
  subscribers,            \* `Subscribers`, a partial function
  pendingInit,            \* `PendingInit`, a partial function
  sealedBatchSequence,    \* `SealedBatchSequence`
  pageState,              \* `PageState` without its block number
  updateAge,              \* blocks since `last_update_block`, saturating
  pendingUpdates,         \* `PendingUpdates`: the pairs of each page
  pageUpdatesCount,       \* `PageUpdatesCount`
  currentBatch,           \* `CurrentBatch`, or NoBatch
  batchAge,               \* blocks since `sealed_at`, saturating
  sealedBatchIndices,     \* `SealedBatchIndices` as a set of pairs
  subscribersWithCurrentBatch,  \* `SubscribersWithCurrentBatch`
  replayCooldown          \* time left before (para, collection) may replay

provider == <<roots, currentRingIndex>>
paging == <<pageState, updateAge, pendingUpdates, pageUpdatesCount>>
batch == <<sealedBatchSequence, currentBatch, batchAge, sealedBatchIndices,
           subscribersWithCurrentBatch>>
registry == <<subscribers, pendingInit, replayCooldown>>
xcm == <<channel, outbox>>
notifierVars == <<provider, paging, batch, registry, xcm>>

NoBatch == [sequence |-> 0, remaining_subscribers |-> 0]
Unbuilt == -1             \* a ring whose root was never built
Removed == -2             \* a ring whose root was deleted

Pages == 0..(PageModulus - 1)
RingKeys == Collections \X RingIndices

-----------------------------------------------------------------------------
(* The provider of ring roots: pallets/members as RingRootsProvider.       *)

HasRoot(c, r) == roots[c][r] >= 0

next_ring_index(c) ==
  IF HasRoot(c, currentRingIndex[c]) THEN currentRingIndex[c] + 1
                                     ELSE currentRingIndex[c]

\* The first `limit` built rings after `after` (-1: from the start), in
\* storage order, which is the order of a hash and not of the indices.
get_ring_roots_paginated(c, after, limit) ==
  LET later == {r \in RingIndices : /\ HasRoot(c, r)
                                    /\ \/ after = -1
                                       \/ StorageRank[r] > StorageRank[after]}
  IN {r \in later :
        Cardinality({q \in later : StorageRank[q] < StorageRank[r]}) < limit}

-----------------------------------------------------------------------------
(* Messages.  Updates of one message have distinct ring indices, so they   *)
(* are a function from ring index to operation.                            *)

resolve_updates_for_indices(c, indices) ==
  [r \in indices |-> IF HasRoot(c, r) THEN roots[c][r] ELSE Deleted]

Message(call, c, sequence, updates) ==
  [call |-> call, identifier |-> c, sequence |-> sequence,
   updates |-> updates, next_ring_index |-> next_ring_index(c)]

TerminateSubscription ==
  [call |-> "terminate", identifier |-> 0, sequence |-> 0, updates |-> <<>>,
   next_ring_index |-> 0]

\* The router accepts messages while the channel's queue has room.
HasRoom(p, n) == Len(outbox[p]) + n <= MaxQueued

Send(p, msgs) ==
  /\ HasRoom(p, Len(msgs))
  /\ outbox' = [outbox EXCEPT ![p] = @ \o msgs]

\* The messages `send_batch` sends to p: per collection in list order, per
\* chunk, with the roots as they are now and not as they were at sealing.
BatchMessages(p) ==
  LET indices(c) == {r \in RingIndices : <<c, r>> \in sealedBatchIndices}
      chunkMessages(c) ==
        LET chunks == Chunks(indices(c), channel[p])
        IN [k \in DOMAIN chunks |->
              Message("update", c, currentBatch.sequence,
                      resolve_updates_for_indices(c, chunks[k]))]
      collections == subscribers[p].collections
  IN FlattenSeq([i \in DOMAIN collections |-> chunkMessages(collections[i])])

-----------------------------------------------------------------------------
(* Helpers of the pallet.                                                  *)

clear_batch ==
  /\ currentBatch' = NoBatch
  /\ batchAge' = 0
  /\ sealedBatchIndices' = {}
  /\ subscribersWithCurrentBatch' = {}

Bug_ClearsEarly(received) ==
  IF currentBatch.remaining_subscribers - 1 <= 1
  THEN clear_batch
  ELSE /\ currentBatch' = [currentBatch EXCEPT !.remaining_subscribers = @ - 1]
       /\ subscribersWithCurrentBatch' = received
       /\ UNCHANGED <<batchAge, sealedBatchIndices>>
Bug_NeverClears(received) ==
  /\ currentBatch' = [currentBatch EXCEPT !.remaining_subscribers = @ - 1]
  /\ subscribersWithCurrentBatch' = received
  /\ UNCHANGED <<batchAge, sealedBatchIndices>>
\* One subscriber fewer to serve; the last one clears the batch.
DropRemaining(received) ==
  IF currentBatch.remaining_subscribers - 1 <= 0
  THEN clear_batch
  ELSE /\ currentBatch' = [currentBatch EXCEPT !.remaining_subscribers = @ - 1]
       /\ subscribersWithCurrentBatch' = received
       /\ UNCHANGED <<batchAge, sealedBatchIndices>>

\* The subscribers the active batch still has to reach.
Awaiting ==
  {p \in DOMAIN subscribers :
     /\ p \notin subscribersWithCurrentBatch
     /\ subscribers[p].last_init_sequence < currentBatch.sequence}

Bug_ThresholdOnly ==
  pageUpdatesCount[pageState.write_page] >= UpdateTriggerThreshold
has_processable_updates ==
  \/ pageState.send_page # pageState.write_page
  \/ LET count == pageUpdatesCount[pageState.write_page]
     IN /\ count # 0
        /\ \/ updateAge >= UpdateTriggerBlocks
           \/ count >= UpdateTriggerThreshold

Bug_CountKept ==
  LET s == pageState.send_page
      w == pageState.write_page
  IN /\ pendingUpdates' = [pendingUpdates EXCEPT ![s] = {}]
     /\ pageState' = [write_page |-> IF s = w THEN (w + 1) % PageModulus ELSE w,
                      send_page |-> (s + 1) % PageModulus]
     /\ updateAge' = 0
     /\ UNCHANGED pageUpdatesCount
\* Drops the sent page and moves on to the next one.
cleanup_send_buffer ==
  LET s == pageState.send_page
      w == pageState.write_page
  IN /\ pendingUpdates' = [pendingUpdates EXCEPT ![s] = {}]
     /\ pageUpdatesCount' = [pageUpdatesCount EXCEPT ![s] = 0]
     /\ pageState' = [write_page |-> IF s = w THEN (w + 1) % PageModulus ELSE w,
                      send_page |-> (s + 1) % PageModulus]
     /\ updateAge' = 0

-----------------------------------------------------------------------------
(* Extrinsics.                                                             *)

\* subscribe, with register_for_init.
Subscribe(p, collections) ==
  /\ p \notin DOMAIN subscribers
  /\ Cardinality(DOMAIN subscribers) < MaxSubscribers
  /\ \A i \in 1..(Len(collections) - 1) : collections[i] < collections[i + 1]
  /\ subscribers' = Insert(subscribers, p,
       [collections |-> collections, last_init_sequence |-> sealedBatchSequence])
  /\ pendingInit' = Insert(pendingInit, p,
       [collections |-> collections, current_collection_index |-> 1,
        after_ring_index |-> -1, sequence |-> sealedBatchSequence])
  /\ UNCHANGED <<provider, paging, batch, xcm, replayCooldown>>

\* The part of `unsubscribe` both origins share.
Unregister(p) ==
  /\ p \in DOMAIN subscribers
  /\ subscribers' = Without(subscribers, p)
  /\ pendingInit' = Without(pendingInit, p)
  /\ replayCooldown' = [replayCooldown EXCEPT ![p] =
       [c \in Collections |->
          IF c \in Range(subscribers[p].collections) THEN 0 ELSE @[c]]]
  /\ IF currentBatch # NoBatch /\ p \in subscribersWithCurrentBatch
     THEN /\ subscribersWithCurrentBatch' = subscribersWithCurrentBatch \ {p}
          /\ UNCHANGED <<currentBatch, batchAge, sealedBatchIndices>>
     ELSE IF /\ currentBatch # NoBatch
             /\ subscribers[p].last_init_sequence < currentBatch.sequence
             /\ currentBatch.remaining_subscribers > 0
          THEN DropRemaining(subscribersWithCurrentBatch)
          ELSE UNCHANGED <<currentBatch, batchAge, sealedBatchIndices,
                           subscribersWithCurrentBatch>>
  /\ UNCHANGED <<provider, paging, sealedBatchSequence, channel>>

\* unsubscribe by ManageOrigin: the terminate message may fail to be sent.
UnsubscribeByGovernance(p) ==
  /\ Unregister(p)
  /\ \/ Send(p, <<TerminateSubscription>>)
     \/ UNCHANGED outbox

\* unsubscribe by the subscriber itself (EnsureSubscriberOrigin).
UnsubscribeBySubscriber(p) == Unregister(p) /\ UNCHANGED outbox

\* The checks of request_replay.
ReplayAllowed(p, c, indices) ==
  /\ indices # {}
  /\ p \in DOMAIN subscribers
  /\ c \in Range(subscribers[p].collections)
  /\ \A r \in indices : r < next_ring_index(c)
  /\ channel[p] > 0
  /\ Cardinality(indices) <= channel[p]
  /\ replayCooldown[p][c] = 0

\* request_replay: anybody may ask on behalf of any subscriber.
RequestReplay(p, c, indices) ==
  /\ ReplayAllowed(p, c, indices)
  /\ Send(p, <<Message("update", c, sealedBatchSequence,
                       resolve_updates_for_indices(c, indices))>>)
  /\ replayCooldown' = [replayCooldown EXCEPT ![p][c] = ReplayCooldown]
  /\ UNCHANGED <<provider, paging, batch, subscribers, pendingInit, channel>>

authorize_enqueue_updates == currentBatch = NoBatch /\ has_processable_updates

\* enqueue_updates.
EnqueueUpdates ==
  /\ authorize_enqueue_updates
  /\ cleanup_send_buffer
  /\ IF DOMAIN subscribers = {}
     THEN UNCHANGED batch
     ELSE /\ sealedBatchSequence' = sealedBatchSequence + 1
          /\ currentBatch' =
               [sequence |-> sealedBatchSequence + 1,
                remaining_subscribers |-> Cardinality(DOMAIN subscribers)]
          /\ batchAge' = 0
          /\ LET page == pendingUpdates[pageState.send_page]
             IN sealedBatchIndices' =
                  {k \in sealedBatchIndices : \A u \in page : u[1] # k[1]}
                  \cup page
          /\ UNCHANGED subscribersWithCurrentBatch
  /\ UNCHANGED <<provider, registry, xcm>>

authorize_send_batch(p) ==
  /\ currentBatch # NoBatch
  /\ currentBatch.remaining_subscribers # 0
  /\ p \in DOMAIN subscribers
  /\ p \notin subscribersWithCurrentBatch
  /\ subscribers[p].last_init_sequence < currentBatch.sequence

MarkProcessed(p) ==
  /\ DropRemaining(subscribersWithCurrentBatch \cup {p})
  /\ UNCHANGED <<provider, paging, registry, sealedBatchSequence, channel>>

\* send_batch, outcome 1: every message of the batch is accepted.
SendBatchAll(p) ==
  /\ authorize_send_batch(p)
  /\ channel[p] > 0
  /\ Send(p, BatchMessages(p))
  /\ MarkProcessed(p)

\* send_batch, outcome 2: no channel; p counts as served and gets nothing.
SendBatchSkipped(p) ==
  /\ authorize_send_batch(p)
  /\ channel[p] = 0
  /\ UNCHANGED outbox
  /\ MarkProcessed(p)

\* send_batch, outcome 3: some messages are refused.  The accepted ones stay
\* sent, p is not marked and the whole batch will be sent again.
SendBatchFailed(p) ==
  /\ authorize_send_batch(p)
  /\ channel[p] > 0
  /\ LET messages == BatchMessages(p)
     IN \E accepted \in SUBSET DOMAIN messages :
          /\ accepted # DOMAIN messages
          /\ Send(p, [k \in 1..Cardinality(accepted) |->
               messages[CHOOSE i \in accepted :
                 Cardinality({j \in accepted : j <= i}) = k]])
  /\ UNCHANGED <<provider, paging, batch, registry, channel>>

SendBatch(p) == SendBatchAll(p) \/ SendBatchSkipped(p) \/ SendBatchFailed(p)

\* advance_init_pagination after a page was sent.
advance_init_pagination(p, page, limit) ==
  LET state == pendingInit[p]
      last == CHOOSE r \in page :
                \A q \in page : StorageRank[q] <= StorageRank[r]
  IN pendingInit' =
       IF Cardinality(page) = limit
       THEN [pendingInit EXCEPT ![p].after_ring_index = last]
       ELSE IF state.current_collection_index < Len(state.collections)
       THEN [pendingInit EXCEPT ![p] =
               [collections |-> state.collections,
                current_collection_index |-> state.current_collection_index + 1,
                after_ring_index |-> -1, sequence |-> state.sequence]]
       ELSE Without(pendingInit, p)

\* send_init_page; without a channel or with a refused message it returns
\* without a change and is tried again.
SendInitPage(p) ==
  /\ p \in DOMAIN pendingInit
  /\ channel[p] > 0
  /\ LET state == pendingInit[p]
         i == state.current_collection_index
     IN IF i > Len(state.collections)
        THEN pendingInit' = Without(pendingInit, p) /\ UNCHANGED outbox
        ELSE LET c == state.collections[i]
                 page == get_ring_roots_paginated(c, state.after_ring_index,
                                                  channel[p])
             IN /\ Send(p, <<Message("init", c, state.sequence,
                               resolve_updates_for_indices(c, page))>>)
                /\ advance_init_pagination(p, page, channel[p])
  /\ UNCHANGED <<provider, paging, batch, subscribers, replayCooldown, channel>>

authorize_abandon_stuck_batch ==
  currentBatch # NoBatch /\ batchAge >= StuckBatchTimeout

\* abandon_stuck_batch.
AbandonStuckBatch ==
  /\ authorize_abandon_stuck_batch
  /\ clear_batch
  /\ UNCHANGED <<provider, paging, registry, sealedBatchSequence, xcm>>

-----------------------------------------------------------------------------
(* The hook the members pallet calls, and the rest of the environment.     *)

on_ring_root_change(c, r) ==
  LET w == pageState.write_page
      full == pageUpdatesCount[w] >= MaxUpdatesPerBatch
      page == IF full THEN (w + 1) % PageModulus ELSE w
  IN IF <<c, r>> \in pendingUpdates[w]
     THEN UNCHANGED paging
     ELSE /\ pageState' = [pageState EXCEPT !.write_page = page]
          /\ pendingUpdates' = [pendingUpdates EXCEPT ![page] = @ \cup {<<c, r>>}]
          /\ pageUpdatesCount' = [pageUpdatesCount EXCEPT ![page] = @ + 1]
          /\ UNCHANGED updateAge

\* An assumption of the model, without counterpart in the code: nothing there
\* keeps the next page from meeting one that was not sent (lib.rs:1409).  The
\* backlog is taken to stay below PageModulus - 1 pages, 65535 of them deployed.
BacklogBelowWrap ==
  (pageState.write_page + 1) % PageModulus # pageState.send_page

\* build_ring of the members pallet: a new revision of an existing ring.
RootBuilt(c, r) ==
  /\ BacklogBelowWrap
  /\ r <= currentRingIndex[c]
  /\ roots[c][r] # Removed /\ roots[c][r] < MaxRevision[r]
  /\ roots' = [roots EXCEPT ![c][r] = @ + 1]
  /\ on_ring_root_change(c, r)
  /\ UNCHANGED <<currentRingIndex, batch, registry, xcm>>

\* remove_ring of the members pallet, never for the ring being filled.
RootDeleted(c, r) ==
  /\ BacklogBelowWrap
  /\ r # currentRingIndex[c]
  /\ HasRoot(c, r)
  /\ roots' = [roots EXCEPT ![c][r] = Removed]
  /\ on_ring_root_change(c, r)
  /\ UNCHANGED <<currentRingIndex, batch, registry, xcm>>

\* The members pallet starts to fill the next ring.
RingFilled(c) ==
  /\ currentRingIndex[c] < MaxRingIndex
  /\ currentRingIndex' = [currentRingIndex EXCEPT ![c] = @ + 1]
  /\ UNCHANGED <<roots, paging, batch, registry, xcm>>

\* A block passes.
Tick ==
  /\ updateAge' = Min({updateAge + 1, UpdateTriggerBlocks})
  /\ batchAge' = IF currentBatch = NoBatch THEN 0
                 ELSE Min({batchAge + 1, StuckBatchTimeout})
  /\ replayCooldown' = [p \in Paras |-> [c \in Collections |->
                          Max({replayCooldown[p][c] - 1, 0})]]
  /\ UNCHANGED <<provider, pageState, pendingUpdates, pageUpdatesCount,
                 sealedBatchSequence, currentBatch, sealedBatchIndices,
                 subscribersWithCurrentBatch, subscribers, pendingInit, xcm>>

\* A channel is opened, resized or closed.
ChannelChanged(p, size) ==
  /\ channel[p] # size
  /\ channel' = [channel EXCEPT ![p] = size]
  /\ UNCHANGED <<provider, paging, batch, registry, outbox>>

\* The destination executes the oldest message.
Executed(p) ==
  /\ outbox[p] # <<>>
  /\ outbox' = [outbox EXCEPT ![p] = Tail(@)]
  /\ UNCHANGED <<provider, paging, batch, registry, channel>>

-----------------------------------------------------------------------------

Init ==
  /\ roots = [c \in Collections |-> [r \in RingIndices |-> Unbuilt]]
  /\ currentRingIndex = [c \in Collections |-> 0]
  /\ channel \in [Paras -> ChannelSizes]
  /\ outbox = [p \in Paras |-> <<>>]
  /\ subscribers = [p \in {} |-> 0]
  /\ pendingInit = [p \in {} |-> 0]
  /\ sealedBatchSequence = 0
  /\ pageState = [write_page |-> 0, send_page |-> 0]
  /\ updateAge = 0
  /\ pendingUpdates = [k \in Pages |-> {}]
  /\ pageUpdatesCount = [k \in Pages |-> 0]
  /\ currentBatch = NoBatch
  /\ batchAge = 0
  /\ sealedBatchIndices = {}
  /\ subscribersWithCurrentBatch = {}
  /\ replayCooldown = [p \in Paras |-> [c \in Collections |-> 0]]

\* The actions of the pallet, for a subscriber p.
SubscriberActions(p) ==
  \/ \E collections \in CollectionLists : Subscribe(p, collections)
  \/ UnsubscribeByGovernance(p)
  \/ \E c \in Collections, indices \in ReplaySets :
       RequestReplay(p, c, indices)
  \/ SendBatch(p)
  \/ SendInitPage(p)

ProviderActions(c) ==
  \/ \E r \in RingIndices : RootBuilt(c, r) \/ RootDeleted(c, r)
  \/ RingFilled(c)

NotifierNext ==
  \/ \E p \in Paras : SubscriberActions(p)
  \/ \E c \in Collections : ProviderActions(c)
  \/ EnqueueUpdates
  \/ AbandonStuckBatch
  \/ Tick
  \/ \E p \in Paras, size \in ChannelSizes : ChannelChanged(p, size)

\* On its own the notifier runs against subscribers that only consume.
Next ==
  \/ NotifierNext
  \/ \E p \in Paras : UnsubscribeBySubscriber(p) \/ Executed(p)

Spec == Init /\ [][Next]_notifierVars

-----------------------------------------------------------------------------
(* Properties.                                                             *)

SubscriberInfo == [collections : CollectionLists, last_init_sequence : Nat]
PendingInitState ==
  [collections : CollectionLists, current_collection_index : Nat \ {0},
   after_ring_index : RingIndices \cup {-1}, sequence : Nat]
BatchState == [sequence : Nat, remaining_subscribers : Nat]

\* Every variable has the shape of the storage item it models.
TypeOK ==
  /\ roots \in [Collections -> [RingIndices -> Int]]
  /\ currentRingIndex \in [Collections -> Nat]
  /\ channel \in [Paras -> ChannelSizes]
  /\ DOMAIN outbox = Paras
  /\ IsPartialFunction(subscribers, Paras, SubscriberInfo)
  /\ IsPartialFunction(pendingInit, Paras, PendingInitState)
  /\ sealedBatchSequence \in Nat
  /\ pageState \in [write_page : Pages, send_page : Pages]
  /\ updateAge \in Nat
  /\ pendingUpdates \in [Pages -> SUBSET RingKeys]
  /\ pageUpdatesCount \in [Pages -> Nat]
  /\ currentBatch \in BatchState
  /\ batchAge \in Nat
  /\ sealedBatchIndices \in SUBSET RingKeys
  /\ subscribersWithCurrentBatch \in SUBSET Paras
  /\ replayCooldown \in [Paras -> [Collections -> Nat]]

\* `remaining_subscribers`, kept by hand in enqueue_updates, send_batch and
\* unsubscribe, is the number of subscribers the batch still has to reach,
\* whoever subscribed, unsubscribed or came back meanwhile; and a batch
\* nobody waits for is not left active.
RemainingExact ==
  currentBatch # NoBatch =>
    /\ currentBatch.remaining_subscribers = Cardinality(Awaiting)
    /\ Awaiting # {}

\* on_ring_root_change and cleanup_send_buffer keep the page counters equal
\* to the pages' contents and within MaxUpdatesPerBatch, and keep every page
\* outside the window from send_page to write_page empty, across the wrap.
InWindow(k) ==
  LET distance(j) == (j - pageState.send_page) % PageModulus
  IN distance(k) <= distance(pageState.write_page)

PagesExact ==
  \A k \in Pages :
    /\ pageUpdatesCount[k] = Cardinality(pendingUpdates[k])
    /\ pageUpdatesCount[k] <= MaxUpdatesPerBatch
    /\ ~InWindow(k) => pendingUpdates[k] = {}

\* A batch is cleared by its last awaited subscriber or, after
\* StuckBatchTimeout, by abandon_stuck_batch; never while it still owes two
\* subscribers their updates.
ClearedOnlyWhenServed ==
  [][ currentBatch # NoBatch /\ currentBatch' = NoBatch =>
        \/ batchAge >= StuckBatchTimeout
        \/ \E p \in Paras : Awaiting = {p} ]_notifierVars

=============================================================================
