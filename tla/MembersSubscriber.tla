-------------------------- MODULE MembersSubscriber --------------------------
(***************************************************************************)
(* pallets/members-subscriber: the pallet of a subscribing parachain.  It  *)
(* stores the ring roots the notifier sends, a window of recent roots per  *)
(* ring, works out which rings it has not heard of, and asks for them      *)
(* again.                                                                  *)
(*                                                                         *)
(* The updates of one message have distinct ring indices, so a message     *)
(* carries a function from ring index to a revision or Deleted.  A handler *)
(* that returns an error has no effect but the message is gone.            *)
(*                                                                         *)
(* A definition whose name starts with Bug_ is a deliberate mistake in the *)
(* definition after it; no specification uses one.  Replacing the          *)
(* definition by it must break a property.                                 *)
(***************************************************************************)
EXTENDS RingUpdates

CONSTANTS
  Collections,
  MaxRingIndex,           \* bound: rings 0..MaxRingIndex of a collection
  MaxUpdatesPerBatch,
  MaxMissingRootsPerCollection,
  MaxDeletedRingsPerCollection,
  MaxRecentRootsPerRing,
  ReplayAbandonThreshold,
  ReplayCooldownSeconds,
  ClearLimit,             \* MaxCollections * MaxRingRootsPerCollection
  MaxRequests,            \* bound: requests waiting in the XCM channel
  Messages                \* the messages a notifier may send, for TLC

RingIndices == 0..MaxRingIndex

\* What the integrity test asserts.
ASSUME SubscriberAssumption ==
  /\ IsFiniteSet(Collections)
  /\ MaxRingIndex \in Nat /\ MaxRequests \in Nat /\ ClearLimit \in Nat \ {0}
  /\ MaxUpdatesPerBatch \in Nat \ {0}
  /\ MaxMissingRootsPerCollection \in Nat \ {0}
  /\ MaxDeletedRingsPerCollection \in Nat \ {0}
  /\ MaxRecentRootsPerRing \in Nat \ {0}
  /\ ReplayAbandonThreshold \in Nat \ {0}
  /\ ReplayCooldownSeconds \in Nat \ {0}

\* What a message may carry, whoever made it up.
ASSUME MessagesAssumption ==
  \A m \in Messages :
    /\ m.call \in {"init", "update", "terminate"}
    /\ m.call # "terminate" =>
         /\ m.identifier \in Collections
         /\ m.sequence \in Nat /\ m.next_ring_index \in 0..(MaxRingIndex + 1)
         /\ IsPartialFunction(m.updates, RingIndices, Nat \cup {Deleted})

VARIABLES
  ringRoots,              \* `RingRoots`: revisions, oldest first; <<>>: none
  collectionStates,       \* `RingCollectionStates`
  ringExponents,          \* collections with a `RingCollectionExponents` entry
  subscription,           \* `Subscription`
  lastProcessedSequence,  \* `ProcessingState.last_processed_sequence`
  batchWait,              \* time until a batch is too old to delay a replay
  replayWait,             \* time until replays may be requested again
  replayPool,             \* per collection, indices of a pooled replay call
  toNotifier              \* XCM requests sent and not yet executed

ringData == <<ringRoots, collectionStates, ringExponents,
              lastProcessedSequence, batchWait, replayWait>>
subscriberVars == <<ringData, subscription, replayPool, toNotifier>>

DefaultState == [ring_count |-> 0, next_ring_index |-> 0,
                 missing_indices |-> <<>>, deleted_indices |-> {}]
Inactive == [status |-> "Inactive", initialized_at_sequence |-> 0]
Terminated == [status |-> "Terminated", initialized_at_sequence |-> 0]
ActiveAt(sequence) == [status |-> "Active", initialized_at_sequence |-> sequence]
IsActive == subscription.status = "Active"

Unsubscribe == [call |-> "unsubscribe", identifier |-> 0, indices |-> {}]
ReplayRequest(c, indices) ==
  [call |-> "request_replay", identifier |-> c, indices |-> indices]

-----------------------------------------------------------------------------
(* Storing a batch, as functions of the stored windows and the state of    *)
(* the batch's collection.                                                 *)

StoredIn(windows) == {r \in RingIndices : windows[r] # <<>>}
BuiltIn(m) == {r \in DOMAIN m.updates : m.updates[r] # Deleted}
DeletedIn(m) == {r \in DOMAIN m.updates : m.updates[r] = Deleted}

Bug_StoredIsKept(window, r, m) ==
  CASE r \in DeletedIn(m) -> <<>>
    [] r \in BuiltIn(m) -> IF window = <<>> THEN <<m.updates[r]>> ELSE window
    [] OTHER -> window
\* The window after a batch: a built root is appended and evicts the oldest
\* one of a full window, a deletion drops the window.
StoreWindow(window, r, m) ==
  CASE r \in DeletedIn(m) -> <<>>
    [] r \in BuiltIn(m) ->
         Append(IF Len(window) = MaxRecentRootsPerRing THEN Tail(window)
                                                       ELSE window,
                m.updates[r])
    [] OTHER -> window

StoreWindows(windows, m) ==
  [r \in RingIndices |-> StoreWindow(windows[r], r, m)]

\* The deletions `deleted_indices` has room for: updates come in ascending
\* order, each built ring frees its place, and an index that finds the set
\* full is not tracked.
TrackedDeletions(deleted, m) ==
  DeletedIn(m) \cap
  CHOOSE tracked \in SUBSET DeletedIn(m) :
    \A r \in DeletedIn(m) :
      LET before == (deleted \ {q \in BuiltIn(m) : q < r})
                    \cup {q \in tracked : q < r}
      IN r \in tracked <=>
           r \in before \/ Cardinality(before) < MaxDeletedRingsPerCollection

Bug_EveryBuiltCounts(stored, count, m) ==
  count + Cardinality(BuiltIn(m)) - Cardinality(DeletedIn(m) \cap stored)
\* Only a ring that was not stored adds to the count, and only one that was
\* stored takes from it.
RingCount(stored, count, m) ==
  count + Cardinality(BuiltIn(m) \ stored) - Cardinality(DeletedIn(m) \cap stored)

store_ring_roots(windows, state, m) ==
  LET stored == StoredIn(windows)
  IN [ring_count |-> RingCount(stored, state.ring_count, m),
      next_ring_index |-> Max({state.next_ring_index, m.next_ring_index}),
      missing_indices |->
        [r \in DOMAIN state.missing_indices \ DOMAIN m.updates |->
           state.missing_indices[r]],
      deleted_indices |-> (state.deleted_indices \ BuiltIn(m))
                          \cup TrackedDeletions(state.deleted_indices, m)]

\* The `room` smallest members of S.
Smallest(S, room) == {r \in S : Cardinality({q \in S : q < r}) < room}

Bug_LastNotScanned(oldNext, newNext) == oldNext..(newNext - 2)
\* Only the delta from the old to the new next_ring_index is scanned.
Scanned(oldNext, newNext) == oldNext..(newNext - 1)

detect_missing_rings(stored, state, oldNext) ==
  LET missing == state.missing_indices
      deleted == state.deleted_indices
      gaps == {r \in Scanned(oldNext, state.next_ring_index) :
                 r \notin stored /\ r \notin DOMAIN missing /\ r \notin deleted}
      found == Smallest(gaps, MaxMissingRootsPerCollection
                                - Cardinality(DOMAIN missing))
  IN IF state.ring_count + Cardinality(deleted) >= state.next_ring_index
     THEN <<>>
     ELSE IF Cardinality(deleted) >= MaxDeletedRingsPerCollection
     THEN missing
     ELSE [r \in DOMAIN missing \cup found |->
             IF r \in DOMAIN missing THEN missing[r] ELSE 0]

\* The part of both message handlers that stores a batch, starting from the
\* given windows and states.
StoreBatch(windows, states, m) ==
  LET c == m.identifier
      newWindows == StoreWindows(windows[c], m)
      newState == store_ring_roots(windows[c], states[c], m)
  IN /\ ringRoots' = [windows EXCEPT ![c] = newWindows]
     /\ collectionStates' = [states EXCEPT ![c] =
          [newState EXCEPT !.missing_indices =
             detect_missing_rings(StoredIn(newWindows), newState,
                                  states[c].next_ring_index)]]
     /\ lastProcessedSequence' = m.sequence
     /\ batchWait' = ReplayCooldownSeconds

NoStates == [c \in Collections |-> DefaultState]

\* clear_all_ring_data deletes at most ClearLimit windows, and storage order
\* decides which ones are left; collection states and exponents are few.
StoredKeys == {k \in Collections \X RingIndices : ringRoots[k[1]][k[2]] # <<>>}

Bug_NothingCleared == {ringRoots}
ClearedRoots ==
  {[c \in Collections |-> [r \in RingIndices |->
      IF <<c, r>> \in left THEN ringRoots[c][r] ELSE <<>>]] :
     left \in {S \in SUBSET StoredKeys :
                 Cardinality(S) = Max({0, Cardinality(StoredKeys) - ClearLimit})}}

clear_all_ring_data ==
  /\ ringRoots' \in ClearedRoots
  /\ collectionStates' = NoStates
  /\ ringExponents' = {}
  /\ lastProcessedSequence' = 0
  /\ batchWait' = 0
  /\ replayWait' = 0

-----------------------------------------------------------------------------
(* The calls the notifier makes.                                           *)

initialize_ring_roots(m) ==
  LET at == subscription.initialized_at_sequence
      reInit == IsActive /\ m.sequence > at
  IN IF IsActive /\ m.sequence < at
     THEN UNCHANGED <<ringData, subscription>>
     ELSE /\ IF reInit
             THEN \E windows \in ClearedRoots : StoreBatch(windows, NoStates, m)
             ELSE StoreBatch(ringRoots, collectionStates, m)
          /\ replayWait' = IF reInit THEN 0 ELSE replayWait
          /\ ringExponents' = (IF reInit THEN {} ELSE ringExponents)
                              \cup {m.identifier}
          /\ subscription' = ActiveAt(m.sequence)

Bug_OneMessagePerSequence(m) ==
  IF ~IsActive \/ m.sequence <= lastProcessedSequence
  THEN UNCHANGED <<ringData, subscription>>
  ELSE /\ StoreBatch(ringRoots, collectionStates, m)
       /\ UNCHANGED <<ringExponents, replayWait, subscription>>
process_ring_updates(m) ==
  IF ~IsActive \/ m.sequence < lastProcessedSequence
  THEN UNCHANGED <<ringData, subscription>>
  ELSE /\ StoreBatch(ringRoots, collectionStates, m)
       /\ UNCHANGED <<ringExponents, replayWait, subscription>>

Bug_StatusKept ==
  IF IsActive THEN clear_all_ring_data /\ UNCHANGED subscription
              ELSE UNCHANGED <<ringData, subscription>>
\* terminate_subscription by the notifier: nothing to send back.
TerminatedByNotifier ==
  IF IsActive THEN clear_all_ring_data /\ subscription' = Terminated
              ELSE UNCHANGED <<ringData, subscription>>

Receive(m) ==
  /\ CASE m.call = "init" -> initialize_ring_roots(m)
       [] m.call = "update" -> process_ring_updates(m)
       [] m.call = "terminate" -> TerminatedByNotifier
  /\ UNCHANGED <<replayPool, toNotifier>>

-----------------------------------------------------------------------------
(* Local calls and the offchain worker.                                    *)

\* Requests are accepted by the router while the channel has room.
SendToNotifier(requests) ==
  /\ Len(toNotifier) + Len(requests) <= MaxRequests
  /\ toNotifier' = toNotifier \o requests

\* terminate_subscription by local governance; sending may fail.
TerminatedLocally ==
  /\ IsActive
  /\ SendToNotifier(<<Unsubscribe>>) \/ UNCHANGED toNotifier
  /\ clear_all_ring_data
  /\ subscription' = Terminated
  /\ UNCHANGED replayPool

\* The offchain worker submits a replay of all missing indices; a pooled call
\* for the same collection has the same tag and keeps a second one out.
SubmitReplay(c) ==
  /\ IsActive
  /\ batchWait = 0 /\ replayWait = 0
  /\ DOMAIN collectionStates[c].missing_indices # {}
  /\ Cardinality(collectionStates[c].deleted_indices)
       # MaxDeletedRingsPerCollection
  /\ replayPool[c] = {}
  /\ replayPool' = [replayPool EXCEPT
       ![c] = DOMAIN collectionStates[c].missing_indices]
  /\ UNCHANGED <<ringData, subscription, toNotifier>>

authorize_replay_missing_roots(c) ==
  /\ IsActive
  /\ replayWait = 0
  /\ replayPool[c] \cap DOMAIN collectionStates[c].missing_indices # {}

GivenUp(attempts) == attempts >= ReplayAbandonThreshold

Bug_AttemptsNotCounted(c) ==
  LET missing == collectionStates[c].missing_indices
  IN [missing_indices |-> missing, to_send |-> replayPool[c] \cap DOMAIN missing]
\* process_collection_replay: counts an attempt for every requested index
\* still missing and gives up on those that reach the threshold.
Attempted(c) ==
  LET missing == collectionStates[c].missing_indices
      requested == replayPool[c] \cap DOMAIN missing
      abandoned == {r \in requested : GivenUp(missing[r] + 1)}
  IN [missing_indices |-> [r \in DOMAIN missing \ abandoned |->
                             IF r \in requested THEN missing[r] + 1
                                                ELSE missing[r]],
      to_send |-> requested \ abandoned]

\* replay_missing_roots; the chunks are sent until the router refuses one.
ReplayMissingRoots(c) ==
  /\ replayPool[c] # {}
  /\ authorize_replay_missing_roots(c)
  /\ LET chunks == Chunks(Attempted(c).to_send, MaxUpdatesPerBatch)
     IN \E sent \in 0..Len(chunks) :
          /\ SendToNotifier([k \in 1..sent |-> ReplayRequest(c, chunks[k])])
          /\ replayWait' = IF sent > 0 THEN ReplayCooldownSeconds ELSE replayWait
  /\ collectionStates' = [collectionStates EXCEPT
       ![c].missing_indices = Attempted(c).missing_indices]
  /\ replayPool' = [replayPool EXCEPT ![c] = {}]
  /\ UNCHANGED <<ringRoots, ringExponents, lastProcessedSequence, batchWait,
                 subscription>>

\* A pooled replay outlives its longevity or is no longer valid.
DropReplay(c) ==
  /\ replayPool[c] # {}
  /\ replayPool' = [replayPool EXCEPT ![c] = {}]
  /\ UNCHANGED <<ringData, subscription, toNotifier>>

SubscriberTick ==
  /\ batchWait + replayWait > 0
  /\ batchWait' = Max({batchWait - 1, 0})
  /\ replayWait' = Max({replayWait - 1, 0})
  /\ UNCHANGED <<ringRoots, collectionStates, ringExponents,
                 lastProcessedSequence, subscription, replayPool, toNotifier>>

-----------------------------------------------------------------------------
(* MembershipProver: a proof holds when it was made against a root of the  *)
(* window of an initialised collection.                                    *)

verify_membership(c, r, revision) ==
  c \in ringExponents /\ revision \in Range(ringRoots[c][r])

-----------------------------------------------------------------------------

Init ==
  /\ ringRoots = [c \in Collections |-> [r \in RingIndices |-> <<>>]]
  /\ collectionStates = NoStates
  /\ ringExponents = {}
  /\ subscription = Inactive
  /\ lastProcessedSequence = 0
  /\ batchWait = 0 /\ replayWait = 0
  /\ replayPool = [c \in Collections |-> {}]
  /\ toNotifier = <<>>

LocalNext ==
  \/ TerminatedLocally
  \/ \E c \in Collections :
       SubmitReplay(c) \/ ReplayMissingRoots(c) \/ DropReplay(c)
  \/ SubscriberTick

\* The notifier executes the oldest request.
RequestExecuted ==
  /\ toNotifier # <<>>
  /\ toNotifier' = Tail(toNotifier)
  /\ UNCHANGED <<ringData, subscription, replayPool>>

\* On its own the subscriber runs against any stream of messages whatever:
\* lost, repeated, reordered or made up.
Next ==
  \/ \E m \in Messages : Receive(m)
  \/ LocalNext
  \/ RequestExecuted

Spec == Init /\ [][Next]_subscriberVars

\* The offchain worker runs in every block; a pooled call is included in the
\* end if it stays valid often enough, and leaves the pool with its longevity.
Fairness ==
  /\ WF_subscriberVars(SubscriberTick)
  /\ WF_subscriberVars(RequestExecuted)
  /\ \A c \in Collections : /\ SF_subscriberVars(SubmitReplay(c))
                            /\ SF_subscriberVars(ReplayMissingRoots(c))
                            /\ WF_subscriberVars(DropReplay(c))

FairSpec == Spec /\ Fairness

-----------------------------------------------------------------------------
(* Properties.                                                             *)

\* Whatever messages come in whatever order, the books of a collection stay
\* straight: ring_count, kept by hand in store_ring_roots, is the number of
\* stored rings; no ring is two of stored, deleted and missing; only known
\* rings are missing, none was asked for ReplayAbandonThreshold times, and
\* both index sets keep their limits.
CollectionExact(c) ==
  LET state == collectionStates[c]
      stored == StoredIn(ringRoots[c])
      missing == DOMAIN state.missing_indices
  IN /\ state.ring_count = Cardinality(stored)
     /\ stored \cap state.deleted_indices = {}
     /\ missing \cap (stored \cup state.deleted_indices) = {}
     /\ \A r \in missing : /\ r < state.next_ring_index
                            /\ state.missing_indices[r] < ReplayAbandonThreshold
     /\ Cardinality(missing) <= MaxMissingRootsPerCollection
     /\ Cardinality(state.deleted_indices) <= MaxDeletedRingsPerCollection

StateExact == \A c \in Collections : CollectionExact(c)

\* A terminated or never started subscription accepts no proof: nothing of
\* an earlier subscription survives clear_all_ring_data.
NothingKept ==
  ~IsActive => \A c \in Collections, r \in RingIndices :
                 /\ ringRoots[c][r] = <<>>
                 /\ collectionStates[c] = DefaultState

\* Replays get through or are given up, whatever the notifier answers: if the
\* offchain worker is not held off for ever by a stream of batches or by a
\* full deleted_indices, no index stays missing for ever.
MissingResolved ==
  \A c \in Collections :
    []<>(/\ batchWait = 0
         /\ Cardinality(collectionStates[c].deleted_indices)
              < MaxDeletedRingsPerCollection)
    => \A r \in RingIndices :
         r \in DOMAIN collectionStates[c].missing_indices
           ~> r \notin DOMAIN collectionStates[c].missing_indices
==============================================================================
