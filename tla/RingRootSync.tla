---------------------------- MODULE RingRootSync -----------------------------
(***************************************************************************)
(* The notifier of the People chain and the subscriber pallet of one       *)
(* parachain, Chain, joined by an HRMP channel in each direction.  The     *)
(* channels are reliable and ordered; what gets lost is what the pallets   *)
(* themselves drop: batches abandoned or skipped by the notifier, messages *)
(* a handler rejects, requests the notifier refuses.                       *)
(***************************************************************************)
EXTENDS MembersNotifier

CONSTANTS
  Chain,
  MaxMissingRootsPerCollection,
  MaxDeletedRingsPerCollection,
  MaxRecentRootsPerRing,
  ReplayAbandonThreshold,
  ReplayCooldownSeconds,
  ClearLimit,
  MaxRequests,
  TerminateMayFail,       \* the router may refuse a terminate or unsubscribe
  Unsubscription,         \* the notifier's governance may unsubscribe Chain
  LocalTermination,       \* the subscriber's governance may terminate
  OffchainWorker,         \* the subscriber's offchain worker runs
  EnsureSubscriberOrigin  \* the notifier accepts the origin of `unsubscribe`

\* The shapes of the parameters and what the subscriber's integrity test asserts.
ASSUME SyncAssumption ==
  /\ Chain \in Paras /\ IsFiniteSet(Collections)
  /\ MaxRequests \in Nat /\ ClearLimit \in Nat \ {0}
  /\ {MaxMissingRootsPerCollection, MaxDeletedRingsPerCollection,
      MaxRecentRootsPerRing, ReplayAbandonThreshold, ReplayCooldownSeconds}
       \subseteq Nat \ {0}
  /\ {TerminateMayFail, Unsubscription, LocalTermination, OffchainWorker,
      EnsureSubscriberOrigin} \subseteq BOOLEAN

VARIABLES
  ringRoots, collectionStates, ringExponents, subscription,
  lastProcessedSequence, batchWait, replayWait, replayPool, toNotifier,
  excused,                \* history: keys lost to Chain, until sealed again
  gaveUp                  \* history: keys whose replay was abandoned

S == INSTANCE MembersSubscriber WITH Messages <- {}

subscriberSide ==
  <<ringRoots, collectionStates, ringExponents, subscription,
    lastProcessedSequence, batchWait, replayWait, replayPool, toNotifier>>
syncVars == <<notifierVars, subscriberSide, excused, gaveUp>>

-----------------------------------------------------------------------------
(* Steps of the notifier.                                                  *)

Registered == Chain \in DOMAIN subscribers

SubscribeChain ==
  /\ \E collections \in CollectionLists : Subscribe(Chain, collections)
  /\ excused' = {}
  /\ UNCHANGED gaveUp

UnsubscribeChain ==
  /\ Unsubscription
  /\ UnsubscribeByGovernance(Chain)
  /\ TerminateMayFail \/ outbox' # outbox
  /\ UNCHANGED <<excused, gaveUp>>

\* A sealed batch is another chance for its keys.
Seal == /\ EnqueueUpdates
        /\ excused' = excused \ sealedBatchIndices'
        /\ UNCHANGED gaveUp

Abandon == /\ AbandonStuckBatch
           /\ excused' = IF Chain \in Awaiting THEN excused \cup sealedBatchIndices
                                               ELSE excused
           /\ UNCHANGED gaveUp

SkipChain == /\ SendBatchSkipped(Chain)
             /\ excused' = excused \cup sealedBatchIndices
             /\ UNCHANGED gaveUp

NotifierSteps ==
  \/ SubscribeChain \/ UnsubscribeChain \/ Seal \/ Abandon \/ SkipChain
  \/ /\ \/ SendBatchAll(Chain) \/ SendBatchFailed(Chain)
        \/ SendInitPage(Chain)
        \/ \E c \in Collections : ProviderActions(c)
        \/ \E c \in Collections, indices \in ReplaySets :
             RequestReplay(Chain, c, indices)
        \/ \E size \in ChannelSizes : ChannelChanged(Chain, size)
     /\ UNCHANGED <<excused, gaveUp>>

\* Time passes on both chains; on the subscriber's only its offchain worker
\* looks at the clock.
Clock ==
  \/ Tick /\ UNCHANGED <<subscriberSide, excused, gaveUp>>
  \/ OffchainWorker /\ S!SubscriberTick /\ UNCHANGED <<notifierVars, excused, gaveUp>>

-----------------------------------------------------------------------------
(* Messages between the chains.                                            *)

\* With local termination, updates may come that nobody repeats: the notifier
\* takes them for delivered while the subscriber is not active.
MessageDelivered ==
  /\ Executed(Chain)
  /\ S!Receive(Head(outbox[Chain]))
  /\ gaveUp' = IF S!IsActive /\ subscription' # subscription THEN {} ELSE gaveUp
  /\ LET m == Head(outbox[Chain])
     IN excused' = IF LocalTermination /\ m.call = "update" /\ ~S!IsActive
                   THEN excused \cup ({m.identifier} \X DOMAIN m.updates) ELSE excused

RequestDelivered ==
  /\ S!RequestExecuted
  /\ LET q == Head(toNotifier)
         refused ==
           IF q.call = "unsubscribe"
           THEN ~EnsureSubscriberOrigin \/ ~Registered
           ELSE ~(/\ ReplayAllowed(Chain, q.identifier, q.indices)
                  /\ HasRoom(Chain, 1))
     IN CASE refused -> UNCHANGED notifierVars
          [] ~refused /\ q.call = "unsubscribe" -> UnsubscribeBySubscriber(Chain)
          [] ~refused /\ q.call = "request_replay" ->
               RequestReplay(Chain, q.identifier, q.indices)
  /\ UNCHANGED <<excused, gaveUp>>

-----------------------------------------------------------------------------
(* Steps of the subscriber.                                                *)

ReplayIncluded(c) ==
  /\ S!ReplayMissingRoots(c)
  /\ gaveUp' = gaveUp \cup
       {<<c, r>> : r \in DOMAIN collectionStates[c].missing_indices
                         \ DOMAIN collectionStates'[c].missing_indices}
  /\ UNCHANGED <<notifierVars, excused>>

SubscriberSteps ==
  \/ \E c \in Collections : ReplayIncluded(c)
  \/ /\ \E c \in Collections : \/ OffchainWorker /\ S!SubmitReplay(c)
                               \/ S!DropReplay(c)
     /\ UNCHANGED <<notifierVars, excused, gaveUp>>
  \/ /\ LocalTermination
     /\ S!TerminatedLocally
     /\ TerminateMayFail \/ toNotifier' # toNotifier
     /\ gaveUp' = {} /\ excused' = RingKeys
     /\ UNCHANGED notifierVars

SyncInit == Init /\ S!Init /\ excused = {} /\ gaveUp = {}

SyncNext ==
  \/ NotifierSteps /\ UNCHANGED subscriberSide
  \/ Clock
  \/ MessageDelivered
  \/ RequestDelivered
  \/ SubscriberSteps

SyncSpec == SyncInit /\ [][SyncNext]_syncVars

\* The offchain worker of the notifier runs in every block and submits again
\* what did not get through, and the relay chain delivers: a send succeeds if
\* the channel has room again and again.
SyncFairness ==
  /\ WF_syncVars(Clock)
  /\ WF_syncVars(Seal /\ UNCHANGED subscriberSide)
  /\ WF_syncVars(MessageDelivered)
  /\ SF_syncVars(SendBatchAll(Chain) /\ UNCHANGED <<subscriberSide, excused, gaveUp>>)
  /\ SF_syncVars(SendInitPage(Chain) /\ UNCHANGED <<subscriberSide, excused, gaveUp>>)

FairSyncSpec == SyncSpec /\ SyncFairness

-----------------------------------------------------------------------------
(* Properties.                                                             *)

\* Nothing about key k is on its way to Chain.
Settled(k) ==
  /\ \A page \in Pages : k \notin pendingUpdates[page]
  /\ ~(k \in sealedBatchIndices /\ Chain \in Awaiting)
  /\ k \notin excused

\* The channel to Chain is empty and its initialisation is done.
Quiet == /\ Registered
         /\ Chain \notin DOMAIN pendingInit
         /\ outbox[Chain] = <<>>

\* The point of the two pallets: whatever order roots are built and deleted,
\* batches sealed, sent in chunks, refused and sent again, init pages
\* interleaved, chains unsubscribed and subscribed anew, once nothing about a
\* ring is on its way the subscriber accepts proofs against exactly its
\* current root: the newest stored revision is the provider's, and a deleted
\* ring has no window left.
Mirrored ==
  Quiet => \A i \in DOMAIN subscribers[Chain].collections, r \in RingIndices :
    LET c == subscribers[Chain].collections[i]
    IN Settled(<<c, r>>) =>
         IF HasRoot(c, r)
         THEN /\ S!verify_membership(c, r, roots[c][r])
              /\ Last(ringRoots[c][r]) = roots[c][r]
         ELSE ringRoots[c][r] = <<>>

\* Also after a batch was skipped or abandoned, every ring below the
\* subscriber's next_ring_index is stored, known to be deleted or tracked as
\* missing, until its replay is given up.
GapsTracked ==
  \A c \in Collections :
    LET state == collectionStates[c]
    IN \A r \in 0..(state.next_ring_index - 1) :
         \/ ringRoots[c][r] # <<>>
         \/ r \in state.deleted_indices
         \/ r \in DOMAIN state.missing_indices
         \/ <<c, r>> \in gaveUp

\* An active subscriber is registered with the notifier or its terminate
\* message is on the way: terminate_subscription and unsubscribe leave nobody
\* accepting proofs against roots that are not updated any more.
NoOrphan ==
  S!IsActive => Registered \/ \E i \in DOMAIN outbox[Chain] :
                                outbox[Chain][i].call = "terminate"

\* "terminate_subscription on the subscriber also ends the subscription on
\* the notifier side": once its request was delivered, nothing is sent to a
\* terminated subscriber until governance subscribes it anew.
EndsOnBothSides ==
  ~ (subscription.status = "Terminated" /\ toNotifier = <<>> /\ Quiet)

\* If the chain stays registered, every change of a root that was not lost to
\* an abandoned batch reaches it in the end: batches, init pages and retries
\* do not starve each other.
InSync ==
  \A c \in Collections, r \in RingIndices :
    \/ <<c, r>> \in excused
    \/ IF HasRoot(c, r) THEN S!verify_membership(c, r, roots[c][r])
                        ELSE ringRoots[c][r] = <<>>

EventuallyInSync == <>[]Registered => <>[]InSync
==============================================================================
