----------------------- MODULE MembersNotifier_proofs -----------------------
(***************************************************************************)
(* Type correctness of MembersNotifier, exactness of the counter           *)
(* `remaining_subscribers`, the condition under which a batch is cleared   *)
(* and exactness of the pages of pending updates, for any number of        *)
(* parachains, collections, rings and pages.                               *)
(***************************************************************************)
EXTENDS MembersNotifier, StorageMaps_proofs

\* The sequence numbers a subscriber and a batch carry, and the storage a
\* finished batch leaves behind.  RemainingExact is inductive only with these.
BatchInv ==
  /\ subscribersWithCurrentBatch \subseteq DOMAIN subscribers
  /\ \A p \in DOMAIN subscribers :
       subscribers[p].last_init_sequence <= sealedBatchSequence
  /\ currentBatch # NoBatch => currentBatch.sequence = sealedBatchSequence
  /\ currentBatch = NoBatch => subscribersWithCurrentBatch = {}
  /\ RemainingExact

-----------------------------------------------------------------------------
(* Lemmas about the operators.                                             *)

\* The minimum of two naturals is a natural (Tick's saturating ages).
LEMMA MinType == ASSUME NEW a \in Nat, NEW b \in Nat
                 PROVE  Min({a, b}) \in Nat
<1>1. \E x \in {a, b} : \A y \in {a, b} : x <= y
  OBVIOUS
<1> QED BY <1>1 DEF Min

\* The maximum of an integer and 0 is a natural (Tick's saturating countdown).
LEMMA MaxType == ASSUME NEW a \in Int
                 PROVE  Max({a, 0}) \in Nat
<1>1. \E x \in {a, 0} : \A y \in {a, 0} : x >= y
  OBVIOUS
<1>2. Max({a, 0}) \in {a, 0} /\ Max({a, 0}) >= 0
  BY <1>1 DEF Max
<1> QED BY <1>2

\* Page numbers stay u16.
LEMMA PageType == ASSUME NEW k \in Nat
                  PROVE  (k + 1) % PageModulus \in Pages
BY NotifierAssumption DEF Pages

\* A page of rings has a last one in storage order.
LEMMA LastOfPage ==
  ASSUME NEW page \in SUBSET RingIndices, page # {}
  PROVE  (CHOOSE r \in page : \A q \in page : StorageRank[q] <= StorageRank[r])
           \in RingIndices
<1> DEFINE T == {MaxRingIndex - StorageRank[r] : r \in page}
<1>1. MaxRingIndex \in Nat
      /\ \A r \in page : StorageRank[r] \in Nat /\ StorageRank[r] <= MaxRingIndex
  BY NotifierAssumption DEF RingIndices
<1>2. T \subseteq Nat
  BY <1>1
<1>3. T # {}
  OBVIOUS
<1>4. PICK x \in T : \A y \in T : ~(<<y, x>> \in OpToRel(<, Nat))
  BY <1>2, <1>3, NatLessThanWellFounded, WFMin
<1>5. \A y \in T : ~(y < x)
  BY <1>2, <1>4 DEF OpToRel
<1>6. PICK r \in page : x = MaxRingIndex - StorageRank[r]
  BY <1>4
<1>7. ASSUME NEW q \in page
      PROVE  StorageRank[q] <= StorageRank[r]
  <2>1. ~(MaxRingIndex - StorageRank[q] < MaxRingIndex - StorageRank[r])
    BY <1>5, <1>6
  <2> QED BY <2>1, <1>1
<1> QED BY <1>7

\* Both outcomes of counting one subscriber off keep the batch well typed.
LEMMA DropRemainingType ==
  ASSUME TypeOK, NEW received \in SUBSET Paras, DropRemaining(received)
  PROVE  /\ currentBatch' \in BatchState
         /\ batchAge' \in Nat
         /\ sealedBatchIndices' \in SUBSET RingKeys
         /\ subscribersWithCurrentBatch' \in SUBSET Paras
BY DEF TypeOK, DropRemaining, clear_batch, BatchState, NoBatch

\* A changed ring root is recorded in a page that exists.
LEMMA ChangeType ==
  ASSUME TypeOK, NEW c \in Collections, NEW r \in RingIndices,
         on_ring_root_change(c, r)
  PROVE  /\ pageState' \in [write_page : Pages, send_page : Pages]
         /\ updateAge' \in Nat
         /\ pendingUpdates' \in [Pages -> SUBSET RingKeys]
         /\ pageUpdatesCount' \in [Pages -> Nat]
<1>1. CASE <<c, r>> \in pendingUpdates[pageState.write_page]
  BY <1>1 DEF on_ring_root_change, TypeOK, paging
<1>2. CASE <<c, r>> \notin pendingUpdates[pageState.write_page]
  <2> DEFINE w == pageState.write_page
             page == IF pageUpdatesCount[w] >= MaxUpdatesPerBatch
                     THEN (w + 1) % PageModulus ELSE w
  <2>1. w \in Pages /\ w \in Nat
    BY NotifierAssumption DEF TypeOK, Pages
  <2>2. page \in Pages
    BY <2>1, PageType
  <2>3. /\ pageState' = [pageState EXCEPT !.write_page = page]
        /\ pendingUpdates' = [pendingUpdates EXCEPT ![page] = @ \cup {<<c, r>>}]
        /\ pageUpdatesCount' = [pageUpdatesCount EXCEPT ![page] = @ + 1]
        /\ UNCHANGED updateAge
    BY <1>2 DEF on_ring_root_change
  <2>4. <<c, r>> \in RingKeys
    BY DEF RingKeys
  <2> HIDE DEF page
  <2>5. pageState' \in [write_page : Pages, send_page : Pages]
    BY <2>2, <2>3 DEF TypeOK
  <2>6. pendingUpdates' \in [Pages -> SUBSET RingKeys]
    BY <2>2, <2>3, <2>4 DEF TypeOK
  <2>7. pageUpdatesCount' \in [Pages -> Nat]
    BY <2>2, <2>3 DEF TypeOK
  <2> QED BY <2>3, <2>5, <2>6, <2>7 DEF TypeOK
<1> QED BY <1>1, <1>2

\* Sealing or dropping a page moves both page pointers to pages that exist.
LEMMA CleanupType ==
  ASSUME TypeOK, cleanup_send_buffer
  PROVE  /\ pageState' \in [write_page : Pages, send_page : Pages]
         /\ updateAge' \in Nat
         /\ pendingUpdates' \in [Pages -> SUBSET RingKeys]
         /\ pageUpdatesCount' \in [Pages -> Nat]
<1>1. /\ pageState.send_page \in Pages /\ pageState.send_page \in Nat
      /\ pageState.write_page \in Pages /\ pageState.write_page \in Nat
  BY NotifierAssumption DEF TypeOK, Pages
<1>2. /\ (pageState.send_page + 1) % PageModulus \in Pages
      /\ (pageState.write_page + 1) % PageModulus \in Pages
  BY <1>1, PageType
<1> QED BY <1>1, <1>2 DEF TypeOK, cleanup_send_buffer

-----------------------------------------------------------------------------
(* Type correctness.                                                       *)

\* Every action of the notifier and of its environment keeps the types.
LEMMA TypeStep == TypeOK /\ [Next]_notifierVars => TypeOK'
<1> SUFFICES ASSUME TypeOK, [Next]_notifierVars PROVE TypeOK'
  OBVIOUS
<1> USE DEF provider, paging, batch, registry, xcm, notifierVars
<1>1. ASSUME NEW p \in Paras, NEW cs \in CollectionLists, Subscribe(p, cs)
      PROVE  TypeOK'
  <2> DEFINE info == [collections |-> cs, last_init_sequence |-> sealedBatchSequence]
             init == [collections |-> cs, current_collection_index |-> 1,
                      after_ring_index |-> -1, sequence |-> sealedBatchSequence]
  <2>1. info \in SubscriberInfo /\ init \in PendingInitState
    BY DEF TypeOK, SubscriberInfo, PendingInitState
  <2>2. IsPartialFunction(Insert(subscribers, p, info), Paras, SubscriberInfo)
    BY <2>1, InsertType DEF TypeOK
  <2>3. IsPartialFunction(Insert(pendingInit, p, init), Paras, PendingInitState)
    BY <2>1, InsertType DEF TypeOK
  <2>4. /\ subscribers' = Insert(subscribers, p, info)
        /\ pendingInit' = Insert(pendingInit, p, init)
        /\ UNCHANGED <<provider, paging, batch, xcm, replayCooldown>>
    BY <1>1 DEF Subscribe
  <2> HIDE DEF info, init
  <2> QED BY <2>2, <2>3, <2>4 DEF TypeOK
<1>2. ASSUME NEW p \in Paras, Unregister(p), DOMAIN outbox' = Paras
      PROVE  TypeOK'
  <2>1. /\ IsPartialFunction(subscribers', Paras, SubscriberInfo)
        /\ IsPartialFunction(pendingInit', Paras, PendingInitState)
    BY <1>2, WithoutType DEF TypeOK, Unregister
  <2>2. replayCooldown' \in [Paras -> [Collections -> Nat]]
    BY <1>2 DEF TypeOK, Unregister
  <2>3. /\ currentBatch' \in BatchState
        /\ batchAge' \in Nat
        /\ sealedBatchIndices' \in SUBSET RingKeys
        /\ subscribersWithCurrentBatch' \in SUBSET Paras
    <3>1. subscribersWithCurrentBatch \in SUBSET Paras
      BY DEF TypeOK
    <3>2. CASE DropRemaining(subscribersWithCurrentBatch)
      BY <3>1, <3>2, DropRemainingType
    <3>3. CASE ~DropRemaining(subscribersWithCurrentBatch)
      BY <3>1, <3>3, <1>2 DEF TypeOK, Unregister
    <3> QED BY <3>2, <3>3
  <2>4. UNCHANGED <<provider, paging, sealedBatchSequence, channel>>
    BY <1>2 DEF Unregister
  <2> QED BY <1>2, <2>1, <2>2, <2>3, <2>4 DEF TypeOK
<1>3. ASSUME NEW p \in Paras, UnsubscribeByGovernance(p) \/ UnsubscribeBySubscriber(p)
      PROVE  TypeOK'
  <2>1. DOMAIN outbox' = Paras
    BY <1>3 DEF TypeOK, UnsubscribeByGovernance, UnsubscribeBySubscriber, Send
  <2> QED BY <1>2, <1>3, <2>1 DEF UnsubscribeByGovernance, UnsubscribeBySubscriber
<1>4. ASSUME NEW p \in Paras, NEW c \in Collections,
             NEW indices \in ReplaySets, RequestReplay(p, c, indices)
      PROVE  TypeOK'
  BY <1>4, NotifierAssumption DEF TypeOK, RequestReplay, Send
<1>5. CASE EnqueueUpdates
  <2>1. /\ pageState' \in [write_page : Pages, send_page : Pages]
        /\ updateAge' \in Nat
        /\ pendingUpdates' \in [Pages -> SUBSET RingKeys]
        /\ pageUpdatesCount' \in [Pages -> Nat]
    BY <1>5, CleanupType DEF EnqueueUpdates, authorize_enqueue_updates
  <2>2. Cardinality(DOMAIN subscribers) \in Nat
    BY NotifierAssumption, FS_Subset, FS_CardinalityType DEF TypeOK, IsPartialFunction
  <2>3. /\ sealedBatchSequence' \in Nat
        /\ currentBatch' \in BatchState
        /\ batchAge' \in Nat
        /\ subscribersWithCurrentBatch' \in SUBSET Paras
    BY <1>5, <2>2 DEF EnqueueUpdates, authorize_enqueue_updates, TypeOK, BatchState
  <2>4. sealedBatchIndices' \in SUBSET RingKeys
    <3>1. pendingUpdates[pageState.send_page] \in SUBSET RingKeys
      BY DEF TypeOK
    <3> QED BY <1>5, <3>1 DEF EnqueueUpdates, authorize_enqueue_updates, TypeOK
  <2> QED BY <1>5, <2>1, <2>3, <2>4 DEF EnqueueUpdates, authorize_enqueue_updates, TypeOK
<1>6. ASSUME NEW p \in Paras, SendBatchAll(p) \/ SendBatchSkipped(p)
      PROVE  TypeOK'
  <2>1. DropRemaining(subscribersWithCurrentBatch \cup {p})
    BY <1>6 DEF SendBatchAll, SendBatchSkipped, MarkProcessed
  <2>2. subscribersWithCurrentBatch \cup {p} \in SUBSET Paras
    BY DEF TypeOK
  <2>3. DOMAIN outbox' = Paras
    BY <1>6 DEF TypeOK, SendBatchAll, SendBatchSkipped, Send
  <2> QED BY <1>6, <2>1, <2>2, <2>3, DropRemainingType
       DEF TypeOK, SendBatchAll, SendBatchSkipped, MarkProcessed
<1>7. ASSUME NEW p \in Paras, SendBatchFailed(p)
      PROVE  TypeOK'
  BY <1>7 DEF TypeOK, SendBatchFailed, Send
<1>8. ASSUME NEW p \in Paras, SendInitPage(p)
      PROVE  TypeOK'
  <2>1. IsPartialFunction(pendingInit', Paras, PendingInitState)
    <3>1. IsPartialFunction(Without(pendingInit, p), Paras, PendingInitState)
      BY WithoutType DEF TypeOK
    <3>2. ASSUME NEW page \in SUBSET RingIndices,
                 advance_init_pagination(p, page, channel[p])
          PROVE  IsPartialFunction(pendingInit', Paras, PendingInitState)
      <4> DEFINE last == CHOOSE r \in page :
                           \A q \in page : StorageRank[q] <= StorageRank[r]
      <4>1. CASE Cardinality(page) = channel[p]
        <5>1. page # {}
          <6>1. channel[p] \in Nat /\ channel[p] > 0
            BY <1>8, NotifierAssumption DEF SendInitPage, TypeOK
          <6> QED BY <4>1, <6>1, FS_EmptySet
        <5>2. last \in RingIndices
          BY <5>1, LastOfPage
        <5>3. pendingInit' = [pendingInit EXCEPT ![p].after_ring_index = last]
          BY <3>2, <4>1 DEF advance_init_pagination
        <5> HIDE DEF last
        <5> QED BY <5>2, <5>3 DEF TypeOK, IsPartialFunction, PendingInitState
      <4>2. CASE ~(Cardinality(page) = channel[p])
        <5> DEFINE s == pendingInit[p]
                   t == [collections |-> s.collections,
                         current_collection_index |-> s.current_collection_index + 1,
                         after_ring_index |-> -1, sequence |-> s.sequence]
        <5>1. \/ pendingInit' = Without(pendingInit, p)
              \/ pendingInit' = [pendingInit EXCEPT ![p] = t]
          BY <3>2, <4>2 DEF advance_init_pagination
        <5>2. t \in PendingInitState
          <6>1. s \in PendingInitState
            BY <1>8 DEF TypeOK, IsPartialFunction, SendInitPage
          <6> HIDE DEF s
          <6> QED BY <6>1 DEF PendingInitState
        <5> HIDE DEF t
        <5> QED BY <3>1, <5>1, <5>2 DEF TypeOK, IsPartialFunction
      <4> QED BY <4>1, <4>2
    <3>3. \A c, after, limit :
            get_ring_roots_paginated(c, after, limit) \in SUBSET RingIndices
      BY DEF get_ring_roots_paginated
    <3>4. \/ pendingInit' = Without(pendingInit, p)
          \/ \E page \in SUBSET RingIndices :
               advance_init_pagination(p, page, channel[p])
      BY <1>8, <3>3 DEF SendInitPage
    <3> QED BY <3>1, <3>2, <3>4
  <2>2. DOMAIN outbox' = Paras
    BY <1>8 DEF SendInitPage, Send, TypeOK
  <2> QED BY <1>8, <2>1, <2>2 DEF SendInitPage, TypeOK
<1>9. CASE AbandonStuckBatch
  BY <1>9 DEF AbandonStuckBatch, authorize_abandon_stuck_batch, clear_batch, TypeOK, NoBatch, BatchState
<1>10. ASSUME NEW c \in Collections, NEW r \in RingIndices,
              RootBuilt(c, r) \/ RootDeleted(c, r)
       PROVE  TypeOK'
  <2>1. on_ring_root_change(c, r)
    BY <1>10 DEF RootBuilt, RootDeleted
  <2>2. roots' \in [Collections -> [RingIndices -> Int]]
    <3>1. PICK op \in Int : roots' = [roots EXCEPT ![c][r] = op]
      <4>1. roots[c][r] + 1 \in Int /\ Removed \in Int
        BY DEF TypeOK, Removed
      <4>2. \/ roots' = [roots EXCEPT ![c][r] = roots[c][r] + 1]
            \/ roots' = [roots EXCEPT ![c][r] = Removed]
        BY <1>10 DEF RootBuilt, RootDeleted
      <4> QED BY <4>1, <4>2
    <3> QED BY <3>1 DEF TypeOK
  <2>3. UNCHANGED <<currentRingIndex, batch, registry, xcm>>
    BY <1>10 DEF RootBuilt, RootDeleted
  <2> QED BY <2>1, <2>2, <2>3, ChangeType DEF TypeOK
<1>11. ASSUME NEW c \in Collections, RingFilled(c)
       PROVE  TypeOK'
  BY <1>11 DEF RingFilled, TypeOK
<1>12. CASE Tick
  <2>1. updateAge' \in Nat /\ batchAge' \in Nat
    <3>1. Min({updateAge + 1, UpdateTriggerBlocks}) \in Nat
      <4>1. updateAge + 1 \in Nat /\ UpdateTriggerBlocks \in Nat
        BY NotifierAssumption DEF TypeOK
      <4> QED BY <4>1, MinType
    <3>2. Min({batchAge + 1, StuckBatchTimeout}) \in Nat
      <4>1. batchAge + 1 \in Nat /\ StuckBatchTimeout \in Nat
        BY NotifierAssumption DEF TypeOK
      <4> QED BY <4>1, MinType
    <3> QED BY <1>12, <3>1, <3>2 DEF Tick
  <2>2. replayCooldown' \in [Paras -> [Collections -> Nat]]
    <3>1. ASSUME NEW p \in Paras, NEW c \in Collections
          PROVE  Max({replayCooldown[p][c] - 1, 0}) \in Nat
      <4>1. replayCooldown[p][c] - 1 \in Int
        BY DEF TypeOK
      <4> QED BY <4>1, MaxType
    <3> QED BY <1>12, <3>1 DEF Tick
  <2> QED BY <1>12, <2>1, <2>2 DEF Tick, TypeOK
<1>13. ASSUME NEW p \in Paras, NEW size \in ChannelSizes, ChannelChanged(p, size)
       PROVE  TypeOK'
  BY <1>13 DEF ChannelChanged, TypeOK
<1>14. ASSUME NEW p \in Paras, Executed(p)
       PROVE  TypeOK'
  BY <1>14 DEF Executed, TypeOK
<1>15. CASE UNCHANGED notifierVars
  BY <1>15 DEF TypeOK
<1> QED
  BY <1>1, <1>3, <1>4, <1>5, <1>6, <1>7, <1>8, <1>9, <1>10, <1>11, <1>12, <1>13,
     <1>14, <1>15
  DEF Next, NotifierNext, SubscriberActions, ProviderActions, SendBatch

\* The notifier's storage keeps its types: Spec implies TypeOK always.
THEOREM TypeCorrect == Spec => []TypeOK
<1>1. Init => TypeOK
  BY NotifierAssumption
     DEF Init, TypeOK, IsPartialFunction, NoBatch, BatchState, Pages, Unbuilt
<1> QED BY <1>1, TypeStep, PTL DEF Spec

-----------------------------------------------------------------------------
(* The number of subscribers a batch still has to reach.                   *)

\* The awaited subscribers are finitely many.
LEMMA AwaitingFinite ==
  ASSUME TypeOK
  PROVE  /\ IsFiniteSet(DOMAIN subscribers)
         /\ IsFiniteSet(Awaiting)
         /\ Cardinality(Awaiting) \in Nat
<1>1. IsFiniteSet(DOMAIN subscribers)
  BY NotifierAssumption, FS_Subset DEF TypeOK, IsPartialFunction
<1>2. Awaiting \in SUBSET DOMAIN subscribers
  BY DEF Awaiting
<1> QED BY <1>1, <1>2, FS_Subset, FS_CardinalityType

\* Counting off an awaited subscriber clears the batch exactly when it was the
\* last one, and otherwise leaves the counter exact for the others.
LEMMA DropExact ==
  ASSUME TypeOK, RemainingExact, currentBatch # NoBatch,
         NEW p \in Awaiting, NEW received, DropRemaining(received)
  PROVE  \/ /\ currentBatch' = NoBatch
            /\ subscribersWithCurrentBatch' = {}
            /\ Awaiting = {p}
         \/ /\ currentBatch'.remaining_subscribers = Cardinality(Awaiting \ {p})
            /\ currentBatch'.sequence = currentBatch.sequence
            /\ Awaiting \ {p} # {}
            /\ currentBatch' # NoBatch
            /\ subscribersWithCurrentBatch' = received
<1>1. /\ IsFiniteSet(Awaiting)
      /\ Cardinality(Awaiting) \in Nat
      /\ Cardinality(Awaiting \ {p}) = Cardinality(Awaiting) - 1
      /\ IsFiniteSet(Awaiting \ {p})
      /\ Cardinality(Awaiting \ {p}) \in Nat
  BY AwaitingFinite, FS_RemoveElement, FS_CardinalityType
<1>2. currentBatch.remaining_subscribers = Cardinality(Awaiting)
  BY DEF RemainingExact
<1>3. CASE currentBatch.remaining_subscribers - 1 <= 0
  <2>1. Cardinality(Awaiting \ {p}) = 0
    BY <1>1, <1>2, <1>3
  <2>2. Awaiting \ {p} = {}
    BY <1>1, <2>1, FS_EmptySet
  <2> QED BY <1>3, <2>2 DEF DropRemaining, clear_batch
<1>4. CASE ~(currentBatch.remaining_subscribers - 1 <= 0)
  <2>1. Cardinality(Awaiting \ {p}) # 0
    BY <1>1, <1>2, <1>4
  <2>2. Awaiting \ {p} # {}
    BY <1>1, <2>1, FS_EmptySet
  <2>3. /\ currentBatch' = [currentBatch EXCEPT !.remaining_subscribers = @ - 1]
        /\ subscribersWithCurrentBatch' = received
    BY <1>4 DEF DropRemaining
  <2>4. /\ currentBatch'.remaining_subscribers = Cardinality(Awaiting \ {p})
        /\ currentBatch'.sequence = currentBatch.sequence
    BY <1>1, <1>2, <2>3 DEF TypeOK, BatchState
  <2>5. currentBatch' # NoBatch
    BY <2>1, <2>4 DEF NoBatch
  <2> QED BY <2>2, <2>3, <2>4, <2>5
<1> QED BY <1>3, <1>4

\* BatchInv depends on four variables only.
LEMMA BatchInvUnchanged ==
  ASSUME BatchInv,
         UNCHANGED <<subscribers, sealedBatchSequence, currentBatch,
                     subscribersWithCurrentBatch>>
  PROVE  BatchInv'
BY DEF BatchInv, RemainingExact, Awaiting

\* A newcomer is not counted in the batch that is already under way.
LEMMA BatchInvSubscribe ==
  ASSUME TypeOK, BatchInv, NEW p \in Paras, NEW cs \in CollectionLists,
         Subscribe(p, cs)
  PROVE  BatchInv'
<1> DEFINE info == [collections |-> cs, last_init_sequence |-> sealedBatchSequence]
<1>1. /\ subscribers' = Insert(subscribers, p, info)
      /\ p \notin DOMAIN subscribers
      /\ UNCHANGED <<sealedBatchSequence, currentBatch, subscribersWithCurrentBatch>>
  BY DEF Subscribe, batch
<1>2. info \in SubscriberInfo /\ info.last_init_sequence = sealedBatchSequence
  BY DEF TypeOK, SubscriberInfo
<1>3. IsPartialFunction(subscribers, Paras, SubscriberInfo)
  BY DEF TypeOK
<1> HIDE DEF info
<1>4. /\ DOMAIN subscribers' = DOMAIN subscribers \cup {p}
      /\ subscribers'[p] = info
      /\ \A q \in DOMAIN subscribers : subscribers'[q] = subscribers[q]
  BY <1>1, <1>2, <1>3, InsertType
<1>5. sealedBatchSequence \in Nat
  BY DEF TypeOK
<1>6. CASE currentBatch # NoBatch
  <2>1. currentBatch.sequence = sealedBatchSequence
    BY <1>6 DEF BatchInv
  <2>2. ~(subscribers'[p].last_init_sequence < currentBatch'.sequence)
    BY <1>1, <1>2, <1>4, <1>5, <2>1
  <2>3. Awaiting' = Awaiting
    BY <1>1, <1>4, <2>2 DEF Awaiting
  <2> QED BY <1>1, <1>2, <1>4, <1>5, <2>3 DEF BatchInv, RemainingExact
<1>7. CASE currentBatch = NoBatch
  BY <1>1, <1>2, <1>4, <1>5, <1>7 DEF BatchInv, RemainingExact
<1> QED BY <1>6, <1>7

\* Somebody leaves: awaited, already served, or never counted.
LEMMA BatchInvUnregister ==
  ASSUME TypeOK, BatchInv, NEW p \in Paras, Unregister(p)
  PROVE  BatchInv'
<1>1. /\ p \in DOMAIN subscribers
      /\ subscribers' = Without(subscribers, p)
      /\ sealedBatchSequence' = sealedBatchSequence
  BY DEF Unregister
<1>2. /\ DOMAIN subscribers' = DOMAIN subscribers \ {p}
      /\ \A q \in DOMAIN subscribers' : subscribers'[q] = subscribers[q]
  BY <1>1 DEF Without
<1>3. \A q \in DOMAIN subscribers' :
        subscribers'[q].last_init_sequence <= sealedBatchSequence'
  BY <1>1, <1>2 DEF BatchInv
<1>4. CASE currentBatch # NoBatch /\ p \in subscribersWithCurrentBatch
  <2>1. /\ subscribersWithCurrentBatch' = subscribersWithCurrentBatch \ {p}
        /\ currentBatch' = currentBatch
    BY <1>4 DEF Unregister
  <2>2. Awaiting' = Awaiting
    BY <1>2, <1>4, <2>1 DEF Awaiting
  <2> QED BY <1>1, <1>2, <1>3, <1>4, <2>1, <2>2 DEF BatchInv, RemainingExact
<1>5. CASE currentBatch # NoBatch /\ p \in Awaiting
  <2>1. currentBatch.remaining_subscribers > 0
    BY <1>5, AwaitingFinite, FS_EmptySet DEF BatchInv, RemainingExact
  <2>2. DropRemaining(subscribersWithCurrentBatch)
    BY <1>5, <2>1 DEF Unregister, Awaiting
  <2>3. CASE currentBatch' = NoBatch /\ subscribersWithCurrentBatch' = {}
    BY <1>3, <2>3 DEF BatchInv, RemainingExact
  <2>4. CASE /\ currentBatch'.remaining_subscribers = Cardinality(Awaiting \ {p})
             /\ currentBatch'.sequence = currentBatch.sequence
             /\ Awaiting \ {p} # {}
             /\ currentBatch' # NoBatch
             /\ subscribersWithCurrentBatch' = subscribersWithCurrentBatch
    <3>1. Awaiting' = Awaiting \ {p}
      BY <1>2, <2>4 DEF Awaiting
    <3>2. subscribersWithCurrentBatch' \subseteq DOMAIN subscribers'
      BY <1>2, <1>5, <2>4 DEF BatchInv, Awaiting
    <3> QED BY <1>1, <1>3, <1>5, <2>4, <3>1, <3>2 DEF BatchInv, RemainingExact
  <2> QED BY <1>5, <2>2, <2>3, <2>4, DropExact DEF BatchInv
<1>6. CASE currentBatch # NoBatch /\ p \notin subscribersWithCurrentBatch
           /\ p \notin Awaiting
  <2>1. ~(subscribers[p].last_init_sequence < currentBatch.sequence)
    BY <1>1, <1>6 DEF Awaiting
  <2>2. UNCHANGED <<currentBatch, subscribersWithCurrentBatch>>
    BY <1>6, <2>1 DEF Unregister
  <2>3. Awaiting' = Awaiting
    BY <1>2, <1>6, <2>2 DEF Awaiting
  <2> QED BY <1>1, <1>2, <1>3, <1>6, <2>2, <2>3 DEF BatchInv, RemainingExact
<1>7. CASE currentBatch = NoBatch
  <2>1. UNCHANGED <<currentBatch, subscribersWithCurrentBatch>>
    BY <1>7 DEF Unregister
  <2> QED BY <1>1, <1>2, <1>3, <1>7, <2>1 DEF BatchInv, RemainingExact
<1> QED BY <1>4, <1>5, <1>6, <1>7

\* A sealed batch awaits every subscriber: all were initialised earlier.
LEMMA BatchInvEnqueue ==
  ASSUME TypeOK, BatchInv, EnqueueUpdates
  PROVE  BatchInv'
<1>1. /\ currentBatch = NoBatch
      /\ subscribers' = subscribers
  BY DEF EnqueueUpdates, authorize_enqueue_updates, registry
<1>2. CASE DOMAIN subscribers = {}
  BY <1>1, <1>2, BatchInvUnchanged DEF EnqueueUpdates, authorize_enqueue_updates, batch
<1>3. CASE DOMAIN subscribers # {}
  <2>1. /\ sealedBatchSequence' = sealedBatchSequence + 1
        /\ currentBatch' = [sequence |-> sealedBatchSequence + 1,
                            remaining_subscribers |-> Cardinality(DOMAIN subscribers)]
        /\ subscribersWithCurrentBatch' = {}
    BY <1>1, <1>3 DEF EnqueueUpdates, authorize_enqueue_updates, BatchInv
  <2>2. \A p \in DOMAIN subscribers :
          /\ subscribers[p].last_init_sequence \in Nat
          /\ subscribers[p].last_init_sequence <= sealedBatchSequence
    BY DEF BatchInv, TypeOK, IsPartialFunction, SubscriberInfo
  <2>3. sealedBatchSequence \in Nat
    BY DEF TypeOK
  <2>4. Awaiting' = DOMAIN subscribers
    BY <1>1, <2>1, <2>2, <2>3 DEF Awaiting
  <2> QED BY <1>1, <1>3, <2>1, <2>2, <2>3, <2>4 DEF BatchInv, RemainingExact
<1> QED BY <1>2, <1>3

\* A subscriber that was served, or skipped, is no longer awaited.
LEMMA BatchInvSend ==
  ASSUME TypeOK, BatchInv, NEW p \in Paras, authorize_send_batch(p), MarkProcessed(p)
  PROVE  BatchInv'
<1>1. currentBatch # NoBatch /\ p \in Awaiting /\ p \in DOMAIN subscribers
  BY DEF authorize_send_batch, Awaiting
<1>2. /\ DropRemaining(subscribersWithCurrentBatch \cup {p})
      /\ UNCHANGED <<subscribers, sealedBatchSequence>>
  BY DEF MarkProcessed, registry
<1>3. CASE currentBatch' = NoBatch /\ subscribersWithCurrentBatch' = {}
  BY <1>2, <1>3 DEF BatchInv, RemainingExact
<1>4. CASE /\ currentBatch'.remaining_subscribers = Cardinality(Awaiting \ {p})
           /\ currentBatch'.sequence = currentBatch.sequence
           /\ Awaiting \ {p} # {}
           /\ currentBatch' # NoBatch
           /\ subscribersWithCurrentBatch' = subscribersWithCurrentBatch \cup {p}
  <2>1. Awaiting' = Awaiting \ {p}
    BY <1>2, <1>4 DEF Awaiting
  <2> QED BY <1>1, <1>2, <1>4, <2>1 DEF BatchInv, RemainingExact
<1> QED BY <1>1, <1>2, <1>3, <1>4, DropExact DEF BatchInv

\* Every action keeps BatchInv.
LEMMA BatchStep == TypeOK /\ BatchInv /\ [Next]_notifierVars => BatchInv'
<1> SUFFICES ASSUME TypeOK, BatchInv, [Next]_notifierVars PROVE BatchInv'
  OBVIOUS
<1>1. ASSUME NEW p \in Paras, SubscriberActions(p)
      PROVE  BatchInv'
  <2>1. CASE \E cs \in CollectionLists : Subscribe(p, cs)
    BY <2>1, BatchInvSubscribe
  <2>2. CASE UnsubscribeByGovernance(p)
    BY <2>2, BatchInvUnregister DEF UnsubscribeByGovernance
  <2>3. CASE \E c \in Collections, indices \in ReplaySets :
               RequestReplay(p, c, indices)
    BY <2>3, BatchInvUnchanged DEF RequestReplay, batch
  <2>4. CASE SendBatch(p)
    <3>1. CASE SendBatchAll(p) \/ SendBatchSkipped(p)
      BY <3>1, BatchInvSend DEF SendBatchAll, SendBatchSkipped
    <3>2. CASE SendBatchFailed(p)
      BY <3>2, BatchInvUnchanged DEF SendBatchFailed, batch, registry
    <3> QED BY <2>4, <3>1, <3>2 DEF SendBatch
  <2>5. CASE SendInitPage(p)
    BY <2>5, BatchInvUnchanged DEF SendInitPage, batch
  <2> QED BY <1>1, <2>1, <2>2, <2>3, <2>4, <2>5 DEF SubscriberActions
<1>2. ASSUME NEW c \in Collections, ProviderActions(c)
      PROVE  BatchInv'
  BY <1>2, BatchInvUnchanged
     DEF ProviderActions, RootBuilt, RootDeleted, RingFilled, batch, registry
<1>3. CASE EnqueueUpdates
  BY <1>3, BatchInvEnqueue
<1>4. CASE AbandonStuckBatch
  BY <1>4 DEF AbandonStuckBatch, authorize_abandon_stuck_batch, clear_batch, BatchInv, RemainingExact, registry
<1>5. CASE Tick
  BY <1>5, BatchInvUnchanged DEF Tick
<1>6. CASE \E p \in Paras, size \in ChannelSizes : ChannelChanged(p, size)
  BY <1>6, BatchInvUnchanged DEF ChannelChanged, batch, registry
<1>7. CASE \E p \in Paras : UnsubscribeBySubscriber(p)
  BY <1>7, BatchInvUnregister DEF UnsubscribeBySubscriber
<1>8. CASE \E p \in Paras : Executed(p)
  BY <1>8, BatchInvUnchanged DEF Executed, batch, registry
<1>9. CASE UNCHANGED notifierVars
  BY <1>9, BatchInvUnchanged DEF notifierVars, batch, registry
<1> QED BY <1>1, <1>2, <1>3, <1>4, <1>5, <1>6, <1>7, <1>8, <1>9 DEF Next, NotifierNext

\* BatchInv holds initially: no batch, nobody subscribed.
LEMMA BatchInit == Init => BatchInv
BY DEF Init, BatchInv, RemainingExact, NoBatch

\* `remaining_subscribers` always counts exactly the subscribers an active
\* batch has not reached, and an active batch always has one.
THEOREM RemainingCorrect == Spec => []RemainingExact
<1>1. TypeOK /\ BatchInv /\ [Next]_notifierVars => BatchInv'
  BY BatchStep
<1>2. BatchInv => RemainingExact
  BY DEF BatchInv
<1> QED BY <1>1, <1>2, BatchInit, TypeCorrect, PTL DEF Spec

\* A batch is only cleared by its last awaited subscriber or after the
\* timeout: no step of the notifier forgets a subscriber earlier.
THEOREM ClearedOnlyWhenServedCorrect == Spec => ClearedOnlyWhenServed
<1> DEFINE Served == currentBatch # NoBatch /\ currentBatch' = NoBatch =>
                       \/ batchAge >= StuckBatchTimeout
                       \/ \E p \in Paras : Awaiting = {p}
<1>1. ASSUME TypeOK, BatchInv, [Next]_notifierVars
      PROVE  [Served]_notifierVars
  <2> SUFFICES ASSUME Next, currentBatch # NoBatch, currentBatch' = NoBatch,
                      ~(batchAge >= StuckBatchTimeout)
               PROVE  \E p \in Paras : Awaiting = {p}
    BY <1>1
  <2>1. ASSUME NEW p \in Paras, NEW received, DropRemaining(received), p \in Awaiting
        PROVE  \E q \in Paras : Awaiting = {q}
    BY <1>1, <2>1, DropExact DEF BatchInv
  <2>2. ASSUME NEW p \in Paras, Unregister(p)
        PROVE  \E q \in Paras : Awaiting = {q}
    BY <2>1, <2>2 DEF Unregister, Awaiting
  <2>3. ASSUME NEW p \in Paras, SubscriberActions(p)
        PROVE  \E q \in Paras : Awaiting = {q}
    <3>1. CASE UnsubscribeByGovernance(p)
      BY <2>2, <3>1 DEF UnsubscribeByGovernance
    <3>2. CASE SendBatchAll(p) \/ SendBatchSkipped(p)
      BY <2>1, <3>2
         DEF SendBatchAll, SendBatchSkipped, MarkProcessed, authorize_send_batch, Awaiting
    <3>3. CASE UNCHANGED currentBatch
      BY <3>3
    <3>4. CASE \E collections \in CollectionLists : Subscribe(p, collections)
      BY <3>3, <3>4 DEF Subscribe, batch
    <3>5. CASE \E c \in Collections, indices \in ReplaySets :
                 RequestReplay(p, c, indices)
      BY <3>3, <3>5 DEF RequestReplay, batch
    <3>6. CASE SendBatchFailed(p)
      BY <3>3, <3>6 DEF SendBatchFailed, batch
    <3>7. CASE SendInitPage(p)
      BY <3>3, <3>7 DEF SendInitPage, batch
    <3> QED BY <2>3, <3>1, <3>2, <3>4, <3>5, <3>6, <3>7 DEF SubscriberActions, SendBatch
  <2>4. CASE \E c \in Collections : ProviderActions(c)
    BY <2>4 DEF ProviderActions, RootBuilt, RootDeleted, RingFilled, batch
  <2>5. CASE EnqueueUpdates
    BY <2>5 DEF EnqueueUpdates, authorize_enqueue_updates
  <2>6. CASE AbandonStuckBatch
    BY <2>6 DEF AbandonStuckBatch, authorize_abandon_stuck_batch
  <2>7. CASE Tick
    BY <2>7 DEF Tick
  <2>8. CASE \E p \in Paras, size \in ChannelSizes : ChannelChanged(p, size)
    BY <2>8 DEF ChannelChanged, batch
  <2>9. CASE \E p \in Paras : UnsubscribeBySubscriber(p)
    BY <2>2, <2>9 DEF UnsubscribeBySubscriber
  <2>10. CASE \E p \in Paras : Executed(p)
    BY <2>10 DEF Executed, batch
  <2> QED BY <2>3, <2>4, <2>5, <2>6, <2>7, <2>8, <2>9, <2>10 DEF Next, NotifierNext
<1>2. TypeOK /\ BatchInv /\ [Next]_notifierVars => BatchInv'
  BY BatchStep
<1> QED BY <1>1, <1>2, BatchInit, TypeCorrect, PTL DEF Spec, ClearedOnlyWhenServed

-----------------------------------------------------------------------------
(* Pages of pending updates.                                               *)

\* PagesExact, and what its cardinalities need: every page is finite.
PagesInv ==
  /\ \A k \in Pages : IsFiniteSet(pendingUpdates[k])
  /\ PagesExact

\* How far page k lies behind page s, counted across the wrap.
LEMMA PageDistance ==
  ASSUME NEW k \in Pages, NEW s \in Pages
  PROVE  (k - s) % PageModulus = IF k >= s THEN k - s ELSE k - s + PageModulus
<1>1. PageModulus \in Nat \ {0} /\ k \in 0..(PageModulus - 1) /\ s \in 0..(PageModulus - 1)
  BY NotifierAssumption DEF Pages
<1> QED BY <1>1, WrapDistance DEF Ahead

\* The page after page k.
LEMMA NextPage ==
  ASSUME NEW k \in Pages
  PROVE  /\ (k + 1) % PageModulus = IF k + 1 = PageModulus THEN 0 ELSE k + 1
         /\ (k + 1) % PageModulus \in Pages
<1>1. PageModulus \in Nat \ {0} /\ k \in 0..(PageModulus - 1)
  BY NotifierAssumption DEF Pages
<1> QED BY <1>1, WrapNext DEF Pages

\* PageDistance without the modulus.
Behind(k, s) == IF k >= s THEN k - s ELSE k - s + PageModulus

\* Unless it reaches the page being sent, the page after the one being
\* written lies one further behind.
LEMMA WindowGrows ==
  ASSUME NEW s \in Pages, NEW w \in Pages, NEW x \in Pages, x # s,
         x = IF w + 1 = PageModulus THEN 0 ELSE w + 1
  PROVE  Behind(x, s) > Behind(w, s)
<1>1. PageModulus \in Nat /\ s \in Int /\ w \in Int /\ x \in Int
      /\ 0 <= s /\ s < PageModulus /\ 0 <= w /\ w < PageModulus
  BY NotifierAssumption DEF Pages
<1>2. CASE w + 1 = PageModulus
  BY <1>1, <1>2 DEF Behind
<1>3. CASE w + 1 # PageModulus
  BY <1>1, <1>3 DEF Behind
<1> QED BY <1>2, <1>3

\* Once page s is sent, no other page leaves the window.
LEMMA WindowShrinks ==
  ASSUME NEW s \in Pages, NEW w \in Pages, NEW k \in Pages, k # s, NEW t, NEW x,
         t = IF s + 1 = PageModulus THEN 0 ELSE s + 1,
         x = IF s = w THEN t ELSE w,
         Behind(k, s) <= Behind(w, s)
  PROVE  Behind(k, t) <= Behind(x, t)
<1>1. PageModulus \in Nat /\ s \in Int /\ w \in Int /\ k \in Int
      /\ 0 <= s /\ s < PageModulus /\ 0 <= w /\ w < PageModulus
      /\ 0 <= k /\ k < PageModulus
  BY NotifierAssumption DEF Pages
<1>2. CASE s = w
  <2>1. Behind(w, s) = 0 /\ Behind(k, s) > 0
    BY <1>1, <1>2 DEF Behind
  <2>2. Behind(k, s) \in Int
    BY <1>1 DEF Behind
  <2> QED BY <2>1, <2>2
<1>3. CASE s # w /\ s + 1 = PageModulus
  BY <1>1, <1>3 DEF Behind
<1>4. CASE s # w /\ s + 1 # PageModulus
  BY <1>1, <1>4 DEF Behind
<1> QED BY <1>2, <1>3, <1>4

\* Nothing the pages consist of changes.
LEMMA PagesUnchanged ==
  ASSUME PagesInv, UNCHANGED <<pageState, pendingUpdates, pageUpdatesCount>>
  PROVE  PagesInv'
BY DEF PagesInv, PagesExact, InWindow

\* A changed root goes to the page being written or, when that one is full,
\* to the next one, which lies outside the window and hence is empty.
LEMMA PagesChange ==
  ASSUME TypeOK, PagesInv, BacklogBelowWrap,
         NEW c \in Collections, NEW r \in RingIndices, on_ring_root_change(c, r)
  PROVE  PagesInv'
<1> DEFINE s == pageState.send_page
           w == pageState.write_page
<1>1. CASE <<c, r>> \in pendingUpdates[w]
  <2>1. UNCHANGED <<pageState, pendingUpdates, pageUpdatesCount>>
    BY <1>1 DEF on_ring_root_change, paging
  <2> QED BY <2>1, PagesUnchanged
<1>2. CASE <<c, r>> \notin pendingUpdates[w]
  <2> DEFINE full == pageUpdatesCount[w] >= MaxUpdatesPerBatch
             page == IF full THEN (w + 1) % PageModulus ELSE w
             u == <<c, r>>
  <2>1. /\ s \in Pages /\ w \in Pages /\ page \in Pages
        /\ PageModulus \in Nat \ {0} /\ MaxUpdatesPerBatch \in Nat \ {0}
        /\ pageUpdatesCount \in [Pages -> Nat]
        /\ pendingUpdates \in [Pages -> SUBSET RingKeys]
    BY NextPage, NotifierAssumption DEF TypeOK
  <2>2. /\ pageState' = [pageState EXCEPT !.write_page = page]
        /\ pendingUpdates' = [pendingUpdates EXCEPT ![page] = @ \cup {u}]
        /\ pageUpdatesCount' = [pageUpdatesCount EXCEPT ![page] = @ + 1]
    BY <1>2 DEF on_ring_root_change
  <2>3. pageState'.send_page = s /\ pageState'.write_page = page
    BY <2>2 DEF TypeOK
  <2>4. /\ \A k \in Pages : InWindow(k) <=> (k - s) % PageModulus <= (w - s) % PageModulus
        /\ \A k \in Pages : InWindow(k)' <=>
             (k - s) % PageModulus <= (page - s) % PageModulus
    BY <2>3 DEF InWindow
  <2>5. page = w \/ (full /\ page # s /\ page = IF w + 1 = PageModulus THEN 0 ELSE w + 1)
    BY <2>1, NextPage DEF BacklogBelowWrap
  <2>6. page # w => (page - s) % PageModulus > (w - s) % PageModulus
    <3>1. /\ (page - s) % PageModulus = Behind(page, s)
          /\ (w - s) % PageModulus = Behind(w, s)
      BY <2>1, PageDistance DEF Behind
    <3>2. page # w => Behind(page, s) > Behind(w, s)
      <4> HIDE DEF page, full, s, w
      <4> QED BY <2>1, <2>5, WindowGrows
    <3> QED BY <3>1, <3>2
  <2>7. (page - s) % PageModulus >= (w - s) % PageModulus
        /\ (page - s) % PageModulus \in Int /\ (w - s) % PageModulus \in Int
    <3>1. (page - s) % PageModulus \in Int /\ (w - s) % PageModulus \in Int
      BY <2>1 DEF Pages
    <3> QED BY <2>6, <3>1
  <2> HIDE DEF s, w
  <2>8. /\ u \notin pendingUpdates[page]
        /\ pageUpdatesCount[page] < MaxUpdatesPerBatch
    <3>1. CASE ~full
      <4>1. pageUpdatesCount[w] \in Nat
        BY <2>1
      <4> QED BY <1>2, <3>1, <2>1, <4>1
    <3>2. CASE full /\ page = w
      <4>1. FALSE
        <5>1. PageModulus = 1
          <6> HIDE DEF full
          <6> QED BY <2>1, <3>2, NextPage DEF Pages
        <5>2. w = 0 /\ s = 0 /\ (w + 1) % PageModulus = 0
          BY <2>1, <3>2, <5>1 DEF Pages
        <5> QED BY <5>2 DEF BacklogBelowWrap, s, w
      <4> QED BY <4>1
    <3>3. CASE page # w
      <4>1. ~InWindow(page)
        <5> HIDE DEF page
        <5> QED BY <2>1, <2>4, <2>6, <2>7, <3>3
      <4>2. pendingUpdates[page] = {} /\ pageUpdatesCount[page] = Cardinality(pendingUpdates[page])
        BY <2>1, <4>1 DEF PagesInv, PagesExact
      <4>3. pageUpdatesCount[page] = 0
        BY <4>2, FS_EmptySet
      <4> HIDE DEF page
      <4> QED BY <2>1, <4>2, <4>3
    <3> QED BY <3>1, <3>2, <3>3
  <2> HIDE DEF page, full
  <2>9. ASSUME NEW k \in Pages
        PROVE  /\ IsFiniteSet(pendingUpdates'[k])
               /\ pageUpdatesCount'[k] = Cardinality(pendingUpdates'[k])
               /\ pageUpdatesCount'[k] <= MaxUpdatesPerBatch
               /\ ~InWindow(k)' => pendingUpdates'[k] = {}
    <3>1. CASE k # page
      <4>1. pendingUpdates'[k] = pendingUpdates[k] /\ pageUpdatesCount'[k] = pageUpdatesCount[k]
        BY <2>1, <2>2, <3>1
      <4>2. (k - s) % PageModulus \in Int
        BY <2>1 DEF Pages
      <4>3. ~InWindow(k)' => ~InWindow(k)
        BY <2>4, <2>7, <4>2
      <4> QED BY <4>1, <4>3 DEF PagesInv, PagesExact
    <3>2. CASE k = page
      <4>1. /\ pendingUpdates'[k] = pendingUpdates[k] \cup {u}
            /\ pageUpdatesCount'[k] = pageUpdatesCount[k] + 1
        BY <2>1, <2>2, <3>2
      <4>2. /\ IsFiniteSet(pendingUpdates[k])
            /\ pageUpdatesCount[k] = Cardinality(pendingUpdates[k])
        BY DEF PagesInv, PagesExact
      <4>3. /\ IsFiniteSet(pendingUpdates[k] \cup {u})
            /\ Cardinality(pendingUpdates[k] \cup {u}) = Cardinality(pendingUpdates[k]) + 1
        BY <2>8, <3>2, <4>2, FS_AddElement
      <4>4. InWindow(k)'
        BY <2>4, <2>7, <3>2
      <4>5. pageUpdatesCount[k] + 1 <= MaxUpdatesPerBatch
        BY <2>1, <2>8, <3>2
      <4> QED BY <4>1, <4>2, <4>3, <4>4, <4>5
    <3> QED BY <3>1, <3>2
  <2> QED BY <2>9 DEF PagesInv, PagesExact
<1> QED BY <1>1, <1>2

\* Sealing drops the page at the start of the window; the page after it is
\* the next of the window or, when the window was that page, an empty one.
LEMMA PagesCleanup ==
  ASSUME TypeOK, PagesInv, cleanup_send_buffer
  PROVE  PagesInv'
<1> DEFINE s == pageState.send_page
           w == pageState.write_page
           t == (s + 1) % PageModulus
           x == IF s = w THEN (w + 1) % PageModulus ELSE w
<1>1. /\ s \in Pages /\ w \in Pages /\ t \in Pages /\ x \in Pages
      /\ PageModulus \in Nat \ {0} /\ MaxUpdatesPerBatch \in Nat \ {0}
      /\ pageUpdatesCount \in [Pages -> Nat]
      /\ pendingUpdates \in [Pages -> SUBSET RingKeys]
  BY NextPage, NotifierAssumption DEF TypeOK
<1>2. /\ pendingUpdates' = [pendingUpdates EXCEPT ![s] = {}]
      /\ pageUpdatesCount' = [pageUpdatesCount EXCEPT ![s] = 0]
      /\ pageState' = [write_page |-> x, send_page |-> t]
  BY DEF cleanup_send_buffer
<1>3. pageState'.send_page = t /\ pageState'.write_page = x
  BY <1>2
<1>4. /\ \A k \in Pages : InWindow(k) <=> (k - s) % PageModulus <= (w - s) % PageModulus
      /\ \A k \in Pages : InWindow(k)' <=>
           (k - t) % PageModulus <= (x - t) % PageModulus
  BY <1>3 DEF InWindow
<1>5. /\ t = IF s + 1 = PageModulus THEN 0 ELSE s + 1
      /\ x = IF s = w THEN t ELSE w
  BY <1>1, NextPage
<1> HIDE DEF s, w, t, x
<1>6. ASSUME NEW k \in Pages
      PROVE  /\ IsFiniteSet(pendingUpdates'[k])
             /\ pageUpdatesCount'[k] = Cardinality(pendingUpdates'[k])
             /\ pageUpdatesCount'[k] <= MaxUpdatesPerBatch
             /\ ~InWindow(k)' => pendingUpdates'[k] = {}
  <2>1. CASE k = s
    <3>1. pendingUpdates'[k] = {} /\ pageUpdatesCount'[k] = 0
      BY <1>1, <1>2, <2>1
    <3> QED BY <1>1, <3>1, FS_EmptySet
  <2>2. CASE k # s
    <3>1. pendingUpdates'[k] = pendingUpdates[k] /\ pageUpdatesCount'[k] = pageUpdatesCount[k]
      BY <1>1, <1>2, <2>2
    <3>2. /\ (k - s) % PageModulus = Behind(k, s)
          /\ (w - s) % PageModulus = Behind(w, s)
          /\ (k - t) % PageModulus = Behind(k, t)
          /\ (x - t) % PageModulus = Behind(x, t)
      BY <1>1, PageDistance DEF Behind
    <3>3. ~InWindow(k)' => ~InWindow(k)
      <4>1. Behind(k, s) <= Behind(w, s) => Behind(k, t) <= Behind(x, t)
        BY <1>1, <1>5, <2>2, WindowShrinks
      <4> QED BY <1>4, <3>2, <4>1
    <3> QED BY <3>1, <3>3 DEF PagesInv, PagesExact
  <2> QED BY <2>1, <2>2
<1> QED BY <1>6 DEF PagesInv, PagesExact

\* Only a changed root and a sealed page touch the pages.
LEMMA PagesStep == TypeOK /\ PagesInv /\ [Next]_notifierVars => PagesInv'
<1> SUFFICES ASSUME TypeOK, PagesInv, [Next]_notifierVars PROVE PagesInv'
  OBVIOUS
<1>1. ASSUME NEW p \in Paras, SubscriberActions(p)
      PROVE  PagesInv'
  <2>1. CASE \E cs \in CollectionLists : Subscribe(p, cs)
    BY <2>1, PagesUnchanged DEF Subscribe, paging
  <2>2. CASE UnsubscribeByGovernance(p)
    BY <2>2, PagesUnchanged DEF UnsubscribeByGovernance, Unregister, paging
  <2>3. CASE \E c \in Collections, indices \in ReplaySets :
               RequestReplay(p, c, indices)
    BY <2>3, PagesUnchanged DEF RequestReplay, paging
  <2>4. CASE SendBatch(p)
    BY <2>4, PagesUnchanged
       DEF SendBatch, SendBatchAll, SendBatchSkipped, SendBatchFailed, MarkProcessed, paging
  <2>5. CASE SendInitPage(p)
    BY <2>5, PagesUnchanged DEF SendInitPage, paging
  <2> QED BY <1>1, <2>1, <2>2, <2>3, <2>4, <2>5 DEF SubscriberActions
<1>2. ASSUME NEW c \in Collections, ProviderActions(c)
      PROVE  PagesInv'
  <2>1. CASE \E r \in RingIndices : RootBuilt(c, r) \/ RootDeleted(c, r)
    BY <2>1, PagesChange DEF RootBuilt, RootDeleted
  <2>2. CASE RingFilled(c)
    BY <2>2, PagesUnchanged DEF RingFilled, paging
  <2> QED BY <1>2, <2>1, <2>2 DEF ProviderActions
<1>3. CASE EnqueueUpdates
  BY <1>3, PagesCleanup DEF EnqueueUpdates
<1>4. CASE AbandonStuckBatch
  BY <1>4, PagesUnchanged DEF AbandonStuckBatch, paging
<1>5. CASE Tick
  BY <1>5, PagesUnchanged DEF Tick
<1>6. CASE \E p \in Paras, size \in ChannelSizes : ChannelChanged(p, size)
  BY <1>6, PagesUnchanged DEF ChannelChanged, paging
<1>7. CASE \E p \in Paras : UnsubscribeBySubscriber(p)
  BY <1>7, PagesUnchanged DEF UnsubscribeBySubscriber, Unregister, paging
<1>8. CASE \E p \in Paras : Executed(p)
  BY <1>8, PagesUnchanged DEF Executed, paging
<1>9. CASE UNCHANGED notifierVars
  BY <1>9, PagesUnchanged DEF notifierVars, paging
<1> QED BY <1>1, <1>2, <1>3, <1>4, <1>5, <1>6, <1>7, <1>8, <1>9 DEF Next, NotifierNext

\* Every page starts empty.
LEMMA PagesInit == Init => PagesInv
<1> SUFFICES ASSUME Init PROVE PagesInv
  OBVIOUS
<1>1. \A k \in Pages : pendingUpdates[k] = {} /\ pageUpdatesCount[k] = 0
  BY DEF Init
<1>2. IsFiniteSet({}) /\ Cardinality({}) = 0 /\ 0 <= MaxUpdatesPerBatch
  BY FS_EmptySet, NotifierAssumption
<1> QED BY <1>1, <1>2 DEF PagesInv, PagesExact

\* The page counters always equal the pages' contents and never exceed
\* MaxUpdatesPerBatch, and no update is left in a page the window from
\* send_page to write_page has passed, however often the numbers wrapped.
THEOREM PagesCorrect == Spec => []PagesExact
<1>1. TypeOK /\ PagesInv /\ [Next]_notifierVars => PagesInv'
  BY PagesStep
<1>2. PagesInv => PagesExact
  BY DEF PagesInv
<1> QED BY <1>1, <1>2, PagesInit, TypeCorrect, PTL DEF Spec
==============================================================================
