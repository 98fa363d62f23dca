------------------------- MODULE RingRootSync_proofs -------------------------
(***************************************************************************)
(* The notifier and one subscriber together, for any number of chains,     *)
(* collections, rings and messages under way: a subscriber that accepts    *)
(* proofs is known to the notifier, no gap goes unnoticed, and once        *)
(* nothing is under way the subscriber mirrors the provider.               *)
(***************************************************************************)
EXTENDS RingRootSync, MembersNotifier_proofs

-----------------------------------------------------------------------------
(* Lists of messages.                                                      *)

\* A list of messages, or of requests, whose calls are among names.
CallsIn(q, names) == \E M : q \in Seq(M) /\ \A m \in M : m.call \in names

NotifierCalls == {"init", "update", "terminate"}
\* Only the subscriber's own governance unsubscribes.
RequestCalls ==
  IF LocalTermination THEN {"unsubscribe", "request_replay"} ELSE {"request_replay"}

\* Sending appends.
LEMMA CallsConcat ==
  ASSUME NEW q, NEW s, NEW names, CallsIn(q, names), CallsIn(s, names)
  PROVE  /\ CallsIn(q \o s, names)
         /\ Len(q \o s) = Len(q) + Len(s) /\ Len(q) \in Nat /\ Len(s) \in Nat
         /\ \A i \in 1..Len(q) : (q \o s)[i] = q[i]
         /\ \A i \in 1..Len(s) : (q \o s)[Len(q) + i] = s[i]
<1>1. PICK A : q \in Seq(A) /\ \A m \in A : m.call \in names
  BY DEF CallsIn
<1>2. PICK B : s \in Seq(B) /\ \A m \in B : m.call \in names
  BY DEF CallsIn
<1>3. PICK M : M = A \cup B
  OBVIOUS
<1>4. q \in Seq(M) /\ s \in Seq(M) /\ \A m \in M : m.call \in names
  BY <1>1, <1>2, <1>3
<1>5. /\ q \o s \in Seq(M)
      /\ Len(q \o s) = Len(q) + Len(s)
      /\ \A i \in 1..Len(q) : (q \o s)[i] = q[i]
      /\ \A i \in 1..Len(s) : (q \o s)[Len(q) + i] = s[i]
  BY <1>4, ConcatProperties
<1> QED BY <1>4, <1>5 DEF CallsIn

\* Executing takes the oldest message.
LEMMA CallsTail ==
  ASSUME NEW q, NEW names, CallsIn(q, names), q # <<>>
  PROVE  /\ Len(q) \in Nat \ {0} /\ DOMAIN q = 1..Len(q)
         /\ Head(q) = q[1] /\ q[1].call \in names
         /\ CallsIn(Tail(q), names)
         /\ Len(Tail(q)) = Len(q) - 1 /\ DOMAIN Tail(q) = 1..(Len(q) - 1)
         /\ \A i \in 1..(Len(q) - 1) : Tail(q)[i] = q[i + 1]
<1>1. PICK M : q \in Seq(M) /\ \A m \in M : m.call \in names
  BY DEF CallsIn
<1>2. Len(q) \in Nat \ {0} /\ DOMAIN q = 1..Len(q) /\ q[1] \in M
  BY <1>1
<1>3. /\ Tail(q) \in Seq(M) /\ Len(Tail(q)) = Len(q) - 1
      /\ \A i \in 1..Len(Tail(q)) : Tail(q)[i] = q[i + 1]
      /\ Head(q) = q[1]
  BY <1>1, HeadTailProperties
<1>4. DOMAIN Tail(q) = 1..(Len(q) - 1)
  BY <1>3
<1> QED BY <1>1, <1>2, <1>3, <1>4 DEF CallsIn

\* A list of one message.
LEMMA CallsOne ==
  ASSUME NEW m, NEW names, m.call \in names
  PROVE  CallsIn(<<m>>, names) /\ Len(<<m>>) = 1 /\ <<m>>[1] = m
<1>1. PICK M : M = {m}
  OBVIOUS
<1>2. <<m>> \in Seq(M) /\ \A x \in M : x.call \in names
  BY <1>1
<1> QED BY <1>2 DEF CallsIn

\* A list that ends has its places.
LEMMA CallsPlaces ==
  ASSUME NEW q, NEW names, CallsIn(q, names)
  PROVE  Len(q) \in Nat /\ DOMAIN q = 1..Len(q)
BY DEF CallsIn

-----------------------------------------------------------------------------
(* What the notifier sends.                                                *)

\* Cutting indices into chunks gives a list of index sets.
LEMMA ChunksType ==
  ASSUME NEW I, IsFiniteSet(I), NEW size \in Nat \ {0}
  PROVE  \E n \in Nat : Chunks(I, size) \in [1..n -> SUBSET I]
<1>1. PICK card \in Nat : card = Cardinality(I)
  BY FS_CardinalityType
<1>2. PICK n : n = (card + size - 1) \div size
  OBVIOUS
<1>3. n \in Nat
  <2>1. card + size - 1 \in Nat /\ size \in Nat /\ size > 0
    OBVIOUS
  <2>2. PICK a \in Nat : a = card + size - 1
    BY <2>1
  <2>3. a \div size \in Nat
    BY <2>1
  <2> QED BY <1>2, <2>2, <2>3
<1>4. Chunks(I, size) \in [1..n -> SUBSET I]
  BY <1>1, <1>2 DEF Chunks
<1> QED BY <1>3, <1>4

\* A collection has finitely many rings.
LEMMA FiniteRings == IsFiniteSet(RingIndices)
<1>1. 0 \in Int /\ MaxRingIndex \in Int
  BY NotifierAssumption
<1>2. IsFiniteSet(0..MaxRingIndex)
  BY <1>1, FS_Interval
<1> QED BY <1>2 DEF RingIndices

\* The updates of collection c the sealed batch may carry.
SealedRings(c) == {r \in RingIndices : <<c, r>> \in sealedBatchIndices}
SealedMessages ==
  UNION {{Message("update", c, currentBatch.sequence, resolve_updates_for_indices(c, I)) :
            I \in SUBSET SealedRings(c)} : c \in Collections}

\* The messages of collection c, one per chunk.
CollectionMessages(p, c) ==
  LET chunks == Chunks(SealedRings(c), channel[p])
  IN [k \in DOMAIN chunks |->
        Message("update", c, currentBatch.sequence, resolve_updates_for_indices(c, chunks[k]))]

\* They are messages of the sealed batch.
LEMMA CollectionMessagesType ==
  ASSUME NEW c \in Collections, NEW p, channel[p] \in Nat \ {0}
  PROVE  CollectionMessages(p, c) \in Seq(SealedMessages)
<1>1. IsFiniteSet(SealedRings(c))
  <2>1. SealedRings(c) \subseteq RingIndices
    BY DEF SealedRings
  <2> QED BY <2>1, FiniteRings, FS_Subset
<1>2. PICK l \in Nat : Chunks(SealedRings(c), channel[p]) \in [1..l -> SUBSET SealedRings(c)]
  BY <1>1, ChunksType
<1>3. PICK chunks \in [1..l -> SUBSET SealedRings(c)] : chunks = Chunks(SealedRings(c), channel[p])
  BY <1>2
<1>4. \A I \in SUBSET SealedRings(c) :
        Message("update", c, currentBatch.sequence, resolve_updates_for_indices(c, I))
          \in SealedMessages
  <2> DEFINE of(d) == {Message("update", d, currentBatch.sequence,
                               resolve_updates_for_indices(d, I)) :
                         I \in SUBSET SealedRings(d)}
  <2>1. \A I \in SUBSET SealedRings(c) :
          Message("update", c, currentBatch.sequence, resolve_updates_for_indices(c, I))
            \in of(c)
    OBVIOUS
  <2>2. SealedMessages = UNION {of(d) : d \in Collections}
    BY DEF SealedMessages
  <2> HIDE DEF of
  <2> QED BY <2>1, <2>2
<1>5. CollectionMessages(p, c) = [k \in 1..l |->
          Message("update", c, currentBatch.sequence, resolve_updates_for_indices(c, chunks[k]))]
  BY <1>3 DEF CollectionMessages
<1>6. \A k \in 1..l :
        Message("update", c, currentBatch.sequence, resolve_updates_for_indices(c, chunks[k]))
          \in SealedMessages
  BY <1>4
<1>7. CollectionMessages(p, c) \in [1..l -> SealedMessages]
  BY <1>5, <1>6
<1> QED BY <1>7

\* send_batch sends them for each collection of the subscriber.
LEMMA BatchLists ==
  ASSUME TypeOK, NEW p \in DOMAIN subscribers, channel[p] \in Nat \ {0}
  PROVE  \E n \in Nat : \E lists :
           /\ lists \in [1..n -> Seq(SealedMessages)]
           /\ BatchMessages(p) = FlattenSeq(lists)
           /\ DOMAIN subscribers[p].collections = 1..n
           /\ \A i \in 1..n : /\ subscribers[p].collections[i] \in Collections
                              /\ lists[i] = CollectionMessages(p, subscribers[p].collections[i])
<1>1. PICK cs \in Seq(Collections) : cs = subscribers[p].collections
  BY NotifierAssumption DEF TypeOK, IsPartialFunction, SubscriberInfo
<1>2. PICK n \in Nat : n = Len(cs) /\ DOMAIN cs = 1..n /\ \A i \in 1..n : cs[i] \in Collections
  <2>1. Len(cs) \in Nat /\ DOMAIN cs = 1..Len(cs) /\ \A i \in 1..Len(cs) : cs[i] \in Collections
    OBVIOUS
  <2> QED BY <2>1
<1>3. PICK lists : lists = [i \in 1..n |-> CollectionMessages(p, cs[i])]
  OBVIOUS
<1>4. lists \in [1..n -> Seq(SealedMessages)]
  BY <1>2, <1>3, CollectionMessagesType
<1>5. BatchMessages(p) = FlattenSeq(lists)
  BY <1>1, <1>2, <1>3 DEF BatchMessages, CollectionMessages, SealedRings
<1>6. /\ DOMAIN subscribers[p].collections = 1..n
      /\ \A i \in 1..n : /\ subscribers[p].collections[i] \in Collections
                         /\ lists[i] = CollectionMessages(p, subscribers[p].collections[i])
  BY <1>1, <1>2, <1>3
<1> QED BY ONLY n \in Nat, <1>4, <1>5, <1>6

\* So a batch is a list of such messages.
LEMMA BatchMessagesType ==
  ASSUME TypeOK, NEW p \in DOMAIN subscribers, channel[p] \in Nat \ {0}
  PROVE  BatchMessages(p) \in Seq(SealedMessages)
<1>1. PICK n \in Nat :
        \E lists \in [1..n -> Seq(SealedMessages)] : BatchMessages(p) = FlattenSeq(lists)
  BY BatchLists
<1>2. PICK lists \in [1..n -> Seq(SealedMessages)] : BatchMessages(p) = FlattenSeq(lists)
  BY <1>1
<1> QED BY <1>2, FlattenType

\* The accepted ones of a list of messages, in order.
LEMMA AcceptedType ==
  ASSUME NEW M, NEW messages \in Seq(M), NEW accepted \in SUBSET DOMAIN messages
  PROVE  [k \in 1..Cardinality(accepted) |->
            messages[CHOOSE i \in accepted :
              Cardinality({j \in accepted : j <= i}) = k]] \in Seq(M)
<1>1. accepted \subseteq 1..Len(messages) /\ Len(messages) \in Nat
  OBVIOUS
<1>2. IsFiniteSet(accepted)
  <2>1. PICK n \in Int : n = Len(messages)
    BY <1>1
  <2>2. IsFiniteSet(1..n)
    <3>1. 1 \in Int
      OBVIOUS
    <3> QED BY <3>1, FS_Interval
  <2> QED BY <1>1, <2>1, <2>2, FS_Subset
<1>3. accepted \in SUBSET Nat
  BY <1>1
<1>4. PICK n \in Nat : n = Cardinality(accepted)
  BY <1>2, FS_CardinalityType
<1>5. ASSUME NEW k \in 1..n
      PROVE  messages[CHOOSE i \in accepted : Cardinality({j \in accepted : j <= i}) = k] \in M
  <2>1. \E i \in accepted : Cardinality({j \in accepted : j <= i}) = k
    BY <1>2, <1>3, <1>4, RankExists
  <2>2. PICK i \in accepted :
          i = CHOOSE x \in accepted : Cardinality({j \in accepted : j <= x}) = k
    BY <2>1
  <2>3. messages[i] \in M
    BY <1>1
  <2> QED BY <2>2, <2>3
<1>6. [k \in 1..n |->
            messages[CHOOSE i \in accepted :
              Cardinality({j \in accepted : j <= i}) = k]] \in [1..n -> M]
  BY <1>5
<1>7. [1..n -> M] \subseteq Seq(M)
  OBVIOUS
<1> QED BY <1>4, <1>6, <1>7

-----------------------------------------------------------------------------
(* The notifier's own steps are steps of its specification.                *)

\* A request the notifier executes is refused or one of its own actions.
LEMMA RequestCases ==
  ASSUME CallsIn(toNotifier, RequestCalls), RequestDelivered
  PROVE  /\ toNotifier # <<>> /\ toNotifier' = Tail(toNotifier)
         /\ UNCHANGED <<ringRoots, collectionStates, ringExponents, subscription>>
         /\ UNCHANGED <<excused, gaveUp>>
         /\ \/ UNCHANGED notifierVars
            \/ /\ Head(toNotifier).call = "unsubscribe" /\ EnsureSubscriberOrigin
               /\ UnsubscribeBySubscriber(Chain)
            \/ /\ Head(toNotifier).call = "request_replay"
               /\ RequestReplay(Chain, Head(toNotifier).identifier, Head(toNotifier).indices)
<1>1. /\ toNotifier # <<>> /\ toNotifier' = Tail(toNotifier)
      /\ UNCHANGED <<ringRoots, collectionStates, ringExponents, subscription>>
      /\ UNCHANGED <<excused, gaveUp>>
  BY DEF RequestDelivered, S!RequestExecuted, S!ringData
<1>2. PICK q : q = Head(toNotifier)
  OBVIOUS
<1>3. q.call \in {"unsubscribe", "request_replay"}
  <2>1. q.call \in RequestCalls
    BY <1>1, <1>2, CallsTail
  <2> QED BY <2>1 DEF RequestCalls
<1>4. PICK refused \in BOOLEAN :
        /\ refused = (IF q.call = "unsubscribe"
                      THEN ~EnsureSubscriberOrigin \/ ~Registered
                      ELSE ~(/\ ReplayAllowed(Chain, q.identifier, q.indices)
                             /\ HasRoom(Chain, 1)))
        /\ CASE refused -> UNCHANGED notifierVars
             [] ~refused /\ q.call = "unsubscribe" -> UnsubscribeBySubscriber(Chain)
             [] ~refused /\ q.call = "request_replay" ->
                  RequestReplay(Chain, q.identifier, q.indices)
  BY <1>2 DEF RequestDelivered
<1>5. CASE refused
  <2>1. UNCHANGED notifierVars
    BY <1>4, <1>5
  <2> QED BY <1>1, <2>1
<1>6. CASE ~refused /\ q.call = "unsubscribe"
  <2>1. UnsubscribeBySubscriber(Chain)
    BY <1>4, <1>6
  <2>2. EnsureSubscriberOrigin
    BY <1>4, <1>6
  <2> QED BY <1>1, <1>2, <1>6, <2>1, <2>2
<1>7. CASE ~refused /\ q.call = "request_replay"
  <2>1. RequestReplay(Chain, q.identifier, q.indices)
    BY <1>4, <1>7
  <2> QED BY <1>1, <1>2, <1>7, <2>1
<1> QED BY <1>3, <1>5, <1>6, <1>7

\* The types of the notifier's storage also hold when a real subscriber asks.
LEMMA SyncTypeStep ==
  ASSUME TypeOK, CallsIn(toNotifier, RequestCalls), [SyncNext]_syncVars
  PROVE  TypeOK'
<1>1. Chain \in Paras
  BY SyncAssumption
<1>2. ASSUME NEW c, NEW indices, RequestReplay(Chain, c, indices)
      PROVE  TypeOK'
  <2>1. DOMAIN outbox' = Paras /\ replayCooldown' \in [Paras -> [Collections -> Nat]]
    BY <1>2, NotifierAssumption DEF TypeOK, RequestReplay, Send
  <2> QED BY <1>2, <2>1 DEF TypeOK, RequestReplay, provider, paging, batch
<1>3. CASE NotifierSteps
  <2>1. \/ Next \/ \E c, indices : RequestReplay(Chain, c, indices)
    BY <1>1, <1>3
    DEF NotifierSteps, SubscribeChain, UnsubscribeChain, Seal, Abandon, SkipChain, Next,
        NotifierNext, SubscriberActions, SendBatch
  <2> QED BY <1>2, <2>1, TypeStep
<1>4. CASE Clock
  <2>1. Tick \/ UNCHANGED notifierVars
    BY <1>4 DEF Clock
  <2> QED BY <2>1, TypeStep DEF Next, NotifierNext
<1>5. CASE MessageDelivered
  <2>1. Executed(Chain)
    BY <1>5 DEF MessageDelivered
  <2> QED BY <1>1, <2>1, TypeStep DEF Next
<1>6. CASE RequestDelivered
  <2>1. \/ UNCHANGED notifierVars
        \/ UnsubscribeBySubscriber(Chain)
        \/ \E c, indices : RequestReplay(Chain, c, indices)
    BY <1>6, RequestCases
  <2>2. CASE UNCHANGED notifierVars
    BY <2>2, TypeStep
  <2>3. CASE UnsubscribeBySubscriber(Chain)
    BY <1>1, <2>3, TypeStep DEF Next
  <2>4. CASE \E c, indices : RequestReplay(Chain, c, indices)
    BY <1>2, <2>4
  <2> QED BY <2>1, <2>2, <2>3, <2>4
<1>7. CASE SubscriberSteps \/ UNCHANGED syncVars
  <2>1. UNCHANGED notifierVars
    BY <1>7 DEF SubscriberSteps, ReplayIncluded, syncVars
  <2> QED BY <2>1, TypeStep
<1> QED BY <1>3, <1>4, <1>5, <1>6, <1>7 DEF SyncNext

-----------------------------------------------------------------------------
(* Nobody accepts proofs unknown to the notifier.                          *)

\* Every initialisation under way is followed by a termination.
InitsEnded(q) ==
  \A i \in DOMAIN q : q[i].call = "init" =>
    \E j \in DOMAIN q : j > i /\ q[j].call = "terminate"

\* NoOrphan is inductive only with what is under way in both channels.
OrphanInv ==
  /\ TypeOK
  /\ CallsIn(outbox[Chain], NotifierCalls) /\ CallsIn(toNotifier, RequestCalls)
  /\ Chain \in DOMAIN pendingInit => Registered
  /\ ~Registered => InitsEnded(outbox[Chain])
  /\ NoOrphan

\* Nothing changes for a chain that is registered, or that neither leaves nor
\* is sent anything.
LEMMA OrphanQuiet ==
  ASSUME OrphanInv, TypeOK', CallsIn(toNotifier', RequestCalls),
         outbox'[Chain] = outbox[Chain] \/ Registered',
         CallsIn(outbox'[Chain], NotifierCalls),
         Chain \in DOMAIN pendingInit' => Registered',
         Registered => Registered',
         S!IsActive' => S!IsActive
  PROVE  OrphanInv'
<1>1. CASE Registered'
  BY <1>1 DEF OrphanInv, NoOrphan
<1>2. CASE ~Registered'
  <2>1. ~Registered /\ outbox'[Chain] = outbox[Chain]
    BY <1>2
  <2>2. InitsEnded(outbox'[Chain])
    BY <2>1 DEF OrphanInv
  <2>3. NoOrphan'
    BY <2>1 DEF OrphanInv, NoOrphan
  <2> QED BY <1>2, <2>2, <2>3 DEF OrphanInv
<1> QED BY <1>1, <1>2

\* A message sent to the chain is at the end of its channel.
LEMMA SendStep ==
  ASSUME TypeOK, CallsIn(outbox[Chain], NotifierCalls),
         NEW msgs, CallsIn(msgs, NotifierCalls), Send(Chain, msgs)
  PROVE  /\ outbox'[Chain] = outbox[Chain] \o msgs
         /\ CallsIn(outbox'[Chain], NotifierCalls)
<1>1. outbox'[Chain] = outbox[Chain] \o msgs
  BY SyncAssumption DEF Send, TypeOK
<1> QED BY <1>1, CallsConcat

\* What send_batch, send_init_page and request_replay send has known calls.
LEMMA SentCalls ==
  ASSUME TypeOK, CallsIn(outbox[Chain], NotifierCalls),
         \/ SendBatchAll(Chain) \/ SendBatchFailed(Chain) \/ SendInitPage(Chain)
         \/ \E c, indices : RequestReplay(Chain, c, indices)
  PROVE  CallsIn(outbox'[Chain], NotifierCalls)
<1>1. ASSUME NEW m, m.call \in NotifierCalls, Send(Chain, <<m>>)
      PROVE  CallsIn(outbox'[Chain], NotifierCalls)
  BY <1>1, CallsOne, SendStep
<1>2. \A c, n, ups : /\ Message("update", c, n, ups).call \in NotifierCalls
                     /\ Message("init", c, n, ups).call \in NotifierCalls
  BY DEF Message, NotifierCalls
<1>3. \A m \in SealedMessages : m.call \in NotifierCalls
  BY <1>2 DEF SealedMessages
<1>4. ASSUME SendBatchAll(Chain) \/ SendBatchFailed(Chain)
      PROVE  BatchMessages(Chain) \in Seq(SealedMessages)
  <2>1. Chain \in DOMAIN subscribers /\ channel[Chain] > 0
    BY <1>4 DEF SendBatchAll, SendBatchFailed, authorize_send_batch
  <2>2. channel[Chain] \in Nat
    BY SyncAssumption, NotifierAssumption DEF TypeOK
  <2> QED BY <2>1, <2>2, BatchMessagesType
<1>5. CASE SendBatchAll(Chain)
  <2>1. Send(Chain, BatchMessages(Chain))
    BY <1>5 DEF SendBatchAll
  <2>2. CallsIn(BatchMessages(Chain), NotifierCalls)
    BY <1>3, <1>4, <1>5 DEF CallsIn
  <2> QED BY <2>1, <2>2, SendStep
<1>6. CASE SendBatchFailed(Chain)
  <2>1. BatchMessages(Chain) \in Seq(SealedMessages)
    BY <1>4, <1>6
  <2>2. PICK accepted \in SUBSET DOMAIN BatchMessages(Chain) :
          Send(Chain, [k \in 1..Cardinality(accepted) |->
               BatchMessages(Chain)[CHOOSE i \in accepted :
                 Cardinality({j \in accepted : j <= i}) = k]])
    BY <1>6 DEF SendBatchFailed
  <2>3. PICK msgs : msgs = [k \in 1..Cardinality(accepted) |->
               BatchMessages(Chain)[CHOOSE i \in accepted :
                 Cardinality({j \in accepted : j <= i}) = k]]
    OBVIOUS
  <2>5. msgs \in Seq(SealedMessages)
    BY <2>1, <2>3, AcceptedType
  <2>6. CallsIn(msgs, NotifierCalls)
    BY <1>3, <2>5 DEF CallsIn
  <2> QED BY <2>2, <2>3, <2>6, SendStep
<1>7. CASE SendInitPage(Chain)
  <2>1. \/ outbox' = outbox
        \/ \E c, n, ups : Send(Chain, <<Message("init", c, n, ups)>>)
    BY <1>7 DEF SendInitPage
  <2>2. CASE outbox' = outbox
    BY <2>2
  <2>3. CASE \E c, n, ups : Send(Chain, <<Message("init", c, n, ups)>>)
    BY <1>1, <1>2, <2>3
  <2> QED BY <2>1, <2>2, <2>3
<1>8. CASE \E c, indices : RequestReplay(Chain, c, indices)
  <2>1. PICK c, indices : RequestReplay(Chain, c, indices)
    BY <1>8
  <2>2. Send(Chain, <<Message("update", c, sealedBatchSequence,
                         resolve_updates_for_indices(c, indices))>>)
    BY <2>1 DEF RequestReplay
  <2> QED BY <1>1, <1>2, <2>2
<1> QED BY <1>5, <1>6, <1>7, <1>8

\* Requests of the subscriber have known calls.
LEMMA RequestsSent ==
  ASSUME NEW requests, CallsIn(requests, RequestCalls), CallsIn(toNotifier, RequestCalls),
         S!SendToNotifier(requests)
  PROVE  CallsIn(toNotifier', RequestCalls)
<1>1. toNotifier' = toNotifier \o requests
  BY DEF S!SendToNotifier
<1> QED BY <1>1, CallsConcat

\* Delivering a message to the subscriber keeps NoOrphan: an initialisation
\* that makes it active is followed by the termination it needs.
LEMMA OrphanDelivered ==
  ASSUME OrphanInv, TypeOK', MessageDelivered
  PROVE  OrphanInv'
<1>1. PICK q : q = outbox[Chain]
  OBVIOUS
<1>2. /\ q # <<>> /\ outbox'[Chain] = Tail(q)
      /\ UNCHANGED <<subscribers, pendingInit>>
      /\ S!Receive(Head(q))
  BY <1>1, SyncAssumption DEF MessageDelivered, Executed, registry, OrphanInv, TypeOK
<1>3. CallsIn(q, NotifierCalls)
  BY <1>1 DEF OrphanInv
<1>4. /\ Len(q) \in Nat \ {0} /\ DOMAIN q = 1..Len(q)
      /\ Head(q) = q[1] /\ q[1].call \in NotifierCalls
      /\ CallsIn(Tail(q), NotifierCalls)
      /\ DOMAIN Tail(q) = 1..(Len(q) - 1)
      /\ \A i \in 1..(Len(q) - 1) : Tail(q)[i] = q[i + 1]
  BY <1>2, <1>3, CallsTail
<1>5. toNotifier' = toNotifier
  BY <1>2 DEF S!Receive
\* A later termination is still there.
<1>6. ASSUME NEW j \in DOMAIN q, j > 1, q[j].call = "terminate"
      PROVE  \E i \in DOMAIN Tail(q) : Tail(q)[i].call = "terminate"
  <2>1. j - 1 \in 1..(Len(q) - 1) /\ (j - 1) + 1 = j
    BY <1>4, <1>6
  <2>2. Tail(q)[j - 1] = q[j]
    BY <1>4, <2>1
  <2> QED BY <1>4, <1>6, <2>1, <2>2
<1>7. (~Registered => InitsEnded(outbox[Chain]))'
  <2>1. SUFFICES ASSUME ~Registered PROVE InitsEnded(Tail(q))
    BY <1>2 DEF Registered
  <2>2. InitsEnded(q)
    BY <1>1, <2>1 DEF OrphanInv
  <2>3. ASSUME NEW i \in 1..(Len(q) - 1), Tail(q)[i].call = "init"
        PROVE  \E j \in 1..(Len(q) - 1) : j > i /\ Tail(q)[j].call = "terminate"
    <3>1. i + 1 \in DOMAIN q /\ q[i + 1].call = "init"
      BY <1>4, <2>3
    <3>2. PICK j \in DOMAIN q : j > i + 1 /\ q[j].call = "terminate"
      BY <2>2, <3>1 DEF InitsEnded
    <3>3. j - 1 \in 1..(Len(q) - 1) /\ (j - 1) + 1 = j /\ j - 1 > i
      BY <1>4, <3>2
    <3>4. Tail(q)[j - 1] = q[j]
      BY <1>4, <3>3
    <3> QED BY <3>2, <3>3, <3>4
  <2> QED BY <1>4, <2>3 DEF InitsEnded
<1>8. NoOrphan'
  <2>1. SUFFICES ASSUME S!IsActive', ~Registered
                 PROVE  \E i \in DOMAIN Tail(q) : Tail(q)[i].call = "terminate"
    BY <1>2 DEF NoOrphan, Registered
  <2>2. CASE q[1].call = "init"
    <3>1. InitsEnded(q) /\ 1 \in DOMAIN q
      BY <1>1, <1>4, <2>1 DEF OrphanInv
    <3>2. PICK j \in DOMAIN q : j > 1 /\ q[j].call = "terminate"
      BY <2>2, <3>1 DEF InitsEnded
    <3> QED BY <1>6, <3>2
  <2>3. CASE q[1].call = "update"
    <3>1. S!process_ring_updates(q[1])
      BY <1>2, <1>4, <2>3 DEF S!Receive
    <3>2. subscription' = subscription
      BY <3>1 DEF S!process_ring_updates
    <3>3. S!IsActive
      BY <2>1, <3>2 DEF S!IsActive
    <3>4. PICK j \in DOMAIN q : q[j].call = "terminate"
      BY <1>1, <2>1, <3>3 DEF OrphanInv, NoOrphan
    <3>5. j > 1
      <4>1. j # 1
        BY <2>3, <3>4
      <4> QED BY <1>4, <4>1
    <3> QED BY <1>6, <3>4, <3>5
  <2>4. CASE q[1].call = "terminate"
    <3>1. S!TerminatedByNotifier
      BY <1>2, <1>4, <2>4 DEF S!Receive
    <3>2. ~S!IsActive'
      BY <3>1 DEF S!TerminatedByNotifier, S!IsActive, S!Terminated
    <3> QED BY <2>1, <3>2
  <2> QED BY <1>4, <2>2, <2>3, <2>4 DEF NotifierCalls
<1>9. (Chain \in DOMAIN pendingInit => Registered)'
  BY <1>2 DEF OrphanInv, Registered
<1>10. CallsIn(outbox'[Chain], NotifierCalls) /\ CallsIn(toNotifier', RequestCalls)
  BY <1>2, <1>4, <1>5 DEF OrphanInv
<1> QED BY <1>7, <1>8, <1>9, <1>10 DEF OrphanInv

\* The calls of the chunks of one replay.
LEMMA ReplayCalls ==
  ASSUME NEW c, S!ReplayMissingRoots(c), CallsIn(toNotifier, RequestCalls)
  PROVE  CallsIn(toNotifier', RequestCalls)
<1>1. PICK chunks : chunks = S!Chunks(S!Attempted(c).to_send, MaxUpdatesPerBatch)
  OBVIOUS
<1>2. PICK sent \in 0..Len(chunks) :
        S!SendToNotifier([k \in 1..sent |-> S!ReplayRequest(c, chunks[k])])
  BY <1>1 DEF S!ReplayMissingRoots
<1>3. PICK requests : requests = [k \in 1..sent |-> S!ReplayRequest(c, chunks[k])]
  OBVIOUS
<1>4. CallsIn(requests, RequestCalls)
  <2>1. PICK M : M = {S!ReplayRequest(c, chunks[k]) : k \in 1..sent}
    OBVIOUS
  <2>2. sent \in Nat
    OBVIOUS
  <2>3. \A k \in 1..sent : S!ReplayRequest(c, chunks[k]) \in M
    BY <2>1
  <2>4. requests \in Seq(M)
    BY <1>3, <2>2, <2>3
  <2>5. \A x : S!ReplayRequest(c, x).call \in RequestCalls
    BY DEF S!ReplayRequest, RequestCalls
  <2>6. \A m \in M : m.call \in RequestCalls
    BY <2>1, <2>5
  <2> QED BY <2>4, <2>6 DEF CallsIn
<1> QED BY <1>2, <1>3, <1>4, RequestsSent

\* Every step of the two pallets keeps the invariant.
LEMMA OrphanStep ==
  ASSUME ~TerminateMayFail, ~(LocalTermination /\ EnsureSubscriberOrigin),
         OrphanInv, [SyncNext]_syncVars
  PROVE  OrphanInv'
<1> USE DEF provider, paging, batch, registry, xcm
<1>1. /\ TypeOK /\ Chain \in Paras
      /\ CallsIn(outbox[Chain], NotifierCalls) /\ CallsIn(toNotifier, RequestCalls)
      /\ Chain \in DOMAIN pendingInit => Registered
  BY SyncAssumption DEF OrphanInv
<1>2. TypeOK'
  BY <1>1, SyncTypeStep
\* Steps that leave the subscriber alone.
<1>3. ASSUME UNCHANGED subscriberSide PROVE toNotifier' = toNotifier /\ subscription' = subscription
  BY <1>3 DEF subscriberSide
<1>4. ASSUME UNCHANGED <<subscribers, pendingInit, outbox, subscription>>,
             CallsIn(toNotifier', RequestCalls)
      PROVE  OrphanInv'
  BY <1>1, <1>2, <1>4, OrphanQuiet DEF Registered, S!IsActive
\* Messages to a registered chain.
<1>5. ASSUME UNCHANGED <<subscribers, subscription>>, Registered,
             CallsIn(toNotifier', RequestCalls),
             CallsIn(outbox'[Chain], NotifierCalls)
      PROVE  OrphanInv'
  <2>1. Registered'
    BY <1>5 DEF Registered
  <2> QED BY <1>1, <1>2, <1>5, <2>1, OrphanQuiet DEF S!IsActive
<1>6. ASSUME RequestReplay(Chain, Head(toNotifier).identifier, Head(toNotifier).indices)
             \/ (\E c \in Collections, indices \in ReplaySets : RequestReplay(Chain, c, indices)),
             UNCHANGED subscription, CallsIn(toNotifier', RequestCalls)
      PROVE  OrphanInv'
  <2>1. PICK c, indices : RequestReplay(Chain, c, indices)
    BY <1>6
  <2>2. Registered /\ UNCHANGED subscribers
    BY <2>1 DEF RequestReplay, ReplayAllowed, Registered
  <2>3. CallsIn(outbox'[Chain], NotifierCalls)
    BY <1>1, <2>1, SentCalls
  <2> QED BY <1>5, <1>6, <2>2, <2>3
<1>7. CASE NotifierSteps /\ UNCHANGED subscriberSide
  <2>0. toNotifier' = toNotifier /\ subscription' = subscription
    BY <1>3, <1>7
  <2>1. CASE SubscribeChain
    <3>1. Registered' /\ UNCHANGED outbox
      BY <2>1 DEF SubscribeChain, Subscribe, Insert, Registered
    <3> QED BY <1>1, <1>2, <2>0, <3>1, OrphanQuiet DEF S!IsActive
  <2>2. CASE UnsubscribeChain
    <3>0. PICK q : q = outbox'[Chain]
      OBVIOUS
    <3>1. Unregister(Chain) /\ Send(Chain, <<TerminateSubscription>>)
      BY <2>2 DEF UnsubscribeChain, UnsubscribeByGovernance
    <3>2. ~Registered' /\ Chain \notin DOMAIN pendingInit'
      BY <3>1 DEF Unregister, Without, Registered
    <3>3. CallsIn(<<TerminateSubscription>>, NotifierCalls)
      <4>1. TerminateSubscription.call \in NotifierCalls
        BY DEF TerminateSubscription, NotifierCalls
      <4> QED BY <4>1, CallsOne
    <3>4. /\ outbox'[Chain] = outbox[Chain] \o <<TerminateSubscription>>
          /\ CallsIn(outbox'[Chain], NotifierCalls)
      BY <1>1, <3>1, <3>3, SendStep
    <3>5. PICK n \in Nat : n = Len(outbox[Chain])
      BY <1>1, CallsPlaces
    <3>6. DOMAIN q = 1..(n + 1) /\ q[n + 1].call = "terminate"
      <4>1. /\ Len(q) = n + Len(<<TerminateSubscription>>)
            /\ \A i \in 1..Len(<<TerminateSubscription>>) : q[n + i] = <<TerminateSubscription>>[i]
        BY <1>1, <3>3, <3>4, <3>5, <3>0, CallsConcat
      <4>2. Len(q) = n + 1 /\ q[n + 1] = TerminateSubscription
        BY <4>1
      <4>3. DOMAIN q = 1..Len(q)
        BY <3>4, <3>5, <3>0, CallsPlaces
      <4> QED BY <4>2, <4>3 DEF TerminateSubscription
    <3>7. n + 1 \in 1..(n + 1)
      BY <3>5
    <3>8. NoOrphan'
      BY <3>5, <3>0, <3>6, <3>7 DEF NoOrphan
    <3>9. InitsEnded(q)
      <4>1. ASSUME NEW i \in 1..(n + 1), q[i].call = "init" PROVE n + 1 > i
        <5>1. i # n + 1
          BY <3>6, <4>1
        <5> QED BY <3>5, <5>1
      <4> QED BY <3>6, <3>7, <4>1 DEF InitsEnded
    <3> QED BY <1>1, <1>2, <2>0, <3>2, <3>4, <3>5, <3>0, <3>8, <3>9 DEF OrphanInv
  <2>3. CASE Seal \/ Abandon \/ SkipChain
    <3>1. UNCHANGED <<subscribers, pendingInit, outbox>>
      BY <2>3 DEF Seal, Abandon, SkipChain, EnqueueUpdates, AbandonStuckBatch,
                  SendBatchSkipped, MarkProcessed
    <3> QED BY <1>1, <1>4, <2>0, <3>1
  <2>4. CASE SendBatchAll(Chain) \/ SendBatchFailed(Chain)
    <3>1. UNCHANGED subscribers /\ Registered
      BY <2>4 DEF SendBatchAll, SendBatchFailed, MarkProcessed, authorize_send_batch, Registered
    <3>2. CallsIn(outbox'[Chain], NotifierCalls)
      BY <1>1, <2>4, SentCalls
    <3> QED BY <1>1, <1>5, <2>0, <3>1, <3>2
  <2>5. CASE SendInitPage(Chain)
    <3>1. UNCHANGED subscribers /\ Registered
      BY <1>1, <2>5 DEF SendInitPage
    <3>2. CallsIn(outbox'[Chain], NotifierCalls)
      BY <1>1, <2>5, SentCalls
    <3> QED BY <1>1, <1>5, <2>0, <3>1, <3>2
  <2>6. CASE \/ \E c \in Collections : ProviderActions(c)
             \/ \E size \in ChannelSizes : ChannelChanged(Chain, size)
    <3>1. UNCHANGED <<subscribers, pendingInit, outbox>>
      BY <2>6 DEF ProviderActions, RootBuilt, RootDeleted, RingFilled, ChannelChanged
    <3> QED BY <1>1, <1>4, <2>0, <3>1
  <2>7. CASE \E c \in Collections, indices \in ReplaySets : RequestReplay(Chain, c, indices)
    BY <1>1, <1>6, <2>0, <2>7
  <2> QED BY <1>7, <2>1, <2>2, <2>3, <2>4, <2>5, <2>6, <2>7 DEF NotifierSteps
<1>8. CASE Clock
  <2>1. UNCHANGED <<subscribers, pendingInit, outbox, subscription, toNotifier>>
    BY <1>8 DEF Clock, Tick, S!SubscriberTick, subscriberSide, notifierVars
  <2> QED BY <1>1, <1>4, <2>1
<1>9. CASE MessageDelivered
  BY <1>2, <1>9, OrphanDelivered
<1>10. CASE RequestDelivered
  <2>1. /\ toNotifier # <<>> /\ toNotifier' = Tail(toNotifier) /\ UNCHANGED subscription
        /\ \/ UNCHANGED notifierVars
           \/ Head(toNotifier).call = "unsubscribe" /\ EnsureSubscriberOrigin
           \/ RequestReplay(Chain, Head(toNotifier).identifier, Head(toNotifier).indices)
    BY <1>1, <1>10, RequestCases
  <2>2. CallsIn(toNotifier', RequestCalls) /\ Head(toNotifier).call \in RequestCalls
    BY <1>1, <2>1, CallsTail
  <2>3. CASE UNCHANGED notifierVars
    BY <1>4, <2>1, <2>2, <2>3 DEF notifierVars
  <2>4. CASE Head(toNotifier).call = "unsubscribe" /\ EnsureSubscriberOrigin
    BY <2>2, <2>4 DEF RequestCalls
  <2> QED BY <1>6, <2>1, <2>2, <2>3, <2>4
<1>11. CASE SubscriberSteps
  <2>1. UNCHANGED <<subscribers, pendingInit, outbox>>
    BY <1>11 DEF SubscriberSteps, ReplayIncluded, notifierVars
  <2>2. CASE \E c \in Collections : ReplayIncluded(c)
    <3>1. PICK c \in Collections : S!ReplayMissingRoots(c)
      BY <2>2 DEF ReplayIncluded
    <3>2. UNCHANGED subscription
      BY <3>1 DEF S!ReplayMissingRoots
    <3> QED BY <1>1, <1>4, <2>1, <3>1, <3>2, ReplayCalls
  <2>3. CASE \E c \in Collections : S!SubmitReplay(c) \/ S!DropReplay(c)
    <3>1. UNCHANGED <<subscription, toNotifier>>
      BY <2>3 DEF S!SubmitReplay, S!DropReplay
    <3> QED BY <1>1, <1>4, <2>1, <3>1
  <2>4. CASE LocalTermination /\ S!TerminatedLocally
    <3>1. ~S!IsActive'
      BY <2>4 DEF S!TerminatedLocally, S!IsActive, S!Terminated
    <3>2. CallsIn(toNotifier', RequestCalls)
      <4>1. CASE toNotifier' = toNotifier
        BY <1>1, <4>1
      <4>2. CASE S!SendToNotifier(<<S!Unsubscribe>>)
        <5>1. S!Unsubscribe.call \in RequestCalls
          BY <2>4 DEF S!Unsubscribe, RequestCalls
        <5> QED BY <1>1, <4>2, <5>1, CallsOne, RequestsSent
      <4> QED BY <2>4, <4>1, <4>2 DEF S!TerminatedLocally
    <3> QED BY <1>1, <1>2, <2>1, <3>1, <3>2, OrphanQuiet DEF Registered
  <2> QED BY <1>11, <2>2, <2>3, <2>4 DEF SubscriberSteps
<1>12. CASE UNCHANGED syncVars
  BY <1>1, <1>4, <1>12 DEF syncVars, notifierVars, subscriberSide
<1> QED BY <1>7, <1>8, <1>9, <1>10, <1>11, <1>12 DEF SyncNext

\* If neither router refuses a termination and the notifier does not take a
\* request of an already terminated subscriber, no subscriber goes on accepting
\* proofs of a notifier that does not know it.
THEOREM NoOrphanCorrect ==
  ASSUME ~TerminateMayFail, ~(LocalTermination /\ EnsureSubscriberOrigin)
  PROVE  SyncSpec => []NoOrphan
<1>1. SyncInit => OrphanInv
  <2> SUFFICES ASSUME SyncInit PROVE OrphanInv
    OBVIOUS
  <2>1. Init /\ S!Init
    BY DEF SyncInit
  <2>2. TypeOK
    BY <2>1, NotifierAssumption
       DEF Init, TypeOK, IsPartialFunction, NoBatch, BatchState, Pages, Unbuilt
  <2>3. outbox[Chain] = <<>> /\ toNotifier = <<>> /\ Chain \notin DOMAIN pendingInit
    BY <2>1, SyncAssumption DEF Init, S!Init
  <2>4. CallsIn(<<>>, NotifierCalls) /\ CallsIn(<<>>, RequestCalls)
    <3>1. PICK M : M = {}
      OBVIOUS
    <3>2. <<>> \in Seq(M) /\ \A m \in M : m.call \in NotifierCalls \cap RequestCalls
      BY <3>1
    <3> QED BY <3>2 DEF CallsIn
  <2>5. InitsEnded(<<>>)
    BY DEF InitsEnded
  <2>6. ~S!IsActive
    BY <2>1 DEF S!Init, S!IsActive, S!Inactive
  <2> QED BY <2>2, <2>3, <2>4, <2>5, <2>6 DEF OrphanInv, NoOrphan
<1>2. OrphanInv /\ [SyncNext]_syncVars => OrphanInv'
  BY OrphanStep
<1>3. OrphanInv => NoOrphan
  BY DEF OrphanInv
<1> QED BY <1>1, <1>2, <1>3, PTL DEF SyncSpec

-----------------------------------------------------------------------------
(* What the notifier knows of the rings it sends updates of.               *)

\* Only rings whose root was built are sealed or pending, they are known rings
\* of their collection, and the ring being filled is never a deleted one.
ProviderInv ==
  /\ \A c \in Collections :
       /\ currentRingIndex[c] \in RingIndices
       /\ roots[c][currentRingIndex[c]] # Removed
       /\ \A r \in RingIndices :
            /\ roots[c][r] \in Nat \cup {Unbuilt, Removed}
            /\ roots[c][r] # Unbuilt => r <= currentRingIndex[c]
  /\ \A page \in Pages : \A k \in pendingUpdates[page] : roots[k[1]][k[2]] # Unbuilt
  /\ \A k \in sealedBatchIndices : roots[k[1]][k[2]] # Unbuilt

\* Rings below the bound of the subscribers' messages.
LEMMA KnownBelowNext ==
  ASSUME TypeOK, ProviderInv, NEW c \in Collections
  PROVE  /\ next_ring_index(c) \in 0..(MaxRingIndex + 1)
         /\ \A r \in RingIndices : roots[c][r] # Unbuilt => r < next_ring_index(c)
<1>1. PICK n \in 0..MaxRingIndex : n = currentRingIndex[c]
  BY DEF ProviderInv, RingIndices
<1>2. MaxRingIndex \in Nat
  BY NotifierAssumption
<1>3. next_ring_index(c) = IF HasRoot(c, n) THEN n + 1 ELSE n
  BY <1>1 DEF next_ring_index
<1>4. next_ring_index(c) \in 0..(MaxRingIndex + 1)
  BY <1>1, <1>2, <1>3
<1>5. ASSUME NEW r \in RingIndices, roots[c][r] # Unbuilt
      PROVE  r < next_ring_index(c)
  <2>1. r <= n /\ r \in Int /\ n \in Int
    BY <1>1, <1>2, <1>5 DEF ProviderInv, RingIndices
  <2>2. CASE r = n
    <3>1. roots[c][n] \in Nat
      BY <1>1, <1>5, <2>2 DEF ProviderInv
    <3>2. HasRoot(c, n)
      BY <3>1 DEF HasRoot
    <3> QED BY <1>3, <2>1, <2>2, <3>2
  <2>3. CASE r < n
    <3>1. r < n + 1
      BY <2>1, <2>3
    <3> QED BY <1>3, <2>3, <3>1
  <2> QED BY <2>1, <2>2, <2>3
<1> QED BY <1>4, <1>5

\* Steps that change no root and no page.
LEMMA ProviderQuiet ==
  ASSUME ProviderInv, UNCHANGED <<roots, currentRingIndex, pendingUpdates>>,
         sealedBatchIndices' = sealedBatchIndices \/ sealedBatchIndices' = {}
  PROVE  ProviderInv'
BY DEF ProviderInv

\* A changed root is pending, and an old one stays built or deleted.
LEMMA ProviderChange ==
  ASSUME TypeOK, ProviderInv, NEW c \in Collections, NEW r \in RingIndices,
         RootBuilt(c, r) \/ RootDeleted(c, r)
  PROVE  ProviderInv'
<1>1. r \in Int /\ currentRingIndex[c] \in RingIndices
  BY NotifierAssumption DEF ProviderInv, RingIndices
<1>2. PICK op \in Nat \cup {Removed} :
        /\ roots' = [roots EXCEPT ![c][r] = op]
        /\ op = Removed => r # currentRingIndex[c]
        /\ r <= currentRingIndex[c]
  <2>1. CASE RootBuilt(c, r)
    <3>1. roots[c][r] \in Nat \cup {Unbuilt} /\ r <= currentRingIndex[c]
      BY <2>1 DEF RootBuilt, ProviderInv
    <3>2. PICK op \in Nat : op = roots[c][r] + 1
      BY <3>1 DEF Unbuilt
    <3>3. roots' = [roots EXCEPT ![c][r] = op]
      BY <2>1, <3>2 DEF RootBuilt
    <3>4. op # Removed
      BY <3>2 DEF Removed
    <3> QED BY <3>1, <3>3, <3>4
  <2>2. CASE RootDeleted(c, r)
    <3>1. roots[c][r] # Unbuilt
      BY <2>2 DEF RootDeleted, HasRoot, Unbuilt
    <3> QED BY <2>2, <3>1 DEF RootDeleted, ProviderInv
  <2> QED BY <2>1, <2>2
<1>3. op # Unbuilt
  BY <1>2 DEF Unbuilt, Removed
<1>4. roots \in [Collections -> [RingIndices -> Int]] /\ currentRingIndex' = currentRingIndex
      /\ sealedBatchIndices' = sealedBatchIndices
  BY DEF TypeOK, RootBuilt, RootDeleted, batch
<1>5. \A d \in Collections, q \in RingIndices :
        roots'[d][q] = IF d = c /\ q = r THEN op ELSE roots[d][q]
  BY <1>2, <1>4
<1>6. \A page \in Pages : pendingUpdates'[page] \subseteq pendingUpdates[page] \cup {<<c, r>>}
  <2>1. on_ring_root_change(c, r)
    BY DEF RootBuilt, RootDeleted
  <2>2. pendingUpdates \in [Pages -> SUBSET RingKeys]
    BY DEF TypeOK
  <2>3. \/ pendingUpdates' = pendingUpdates
        \/ \E page : pendingUpdates' = [pendingUpdates EXCEPT ![page] = @ \cup {<<c, r>>}]
    BY <2>1 DEF on_ring_root_change, paging
  <2> QED BY <2>2, <2>3
<1>7. ASSUME NEW k \in RingKeys, roots[k[1]][k[2]] # Unbuilt \/ k = <<c, r>>
      PROVE  roots'[k[1]][k[2]] # Unbuilt
  <2>1. k[1] \in Collections /\ k[2] \in RingIndices
    BY DEF RingKeys
  <2> QED BY <1>3, <1>5, <1>7, <2>1
<1>8. ASSUME NEW page \in Pages, NEW k \in pendingUpdates'[page]
      PROVE  roots'[k[1]][k[2]] # Unbuilt
  <2>1. pendingUpdates[page] \subseteq RingKeys /\ <<c, r>> \in RingKeys
    BY DEF TypeOK, RingKeys
  <2>2. k \in pendingUpdates[page] \/ k = <<c, r>>
    BY <1>6, <1>8
  <2>3. k \in pendingUpdates[page] => roots[k[1]][k[2]] # Unbuilt
    BY DEF ProviderInv
  <2> QED BY <1>7, <2>1, <2>2, <2>3
<1>9. ASSUME NEW k \in sealedBatchIndices PROVE roots'[k[1]][k[2]] # Unbuilt
  <2>1. k \in RingKeys /\ roots[k[1]][k[2]] # Unbuilt
    BY DEF TypeOK, ProviderInv
  <2> QED BY <1>7, <2>1
<1>10. ASSUME NEW d \in Collections
       PROVE  /\ currentRingIndex[d] \in RingIndices
              /\ roots'[d][currentRingIndex[d]] # Removed
              /\ \A q \in RingIndices :
                   /\ roots'[d][q] \in Nat \cup {Unbuilt, Removed}
                   /\ roots'[d][q] # Unbuilt => q <= currentRingIndex[d]
  <2>1. /\ currentRingIndex[d] \in RingIndices
        /\ roots[d][currentRingIndex[d]] # Removed
        /\ \A q \in RingIndices :
             /\ roots[d][q] \in Nat \cup {Unbuilt, Removed}
             /\ roots[d][q] # Unbuilt => q <= currentRingIndex[d]
    BY DEF ProviderInv
  <2>2. roots'[d][currentRingIndex[d]] # Removed
    BY <1>2, <1>5, <2>1
  <2> QED BY <1>2, <1>5, <2>1, <2>2
<1> QED BY <1>4, <1>8, <1>9, <1>10 DEF ProviderInv

\* The next ring to be filled is a new one.
LEMMA ProviderFills ==
  ASSUME TypeOK, ProviderInv, NEW c \in Collections, RingFilled(c)
  PROVE  ProviderInv'
<1>1. PICK n \in 0..MaxRingIndex : n = currentRingIndex[c] /\ n < MaxRingIndex
  BY DEF ProviderInv, RingIndices, RingFilled
<1>2. n + 1 \in RingIndices /\ n < n + 1
  <2>1. MaxRingIndex \in Nat
    BY NotifierAssumption
  <2> QED BY <1>1, <2>1 DEF RingIndices
<1>3. /\ UNCHANGED <<roots, pendingUpdates, sealedBatchIndices>>
      /\ currentRingIndex' = [currentRingIndex EXCEPT ![c] = n + 1]
      /\ currentRingIndex \in [Collections -> Nat]
  BY <1>1 DEF RingFilled, paging, batch, TypeOK
<1>4. roots[c][n + 1] = Unbuilt
  <2>1. ~(n + 1 <= n)
    BY <1>1
  <2> QED BY <1>1, <1>2, <2>1 DEF ProviderInv
<1>5. \A d \in Collections : currentRingIndex'[d] = IF d = c THEN n + 1 ELSE currentRingIndex[d]
  BY <1>3
<1>6. ASSUME NEW d \in Collections
      PROVE  /\ currentRingIndex'[d] \in RingIndices
             /\ roots[d][currentRingIndex'[d]] # Removed
             /\ \A q \in RingIndices :
                  /\ roots[d][q] \in Nat \cup {Unbuilt, Removed}
                  /\ roots[d][q] # Unbuilt => q <= currentRingIndex'[d]
  <2>1. /\ currentRingIndex[d] \in RingIndices
        /\ roots[d][currentRingIndex[d]] # Removed
        /\ \A q \in RingIndices :
             /\ roots[d][q] \in Nat \cup {Unbuilt, Removed}
             /\ roots[d][q] # Unbuilt => q <= currentRingIndex[d]
    BY DEF ProviderInv
  <2>2. CASE d # c
    BY <1>5, <2>1, <2>2
  <2>3. CASE d = c
    <3>1. roots[d][n + 1] # Removed
      BY <1>4, <2>3 DEF Unbuilt, Removed
    <3>2. \A q \in RingIndices : q \in Int
      BY DEF RingIndices
    <3>3. \A q \in RingIndices : q <= n => q <= n + 1
      BY <1>1, <3>2
    <3> QED BY <1>1, <1>2, <1>5, <2>1, <2>3, <3>1, <3>3
  <2> QED BY <2>2, <2>3
<1> QED BY <1>3, <1>6 DEF ProviderInv

\* Sealing takes a page.
LEMMA ProviderSeals ==
  ASSUME TypeOK, ProviderInv, EnqueueUpdates
  PROVE  ProviderInv'
<1>1. UNCHANGED <<roots, currentRingIndex>>
  BY DEF EnqueueUpdates, provider
<1>2. PICK s \in Pages : s = pageState.send_page
  BY DEF TypeOK
<1>3. pendingUpdates' = [pendingUpdates EXCEPT ![s] = {}]
      /\ pendingUpdates \in [Pages -> SUBSET RingKeys]
  BY <1>2 DEF EnqueueUpdates, cleanup_send_buffer, TypeOK
<1>4. sealedBatchIndices' \subseteq sealedBatchIndices \cup pendingUpdates[s]
  <2>1. CASE UNCHANGED batch
    BY <2>1 DEF batch
  <2>2. CASE sealedBatchIndices' =
                  {k \in sealedBatchIndices :
                     \A u \in pendingUpdates[pageState.send_page] : u[1] # k[1]}
                  \cup pendingUpdates[pageState.send_page]
    BY <1>2, <2>2
  <2> QED BY <2>1, <2>2 DEF EnqueueUpdates
<1>5. \A page \in Pages : pendingUpdates'[page] \subseteq pendingUpdates[page]
  BY <1>3
<1> QED BY <1>1, <1>2, <1>4, <1>5 DEF ProviderInv

-----------------------------------------------------------------------------
(* The traffic between the two pallets.                                    *)

\* The messages to the subscriber: an update names different rings, all below
\* its next_ring_index.
RootUpdates == UNION {[D -> Nat \cup {Deleted}] : D \in SUBSET RingIndices}
RootMessage ==
  {m \in [call : {"init", "update"}, identifier : Collections, sequence : Nat,
          updates : RootUpdates, next_ring_index : 0..(MaxRingIndex + 1)] :
     \A r \in DOMAIN m.updates : r < m.next_ring_index}
ChannelMessage == RootMessage \cup {TerminateSubscription}
Request ==
  [call : RequestCalls, identifier : Collections \cup {0}, indices : SUBSET RingIndices]

\* A message about known rings.
LEMMA MessageType ==
  ASSUME TypeOK, ProviderInv, NEW call \in {"init", "update"}, NEW c \in Collections,
         NEW sequence \in Nat, NEW I \in SUBSET RingIndices,
         \A r \in I : r < next_ring_index(c)
  PROVE  Message(call, c, sequence, resolve_updates_for_indices(c, I)) \in ChannelMessage
<1>1. PICK u : u = resolve_updates_for_indices(c, I)
  OBVIOUS
<1>2. u = [r \in I |-> IF HasRoot(c, r) THEN roots[c][r] ELSE Deleted]
  BY <1>1 DEF resolve_updates_for_indices
<1>3. \A r \in I : (IF HasRoot(c, r) THEN roots[c][r] ELSE Deleted) \in Nat \cup {Deleted}
  <2>1. \A r \in I : roots[c][r] \in Int
    BY DEF TypeOK
  <2> QED BY <2>1 DEF HasRoot
<1>4. u \in [I -> Nat \cup {Deleted}] /\ DOMAIN u = I
  BY <1>2, <1>3
<1>5. u \in RootUpdates
  BY <1>4 DEF RootUpdates
<1>6. PICK n \in 0..(MaxRingIndex + 1) : n = next_ring_index(c)
  BY KnownBelowNext
<1>7. PICK m : m = Message(call, c, sequence, u)
  OBVIOUS
<1>8. m = [call |-> call, identifier |-> c, sequence |-> sequence, updates |-> u,
           next_ring_index |-> n]
  BY <1>6, <1>7 DEF Message
<1>9. m \in RootMessage
  BY <1>4, <1>5, <1>6, <1>8 DEF RootMessage
<1> QED BY <1>1, <1>7, <1>9 DEF ChannelMessage

\* What is sent goes to the end of the channel.
LEMMA SendType ==
  ASSUME TypeOK, outbox[Chain] \in Seq(ChannelMessage), NEW msgs \in Seq(ChannelMessage),
         Send(Chain, msgs)
  PROVE  outbox'[Chain] \in Seq(ChannelMessage)
<1>1. outbox'[Chain] = outbox[Chain] \o msgs
  BY SyncAssumption DEF Send, TypeOK
<1> QED BY <1>1, ConcatProperties

\* A replay carries known rings only, as the request was checked.
LEMMA ReplayType ==
  ASSUME TypeOK, ProviderInv, outbox[Chain] \in Seq(ChannelMessage),
         NEW c, NEW indices \in SUBSET RingIndices, RequestReplay(Chain, c, indices)
  PROVE  outbox'[Chain] \in Seq(ChannelMessage)
<1>1. Chain \in DOMAIN subscribers /\ c \in Range(subscribers[Chain].collections)
  BY DEF RequestReplay, ReplayAllowed
<1>2. c \in Collections
  <2>1. PICK cs \in Seq(Collections) : cs = subscribers[Chain].collections
    BY <1>1, NotifierAssumption DEF TypeOK, IsPartialFunction, SubscriberInfo
  <2>2. Range(cs) \subseteq Collections
    BY DEF Range
  <2> QED BY <1>1, <2>1, <2>2
<1>3. PICK m : m = Message("update", c, sealedBatchSequence,
                           resolve_updates_for_indices(c, indices))
  OBVIOUS
<1>4. m \in ChannelMessage
  <2>1. \A r \in indices : r < next_ring_index(c)
    BY DEF RequestReplay, ReplayAllowed
  <2>2. sealedBatchSequence \in Nat
    BY DEF TypeOK
  <2> QED BY <1>2, <1>3, <2>1, <2>2, MessageType
<1>5. <<m>> \in Seq(ChannelMessage) /\ Send(Chain, <<m>>)
  <2>1. Send(Chain, <<m>>)
    BY <1>3 DEF RequestReplay
  <2> QED BY <1>4, <2>1
<1> QED BY <1>5, SendType

\* A batch carries known rings only, with their roots of the moment.
LEMMA BatchType ==
  ASSUME TypeOK, ProviderInv, outbox[Chain] \in Seq(ChannelMessage),
         SendBatchAll(Chain) \/ SendBatchFailed(Chain)
  PROVE  outbox'[Chain] \in Seq(ChannelMessage)
<1>1. SealedMessages \subseteq ChannelMessage
  <2>1. ASSUME NEW c \in Collections, NEW I \in SUBSET SealedRings(c)
        PROVE  Message("update", c, currentBatch.sequence, resolve_updates_for_indices(c, I))
                 \in ChannelMessage
    <3>1. I \in SUBSET RingIndices
      BY DEF SealedRings
    <3>2. \A r \in I : roots[c][r] # Unbuilt
      BY DEF SealedRings, ProviderInv
    <3>3. \A r \in I : r < next_ring_index(c)
      BY <3>1, <3>2, KnownBelowNext
    <3>4. currentBatch.sequence \in Nat
      BY DEF TypeOK, BatchState
    <3> QED BY <3>1, <3>3, <3>4, MessageType
  <2> QED BY <2>1 DEF SealedMessages
<1>2. BatchMessages(Chain) \in Seq(SealedMessages)
  <2>1. Chain \in DOMAIN subscribers /\ channel[Chain] > 0
    BY DEF SendBatchAll, SendBatchFailed, authorize_send_batch
  <2>2. channel[Chain] \in Nat
    BY SyncAssumption, NotifierAssumption DEF TypeOK
  <2> QED BY <2>1, <2>2, BatchMessagesType
<1>3. Seq(SealedMessages) \subseteq Seq(ChannelMessage)
  <2>1. ASSUME NEW q \in Seq(SealedMessages) PROVE q \in Seq(ChannelMessage)
    <3>1. Len(q) \in Nat /\ \A i \in 1..Len(q) : q[i] \in ChannelMessage
      BY <1>1
    <3> QED BY <3>1
  <2> QED BY <2>1
<1>4. CASE SendBatchAll(Chain)
  <2>1. Send(Chain, BatchMessages(Chain))
    BY <1>4 DEF SendBatchAll
  <2> QED BY <1>2, <1>3, <2>1, SendType
<1>5. CASE SendBatchFailed(Chain)
  <2>1. PICK accepted \in SUBSET DOMAIN BatchMessages(Chain) :
          Send(Chain, [k \in 1..Cardinality(accepted) |->
               BatchMessages(Chain)[CHOOSE i \in accepted :
                 Cardinality({j \in accepted : j <= i}) = k]])
    BY <1>5 DEF SendBatchFailed
  <2>2. PICK msgs : msgs = [k \in 1..Cardinality(accepted) |->
               BatchMessages(Chain)[CHOOSE i \in accepted :
                 Cardinality({j \in accepted : j <= i}) = k]]
    OBVIOUS
  <2>3. msgs \in Seq(SealedMessages)
    BY <1>2, <2>2, AcceptedType
  <2> QED BY <1>3, <2>1, <2>2, <2>3, SendType
<1> QED BY <1>4, <1>5

\* An init page carries rings that have a root.
LEMMA InitPageType ==
  ASSUME TypeOK, ProviderInv, outbox[Chain] \in Seq(ChannelMessage), SendInitPage(Chain)
  PROVE  outbox'[Chain] \in Seq(ChannelMessage)
<1>1. PICK state \in PendingInitState : state = pendingInit[Chain]
  BY DEF SendInitPage, TypeOK, IsPartialFunction
<1>2. PICK cs \in Seq(Collections) : cs = state.collections
  BY NotifierAssumption DEF PendingInitState
<1>3. PICK i \in Nat \ {0} : i = state.current_collection_index
  BY DEF PendingInitState
<1>4. CASE i > Len(cs)
  <2>1. outbox' = outbox
    BY <1>1, <1>2, <1>3, <1>4 DEF SendInitPage
  <2> QED BY <2>1
<1>5. CASE ~(i > Len(cs))
  <2>1. PICK c \in Collections : c = cs[i]
    <3>1. i \in 1..Len(cs)
      BY <1>5
    <3> QED BY <3>1
  <2>2. PICK page : page = get_ring_roots_paginated(c, state.after_ring_index, channel[Chain])
    OBVIOUS
  <2>3. page \in SUBSET RingIndices /\ \A r \in page : HasRoot(c, r)
    BY <2>2 DEF get_ring_roots_paginated
  <2>4. \A r \in page : r < next_ring_index(c)
    <3>1. \A r \in page : roots[c][r] # Unbuilt
      BY <2>3 DEF HasRoot, Unbuilt
    <3> QED BY <2>3, <3>1, KnownBelowNext
  <2>5. PICK m : m = Message("init", c, state.sequence, resolve_updates_for_indices(c, page))
    OBVIOUS
  <2>6. m \in ChannelMessage
    <3>1. state.sequence \in Nat
      BY DEF PendingInitState
    <3> QED BY <2>3, <2>4, <2>5, <3>1, MessageType
  <2>7. Send(Chain, <<m>>)
    BY <1>1, <1>2, <1>3, <1>5, <2>1, <2>2, <2>5 DEF SendInitPage
  <2>8. <<m>> \in Seq(ChannelMessage)
    BY <2>6
  <2> QED BY <2>7, <2>8, SendType
<1> QED BY <1>4, <1>5

-----------------------------------------------------------------------------
(* The books of the two pallets.                                           *)

\* The facts about the subscriber on its own, for no fixed set of messages.
SP == INSTANCE MembersSubscriber_proofs WITH Messages <- {}

\* What the subscriber assumes of its parameters holds here.
LEMMA SubscriberAssumed == SP!SubscriberAssumption /\ SP!MessagesAssumption
<1>1. SP!IsFiniteSet(Collections)
  BY SyncAssumption DEF IsFiniteSet, SP!IsFiniteSet
<1> QED BY <1>1, SyncAssumption, NotifierAssumption
        DEF SP!SubscriberAssumption, SP!MessagesAssumption

\* The subscriber of SP is the one of S.
LEMMA SameReceive ==
  ASSUME NEW m
  PROVE  S!Receive(m) <=> SP!Receive(m)
BY DEF S!Receive, S!initialize_ring_roots, S!process_ring_updates, S!TerminatedByNotifier,
       S!clear_all_ring_data, S!ClearedRoots, S!StoredKeys, S!StoreBatch, S!StoreWindows,
       S!StoreWindow, S!store_ring_roots, S!StoredIn, S!BuiltIn, S!DeletedIn,
       S!TrackedDeletions, S!RingCount, S!detect_missing_rings, S!Scanned, S!Smallest,
       S!NoStates, S!DefaultState, S!RingIndices, S!ringData, S!IsActive, S!ActiveAt,
       S!Terminated, S!Deleted, S!Max, S!Cardinality,
       SP!Receive, SP!initialize_ring_roots, SP!process_ring_updates, SP!TerminatedByNotifier,
       SP!clear_all_ring_data, SP!ClearedRoots, SP!StoredKeys, SP!StoreBatch, SP!StoreWindows,
       SP!StoreWindow, SP!store_ring_roots, SP!StoredIn, SP!BuiltIn, SP!DeletedIn,
       SP!TrackedDeletions, SP!RingCount, SP!detect_missing_rings, SP!Scanned, SP!Smallest,
       SP!NoStates, SP!DefaultState, SP!RingIndices, SP!ringData, SP!IsActive, SP!ActiveAt,
       SP!Terminated, SP!Deleted, SP!Max, SP!Cardinality

\* So are its replays and its local termination.
LEMMA SameLocal ==
  /\ \A c : S!ReplayMissingRoots(c) <=> SP!ReplayMissingRoots(c)
  /\ S!TerminatedLocally <=> SP!TerminatedLocally
  /\ S!IsActive <=> SP!IsActive
BY DEF S!ReplayMissingRoots, S!TerminatedLocally, S!clear_all_ring_data, S!ClearedRoots,
       S!StoredKeys, S!NoStates, S!DefaultState, S!RingIndices, S!Terminated, S!IsActive,
       S!SendToNotifier, S!Unsubscribe, S!authorize_replay_missing_roots, S!Attempted,
       S!GivenUp, S!Chunks, S!ReplayRequest, S!Max, S!Cardinality,
       SP!ReplayMissingRoots, SP!TerminatedLocally, SP!clear_all_ring_data, SP!ClearedRoots,
       SP!StoredKeys, SP!NoStates, SP!DefaultState, SP!RingIndices, SP!Terminated, SP!IsActive,
       SP!SendToNotifier, SP!Unsubscribe, SP!authorize_replay_missing_roots, SP!Attempted,
       SP!GivenUp, SP!Chunks, SP!ReplayRequest, SP!Max, SP!Cardinality

\* The limits of the pallets: clearing clears all, and the index sets have
\* room for every ring.
Roomy == SP!ClearsAll /\ SP!RoomForAll

SubscriptionTyped ==
  \/ subscription \in {S!Inactive, S!Terminated}
  \/ \E n \in Nat : subscription = S!ActiveAt(n)

\* What the notifier knows of the rings, what is under way, and the books of the
\* subscriber.
SyncInv ==
  /\ TypeOK /\ ProviderInv
  /\ outbox[Chain] \in Seq(ChannelMessage) /\ toNotifier \in Seq(Request)
  /\ SubscriptionTyped
  /\ SP!SubscriberInv

\* Requests are typed like their calls.
LEMMA RequestTyped ==
  ASSUME toNotifier \in Seq(Request) PROVE CallsIn(toNotifier, RequestCalls)
<1>1. \A m \in Request : m.call \in RequestCalls
  BY DEF Request
<1> QED BY <1>1 DEF CallsIn

\* A message of the notifier is one the subscriber's lemmas are about.
LEMMA ChannelBatch ==
  ASSUME NEW m \in ChannelMessage
  PROVE  /\ m.call \in {"init", "update", "terminate"}
         /\ m.call # "terminate" => SP!IsBatch(m) /\ SP!KnownRings(m)
<1>1. CASE m \in RootMessage
  <2>1. PICK D \in SUBSET RingIndices : m.updates \in [D -> Nat \cup {Deleted}]
    BY <1>1 DEF RootMessage, RootUpdates
  <2>2. SP!IsPartialFunction(m.updates, SP!RingIndices, Nat \cup {SP!Deleted})
    BY <2>1 DEF SP!IsPartialFunction, SP!RingIndices, RingIndices, SP!Deleted, Deleted
  <2> QED BY <1>1, <2>2 DEF RootMessage, SP!IsBatch, SP!KnownRings
<1>2. CASE m = TerminateSubscription
  BY <1>2 DEF TerminateSubscription
<1> QED BY <1>1, <1>2 DEF ChannelMessage

\* Steps that leave the subscriber's books alone.
LEMMA SyncQuiet ==
  ASSUME SyncInv, TypeOK', ProviderInv', outbox'[Chain] \in Seq(ChannelMessage),
         toNotifier' \in Seq(Request),
         UNCHANGED <<ringRoots, collectionStates, subscription>>
  PROVE  SyncInv'
<1>1. SubscriptionTyped'
  BY DEF SyncInv, SubscriptionTyped
<1>2. SP!SubscriberInv'
  BY DEF SyncInv, SP!SubscriberInv, SP!IsActive
<1> QED BY <1>1, <1>2 DEF SyncInv

\* Requests of the subscriber are about its own rings.
LEMMA ReplayRequests ==
  ASSUME SP!SubscriberInv, toNotifier \in Seq(Request), NEW c \in Collections,
         SP!ReplayMissingRoots(c)
  PROVE  toNotifier' \in Seq(Request)
<1>1. PICK I : I = SP!Attempted(c).to_send
  OBVIOUS
<1>2. I \subseteq DOMAIN collectionStates[c].missing_indices
  BY <1>1 DEF SP!Attempted
<1>3. DOMAIN collectionStates[c].missing_indices \in SUBSET RingIndices
  <2>1. collectionStates[c].missing_indices \in SP!MissingType
    BY DEF SP!SubscriberInv, SP!StateType
  <2> QED BY <2>1 DEF SP!MissingType, SP!RingIndices, RingIndices
<1>4. I \in SUBSET RingIndices /\ IsFiniteSet(I)
  BY <1>2, <1>3, FiniteRings, FS_Subset
<1>5. SP!Chunks(I, MaxUpdatesPerBatch) = Chunks(I, MaxUpdatesPerBatch)
  BY DEF SP!Chunks, Chunks, SP!Cardinality, Cardinality
<1>6. MaxUpdatesPerBatch \in Nat \ {0}
  BY NotifierAssumption
<1>7. PICK n \in Nat : Chunks(I, MaxUpdatesPerBatch) \in [1..n -> SUBSET I]
  BY <1>4, <1>6, ChunksType
<1>8. PICK chunks \in [1..n -> SUBSET RingIndices] :
        chunks = SP!Chunks(SP!Attempted(c).to_send, MaxUpdatesPerBatch)
  BY <1>1, <1>4, <1>5, <1>7
<1>9. PICK sent \in 0..Len(chunks) :
        SP!SendToNotifier([k \in 1..sent |-> SP!ReplayRequest(c, chunks[k])])
  BY <1>8 DEF SP!ReplayMissingRoots
<1>10. Len(chunks) = n
  BY <1>8
<1>11. PICK requests : requests = [k \in 1..sent |-> SP!ReplayRequest(c, chunks[k])]
  OBVIOUS
<1>12. \A k \in 1..sent : SP!ReplayRequest(c, chunks[k]) \in Request
  <2>1. \A k \in 1..sent : k \in 1..n
    BY <1>9, <1>10
  <2>2. \A k \in 1..sent : chunks[k] \in SUBSET RingIndices
    BY <1>8, <2>1
  <2>3. "request_replay" \in RequestCalls
    BY DEF RequestCalls
  <2> QED BY <2>2, <2>3 DEF SP!ReplayRequest, Request
<1>13. sent \in Nat
  BY <1>9, <1>10
<1>14. requests \in Seq(Request)
  BY <1>11, <1>12, <1>13
<1>15. toNotifier' = toNotifier \o requests
  BY <1>9, <1>11 DEF SP!SendToNotifier
<1> QED BY <1>14, <1>15, ConcatProperties

\* A step of the notifier keeps what it knows and what it sends.
LEMMA SyncNotifier ==
  ASSUME SyncInv, NotifierSteps
  PROVE  /\ ProviderInv' /\ outbox'[Chain] \in Seq(ChannelMessage)
         /\ UNCHANGED gaveUp
<1> USE DEF provider, paging, batch, registry, xcm
<1>1. TypeOK /\ ProviderInv /\ outbox[Chain] \in Seq(ChannelMessage)
  BY DEF SyncInv
<1>2. UNCHANGED gaveUp
  BY DEF NotifierSteps, SubscribeChain, UnsubscribeChain, Seal, Abandon, SkipChain
<1>3. ASSUME NEW received, DropRemaining(received)
      PROVE  sealedBatchIndices' = sealedBatchIndices \/ sealedBatchIndices' = {}
  BY <1>3 DEF DropRemaining, clear_batch
<1>4. CASE SubscribeChain
  BY <1>1, <1>2, <1>4, ProviderQuiet DEF SubscribeChain, Subscribe
<1>5. CASE UnsubscribeChain
  <2>1. Unregister(Chain) /\ (UNCHANGED outbox \/ Send(Chain, <<TerminateSubscription>>))
    BY <1>5 DEF UnsubscribeChain, UnsubscribeByGovernance
  <2>2. /\ UNCHANGED <<roots, currentRingIndex, pendingUpdates>>
        /\ sealedBatchIndices' = sealedBatchIndices \/ sealedBatchIndices' = {}
    BY <1>3, <2>1 DEF Unregister
  <2>3. <<TerminateSubscription>> \in Seq(ChannelMessage)
    <3>1. TerminateSubscription \in ChannelMessage
      BY DEF ChannelMessage
    <3> QED BY <3>1
  <2>4. outbox'[Chain] \in Seq(ChannelMessage)
    BY <1>1, <2>1, <2>3, SendType
  <2> QED BY <1>1, <1>2, <2>2, <2>4, ProviderQuiet
<1>6. CASE Seal
  <2>1. EnqueueUpdates /\ UNCHANGED outbox
    BY <1>6 DEF Seal, EnqueueUpdates
  <2> QED BY <1>1, <1>2, <2>1, ProviderSeals
<1>7. CASE Abandon
  <2>1. UNCHANGED <<roots, currentRingIndex, pendingUpdates, outbox>> /\ sealedBatchIndices' = {}
    BY <1>7 DEF Abandon, AbandonStuckBatch, clear_batch
  <2> QED BY <1>1, <1>2, <2>1, ProviderQuiet
<1>8. ASSUME MarkProcessed(Chain) PROVE ProviderInv'
  <2>1. /\ UNCHANGED <<roots, currentRingIndex, pendingUpdates>>
        /\ sealedBatchIndices' = sealedBatchIndices \/ sealedBatchIndices' = {}
    BY <1>3, <1>8 DEF MarkProcessed
  <2> QED BY <1>1, <2>1, ProviderQuiet
<1>9. CASE SkipChain
  <2>1. MarkProcessed(Chain) /\ UNCHANGED outbox
    BY <1>9 DEF SkipChain, SendBatchSkipped
  <2> QED BY <1>1, <1>2, <1>8, <2>1
<1>10. CASE SendBatchAll(Chain)
  <2>1. MarkProcessed(Chain)
    BY <1>10 DEF SendBatchAll
  <2> QED BY <1>1, <1>2, <1>8, <1>10, <2>1, BatchType
<1>11. CASE SendBatchFailed(Chain)
  <2>1. UNCHANGED <<roots, currentRingIndex, pendingUpdates, sealedBatchIndices>>
    BY <1>11 DEF SendBatchFailed
  <2> QED BY <1>1, <1>2, <1>11, <2>1, BatchType, ProviderQuiet
<1>12. CASE SendInitPage(Chain)
  <2>1. UNCHANGED <<roots, currentRingIndex, pendingUpdates, sealedBatchIndices>>
    BY <1>12 DEF SendInitPage
  <2> QED BY <1>1, <1>2, <1>12, <2>1, InitPageType, ProviderQuiet
<1>13. CASE \E c \in Collections : ProviderActions(c)
  <2>1. UNCHANGED outbox
    BY <1>13 DEF ProviderActions, RootBuilt, RootDeleted, RingFilled
  <2>2. ProviderInv'
    BY <1>1, <1>13, ProviderChange, ProviderFills DEF ProviderActions
  <2> QED BY <1>1, <1>2, <2>1, <2>2
<1>14. CASE \E c \in Collections, indices \in ReplaySets : RequestReplay(Chain, c, indices)
  <2>1. PICK c \in Collections : \E indices \in ReplaySets : RequestReplay(Chain, c, indices)
    BY <1>14
  <2>2. PICK indices \in ReplaySets : RequestReplay(Chain, c, indices)
    BY <2>1
  <2>3. indices \in SUBSET RingIndices
    BY NotifierAssumption
  <2>4. UNCHANGED <<roots, currentRingIndex, pendingUpdates, sealedBatchIndices>>
    BY <2>2 DEF RequestReplay
  <2> QED BY <1>1, <1>2, <2>2, <2>3, <2>4, ReplayType, ProviderQuiet
<1>15. CASE \E size \in ChannelSizes : ChannelChanged(Chain, size)
  <2>1. UNCHANGED <<roots, currentRingIndex, pendingUpdates, sealedBatchIndices, outbox>>
    BY <1>15 DEF ChannelChanged
  <2> QED BY <1>1, <1>2, <2>1, ProviderQuiet
<1> QED BY <1>4, <1>5, <1>6, <1>7, <1>9, <1>10, <1>11, <1>12, <1>13, <1>14, <1>15
        DEF NotifierSteps

\* A delivered message keeps the books of the subscriber.
LEMMA SyncDelivered ==
  ASSUME SP!ClearsAll, SyncInv, TypeOK', MessageDelivered
  PROVE  SyncInv'
<1>1. PICK q \in Seq(ChannelMessage) : q = outbox[Chain]
  BY DEF SyncInv
<1>2. q # <<>> /\ outbox'[Chain] = Tail(q)
  BY <1>1, SyncAssumption DEF MessageDelivered, Executed, SyncInv, TypeOK
<1>3. PICK m \in ChannelMessage : m = Head(q)
  BY <1>2
<1>4. Tail(q) \in Seq(ChannelMessage)
  BY <1>2
<1>5. SP!Receive(m)
  BY <1>1, <1>3, SameReceive DEF MessageDelivered
<1>6. /\ m.call \in {"init", "update", "terminate"}
      /\ m.call # "terminate" => SP!IsBatch(m) /\ SP!KnownRings(m)
  BY ChannelBatch
<1>7. SP!SubscriberInv
  BY DEF SyncInv
<1>8. SP!SubscriberInv'
  BY <1>5, <1>6, <1>7, SubscriberAssumed, SP!ReceiveStep
<1>9. SubscriptionTyped'
  <2>1. CASE m.call = "terminate"
    <3>1. SP!TerminatedByNotifier
      BY <1>5, <2>1 DEF SP!Receive
    <3>2. subscription' \in {subscription, S!Terminated}
      BY <3>1 DEF SP!TerminatedByNotifier, SP!Terminated, S!Terminated
    <3> QED BY <3>2 DEF SyncInv, SubscriptionTyped
  <2>2. CASE m.call = "update"
    <3>1. SP!process_ring_updates(m)
      BY <1>5, <2>2 DEF SP!Receive
    <3>2. subscription' = subscription
      BY <3>1 DEF SP!process_ring_updates
    <3> QED BY <3>2 DEF SyncInv, SubscriptionTyped
  <2>3. CASE m.call = "init"
    <3>1. SP!initialize_ring_roots(m)
      BY <1>5, <2>3 DEF SP!Receive
    <3>2. subscription' = subscription \/ subscription' = S!ActiveAt(m.sequence)
      BY <3>1 DEF SP!initialize_ring_roots, SP!ActiveAt, S!ActiveAt
    <3>3. m.sequence \in Nat
      BY <1>6, <2>3 DEF SP!IsBatch
    <3> QED BY <3>2, <3>3 DEF SyncInv, SubscriptionTyped
  <2> QED BY <1>6, <2>1, <2>2, <2>3
<1>10. toNotifier' = toNotifier
  BY <1>5 DEF SP!Receive
<1>11. ProviderInv'
  <2>1. UNCHANGED <<roots, currentRingIndex, pendingUpdates, sealedBatchIndices>>
    BY DEF MessageDelivered, Executed, provider, paging, batch
  <2> QED BY <2>1, ProviderQuiet DEF SyncInv
<1> QED BY <1>2, <1>4, <1>8, <1>9, <1>10, <1>11 DEF SyncInv

\* So does a request of the subscriber.
LEMMA SyncRequested ==
  ASSUME SyncInv, TypeOK', RequestDelivered
  PROVE  SyncInv'
<1> USE DEF provider, paging, batch, registry, xcm
<1>1. TypeOK /\ ProviderInv /\ outbox[Chain] \in Seq(ChannelMessage) /\ toNotifier \in Seq(Request)
  BY DEF SyncInv
<1>2. /\ toNotifier # <<>> /\ toNotifier' = Tail(toNotifier)
      /\ UNCHANGED <<ringRoots, collectionStates, ringExponents, subscription>>
      /\ UNCHANGED <<excused, gaveUp>>
      /\ \/ UNCHANGED notifierVars
         \/ /\ Head(toNotifier).call = "unsubscribe" /\ EnsureSubscriberOrigin
            /\ UnsubscribeBySubscriber(Chain)
         \/ /\ Head(toNotifier).call = "request_replay"
            /\ RequestReplay(Chain, Head(toNotifier).identifier, Head(toNotifier).indices)
  BY <1>1, RequestTyped, RequestCases
<1>3. toNotifier' \in Seq(Request)
  BY <1>1, <1>2
<1>4. ProviderInv' /\ outbox'[Chain] \in Seq(ChannelMessage)
  <2>1. CASE UNCHANGED notifierVars
    <3>1. UNCHANGED <<roots, currentRingIndex, pendingUpdates, sealedBatchIndices, outbox>>
      BY <2>1 DEF notifierVars
    <3> QED BY <1>1, <3>1, ProviderQuiet
  <2>2. CASE UnsubscribeBySubscriber(Chain)
    <3>1. /\ UNCHANGED <<roots, currentRingIndex, pendingUpdates, outbox>>
          /\ sealedBatchIndices' = sealedBatchIndices \/ sealedBatchIndices' = {}
      BY <2>2 DEF UnsubscribeBySubscriber, Unregister, DropRemaining, clear_batch
    <3> QED BY <1>1, <3>1, ProviderQuiet
  <2>3. CASE RequestReplay(Chain, Head(toNotifier).identifier, Head(toNotifier).indices)
    <3>1. PICK q \in Request : q = Head(toNotifier)
      BY <1>1, <1>2
    <3>2. q.indices \in SUBSET RingIndices
      BY DEF Request
    <3>3. UNCHANGED <<roots, currentRingIndex, pendingUpdates, sealedBatchIndices>>
      BY <2>3 DEF RequestReplay
    <3>4. RequestReplay(Chain, q.identifier, q.indices)
      BY <2>3, <3>1
    <3> QED BY <1>1, <3>2, <3>3, <3>4, ReplayType, ProviderQuiet
  <2> QED BY <1>2, <2>1, <2>2, <2>3
<1> QED BY <1>2, <1>3, <1>4, SyncQuiet

\* So do the subscriber's own steps.
LEMMA SyncSubscriber ==
  ASSUME SP!ClearsAll, SyncInv, TypeOK', SubscriberSteps
  PROVE  SyncInv'
<1>1. /\ toNotifier \in Seq(Request) /\ outbox[Chain] \in Seq(ChannelMessage)
      /\ ProviderInv /\ SP!SubscriberInv /\ SubscriptionTyped
  BY DEF SyncInv
<1>2. UNCHANGED <<roots, currentRingIndex, pendingUpdates, sealedBatchIndices, outbox>>
  BY DEF SubscriberSteps, ReplayIncluded, notifierVars, provider, paging, batch, xcm
<1>3. ProviderInv' /\ outbox'[Chain] \in Seq(ChannelMessage)
  BY <1>1, <1>2, ProviderQuiet
<1>4. ASSUME NEW c \in Collections, ReplayIncluded(c) PROVE SyncInv'
  <2>1. SP!ReplayMissingRoots(c)
    BY <1>4, SameLocal DEF ReplayIncluded
  <2>2. SP!SubscriberInv'
    <3>1. SP!Next
      BY <2>1 DEF SP!Next, SP!LocalNext
    <3> QED BY <1>1, <3>1, SubscriberAssumed, SP!SubscriberStep
  <2>3. toNotifier' \in Seq(Request)
    BY <1>1, <2>1, ReplayRequests
  <2>4. SubscriptionTyped'
    BY <1>1, <2>1 DEF SP!ReplayMissingRoots, SubscriptionTyped
  <2> QED BY <1>3, <2>2, <2>3, <2>4 DEF SyncInv
<1>5. ASSUME NEW c \in Collections, S!SubmitReplay(c) \/ S!DropReplay(c)
      PROVE  SyncInv'
  <2>1. UNCHANGED <<ringRoots, collectionStates, subscription, toNotifier>>
    BY <1>5 DEF S!SubmitReplay, S!DropReplay, S!ringData
  <2> QED BY <1>1, <1>3, <1>5, <2>1, SyncQuiet
<1>6. CASE LocalTermination /\ S!TerminatedLocally
  <2>1. SP!TerminatedLocally
    BY <1>6, SameLocal
  <2>2. SP!SubscriberInv'
    <3>1. SP!Next
      BY <2>1 DEF SP!Next, SP!LocalNext
    <3> QED BY <1>1, <3>1, SubscriberAssumed, SP!SubscriberStep
  <2>3. toNotifier' \in Seq(Request)
    <3>1. SP!Unsubscribe \in Request
      BY <1>6 DEF SP!Unsubscribe, Request, RequestCalls
    <3>2. <<SP!Unsubscribe>> \in Seq(Request)
      BY <3>1
    <3>3. toNotifier' = toNotifier \/ toNotifier' = toNotifier \o <<SP!Unsubscribe>>
      BY <2>1 DEF SP!TerminatedLocally, SP!SendToNotifier
    <3> QED BY <1>1, <3>2, <3>3, ConcatProperties
  <2>4. SubscriptionTyped'
    BY <1>6 DEF S!TerminatedLocally, SubscriptionTyped
  <2> QED BY <1>3, <2>2, <2>3, <2>4 DEF SyncInv
<1> QED BY <1>4, <1>5, <1>6 DEF SubscriberSteps

\* Every step of the two pallets keeps this.
LEMMA SyncStep ==
  ASSUME SP!ClearsAll, SyncInv, [SyncNext]_syncVars
  PROVE  SyncInv'
<1>1. TypeOK /\ ProviderInv /\ outbox[Chain] \in Seq(ChannelMessage) /\ toNotifier \in Seq(Request)
  BY DEF SyncInv
<1>2. TypeOK'
  BY <1>1, RequestTyped, SyncTypeStep
<1>3. CASE NotifierSteps /\ UNCHANGED subscriberSide
  <2>1. UNCHANGED <<ringRoots, collectionStates, subscription, toNotifier>>
    BY <1>3 DEF subscriberSide
  <2> QED BY <1>1, <1>2, <1>3, <2>1, SyncNotifier, SyncQuiet
<1>4. CASE Clock \/ UNCHANGED syncVars
  <2>1. /\ UNCHANGED <<ringRoots, collectionStates, subscription, toNotifier>>
        /\ UNCHANGED <<roots, currentRingIndex, pendingUpdates, sealedBatchIndices, outbox>>
    BY <1>4 DEF Clock, Tick, S!SubscriberTick, subscriberSide, syncVars, notifierVars,
                provider, paging, batch, xcm
  <2> QED BY <1>1, <1>2, <2>1, ProviderQuiet, SyncQuiet
<1> QED BY <1>2, <1>3, <1>4, SyncDelivered, SyncRequested, SyncSubscriber DEF SyncNext

\* It holds initially: nothing is stored and nothing is under way.
LEMMA SyncStart ==
  ASSUME SyncInit
  PROVE  SyncInv /\ ringRoots = SP!EmptyRoots /\ collectionStates = SP!NoStates
<1>1. Init /\ S!Init
  BY DEF SyncInit
<1>2. TypeOK
  BY <1>1, NotifierAssumption
     DEF Init, TypeOK, IsPartialFunction, NoBatch, BatchState, Pages, Unbuilt
<1>3. ProviderInv
  <2>1. 0 \in RingIndices /\ \A r \in RingIndices : r \in Int
    BY NotifierAssumption DEF RingIndices
  <2> QED BY <1>1, <2>1 DEF Init, ProviderInv, Unbuilt, Removed
<1>4. outbox[Chain] \in Seq(ChannelMessage) /\ toNotifier \in Seq(Request)
  <2>1. outbox[Chain] = <<>> /\ toNotifier = <<>>
    BY <1>1, SyncAssumption DEF Init, S!Init
  <2>2. <<>> \in Seq(ChannelMessage) /\ <<>> \in Seq(Request)
    OBVIOUS
  <2> QED BY <2>1, <2>2
<1>5. SubscriptionTyped
  BY <1>1 DEF S!Init, SubscriptionTyped
<1>6. ringRoots = SP!EmptyRoots /\ collectionStates = SP!NoStates
  BY <1>1 DEF S!Init, SP!EmptyRoots, SP!EmptyWindows, S!NoStates, SP!NoStates,
              S!RingIndices, SP!RingIndices, S!DefaultState, SP!DefaultState
<1>7. SP!SubscriberInv
  BY <1>6, SubscriberAssumed, SP!EmptyBooks DEF SP!SubscriberInv
<1> QED BY <1>2, <1>3, <1>4, <1>5, <1>6, <1>7 DEF SyncInv

-----------------------------------------------------------------------------
(* No gap goes unnoticed.                                                  *)

\* GapsTracked is inductive with the books and with what is under way.
GapInv == SyncInv /\ SP!AllCovered(ringRoots, collectionStates, gaveUp)

\* A delivered message leaves no gap that is not tracked.
LEMMA GapDelivered ==
  ASSUME Roomy, GapInv, MessageDelivered
  PROVE  SP!AllCovered(ringRoots', collectionStates', gaveUp')
<1>1. PICK q \in Seq(ChannelMessage) : q = outbox[Chain]
  BY DEF GapInv, SyncInv
<1>2. q # <<>>
  BY <1>1 DEF MessageDelivered, Executed
<1>3. PICK m \in ChannelMessage : m = Head(q)
  BY <1>2
<1>4. SP!Receive(m)
  BY <1>1, <1>3, SameReceive DEF MessageDelivered
<1>5. /\ m.call \in {"init", "update", "terminate"}
      /\ m.call # "terminate" => SP!IsBatch(m) /\ SP!KnownRings(m)
  BY ChannelBatch
<1>6. SP!SubscriberInv /\ SP!ClearsAll /\ SP!RoomForAll
  BY DEF GapInv, SyncInv, Roomy
<1>7. /\ SP!IsActive => subscription = SP!ActiveAt(subscription.initialized_at_sequence)
      /\ SP!IsActive => subscription.initialized_at_sequence \in Int
  <2>1. SubscriptionTyped
    BY DEF GapInv, SyncInv
  <2>2. CASE subscription \in {S!Inactive, S!Terminated}
    BY <2>2 DEF S!Inactive, S!Terminated, SP!IsActive
  <2>3. CASE \E n \in Nat : subscription = S!ActiveAt(n)
    <3>1. PICK n \in Nat : subscription = SP!ActiveAt(n)
      BY <2>3 DEF S!ActiveAt, SP!ActiveAt
    <3>2. subscription.initialized_at_sequence = n
      BY <3>1 DEF SP!ActiveAt
    <3> QED BY <3>1, <3>2
  <2> QED BY <2>1, <2>2, <2>3 DEF SubscriptionTyped
<1>8. SP!AllCovered(ringRoots', collectionStates',
                     IF SP!IsActive /\ subscription' # subscription THEN {} ELSE gaveUp)
  <2>1. SP!AllCovered(ringRoots, collectionStates, gaveUp)
    BY DEF GapInv
  <2> QED BY <1>4, <1>5, <1>6, <1>7, <2>1, SubscriberAssumed, SP!ReceiveCovers
<1>9. gaveUp' = IF SP!IsActive /\ subscription' # subscription THEN {} ELSE gaveUp
  BY SameLocal DEF MessageDelivered
<1> QED BY <1>8, <1>9

\* Every step of the two pallets keeps the invariant.
LEMMA GapStep ==
  ASSUME Roomy, GapInv, [SyncNext]_syncVars
  PROVE  GapInv'
<1>1. SP!AllCovered(ringRoots, collectionStates, gaveUp) /\ SP!SubscriberInv /\ SP!ClearsAll
      /\ SyncInv
  BY DEF GapInv, SyncInv, Roomy
<1>2. SyncInv'
  BY <1>1, SyncStep
<1>3. ASSUME UNCHANGED <<ringRoots, collectionStates, gaveUp>> PROVE GapInv'
  BY <1>1, <1>2, <1>3 DEF GapInv
<1>4. CASE NotifierSteps /\ UNCHANGED subscriberSide
  <2>1. UNCHANGED gaveUp
    BY <1>1, <1>4, SyncNotifier
  <2>2. UNCHANGED <<ringRoots, collectionStates>>
    BY <1>4 DEF subscriberSide
  <2> QED BY <1>3, <2>1, <2>2
<1>5. CASE Clock \/ UNCHANGED syncVars
  <2>1. UNCHANGED <<ringRoots, collectionStates, gaveUp>>
    BY <1>5 DEF Clock, S!SubscriberTick, subscriberSide, syncVars
  <2> QED BY <1>3, <2>1
<1>6. CASE MessageDelivered
  BY <1>2, <1>6, GapDelivered DEF GapInv
<1>7. CASE RequestDelivered
  <2>1. CallsIn(toNotifier, RequestCalls)
    BY <1>1, RequestTyped DEF SyncInv
  <2>2. UNCHANGED <<ringRoots, collectionStates, gaveUp>>
    BY <1>7, <2>1, RequestCases
  <2> QED BY <1>3, <2>2
<1>8. CASE SubscriberSteps
  <2>1. ASSUME NEW c \in Collections, ReplayIncluded(c) PROVE GapInv'
    <3>1. SP!ReplayMissingRoots(c)
      BY <2>1, SameLocal DEF ReplayIncluded
    <3>2. SP!AllCovered(ringRoots', collectionStates', gaveUp')
      BY <1>1, <2>1, <3>1, SubscriberAssumed, SP!ReplayCovers DEF ReplayIncluded
    <3> QED BY <1>2, <3>2 DEF GapInv
  <2>2. ASSUME NEW c \in Collections, S!SubmitReplay(c) \/ S!DropReplay(c), UNCHANGED gaveUp
        PROVE  GapInv'
    <3>1. UNCHANGED <<ringRoots, collectionStates>>
      BY <2>2 DEF S!SubmitReplay, S!DropReplay, S!ringData
    <3> QED BY <1>3, <2>2, <3>1
  <2>3. CASE S!TerminatedLocally
    <3>1. SP!TerminatedLocally
      BY <2>3, SameLocal
    <3>2. ringRoots' = SP!EmptyRoots /\ collectionStates' = SP!NoStates
      BY <1>1, <3>1, SubscriberAssumed, SP!ClearedEmpty
      DEF SP!TerminatedLocally, SP!clear_all_ring_data
    <3>3. SP!AllCovered(SP!EmptyRoots, SP!NoStates, gaveUp')
      BY SubscriberAssumed, SP!EmptyCovered
    <3> QED BY <1>2, <3>2, <3>3 DEF GapInv
  <2> QED BY <1>8, <2>1, <2>2, <2>3 DEF SubscriberSteps
<1> QED BY <1>4, <1>5, <1>6, <1>7, <1>8 DEF SyncNext

\* Whatever is refused, skipped, abandoned or terminated between the pallets:
\* every ring the subscriber knows of is stored, deleted, tracked as missing or
\* given up, as long as the index sets have room for all rings.
THEOREM GapsTrackedCorrect == ASSUME Roomy PROVE SyncSpec => []GapsTracked
<1>1. SyncInit => GapInv
  <2> SUFFICES ASSUME SyncInit PROVE GapInv
    OBVIOUS
  <2>1. SP!AllCovered(SP!EmptyRoots, SP!NoStates, gaveUp)
    BY SubscriberAssumed, SP!EmptyCovered
  <2> QED BY <2>1, SyncStart DEF GapInv
<1>2. GapInv => GapsTracked
  <2> SUFFICES ASSUME GapInv, NEW c \in Collections,
                      NEW r \in 0..(collectionStates[c].next_ring_index - 1)
               PROVE  \/ ringRoots[c][r] # <<>>
                      \/ r \in collectionStates[c].deleted_indices
                      \/ r \in DOMAIN collectionStates[c].missing_indices
                      \/ <<c, r>> \in gaveUp
    BY DEF GapsTracked
  <2>1. PICK n \in 0..(MaxRingIndex + 1) : n = collectionStates[c].next_ring_index
    BY DEF GapInv, SyncInv, SP!SubscriberInv, SP!StateType
  <2>2. r \in SP!RingIndices /\ r < n
    <3>1. MaxRingIndex \in Nat
      BY NotifierAssumption
    <3> QED BY <2>1, <3>1 DEF SP!RingIndices
  <2>3. r \in SP!StoredIn(ringRoots[c]) \cup collectionStates[c].deleted_indices
                 \cup DOMAIN collectionStates[c].missing_indices
                 \cup {x \in SP!RingIndices : <<c, x>> \in gaveUp}
    BY <2>1, <2>2 DEF GapInv, SP!AllCovered, SP!Covered
  <2> QED BY <2>3 DEF SP!StoredIn
<1>3. Roomy /\ GapInv /\ [SyncNext]_syncVars => GapInv'
  BY GapStep
<1> QED BY <1>1, <1>2, <1>3, PTL DEF SyncSpec

-----------------------------------------------------------------------------
(* What the messages under way make of the subscriber.                     *)

\* What Mirrored reads of a subscriber: the newest revision of each ring, the
\* collections proofs are accepted of, and what decides on the next message.
Newests == [Collections -> [RingIndices -> Nat \cup {Deleted}]]
View == [active : BOOLEAN, at : Nat, last : Nat, exponents : SUBSET Collections,
         newest : Newests]
Newest(window) == IF window = <<>> THEN Deleted ELSE Last(window)
NothingStored == [c \in Collections |-> [r \in RingIndices |-> Deleted]]
Blank == [active |-> FALSE, at |-> 0, last |-> 0, exponents |-> {}, newest |-> NothingStored]

NewestOf(windows) ==
  [c \in Collections |-> [r \in RingIndices |-> Newest(windows[c][r])]]
Present ==
  [active |-> S!IsActive, at |-> subscription.initialized_at_sequence,
   last |-> lastProcessedSequence, exponents |-> ringExponents,
   newest |-> NewestOf(ringRoots)]

\* The newest revisions and the view after a message.
Carries(m, c, r) == m.identifier = c /\ r \in DOMAIN m.updates
StoredBy(newest, m) ==
  [c \in Collections |-> [r \in RingIndices |->
     IF Carries(m, c, r) THEN m.updates[r] ELSE newest[c][r]]]
Updated(v, m) ==
  [active |-> v.active, at |-> v.at, last |-> m.sequence, exponents |-> v.exponents,
   newest |-> StoredBy(v.newest, m)]
Initialised(v, m) ==
  [active |-> TRUE, at |-> m.sequence, last |-> m.sequence,
   exponents |-> v.exponents \cup {m.identifier}, newest |-> StoredBy(v.newest, m)]
Handled(v, m) ==
  CASE m.call = "terminate" -> IF v.active THEN Blank ELSE v
    [] m.call = "update" ->
         IF ~v.active \/ m.sequence < v.last THEN v
         ELSE Updated(v, m)
    [] m.call = "init" ->
         IF v.active /\ m.sequence < v.at THEN v
         ELSE Initialised(IF v.active /\ m.sequence > v.at THEN Blank ELSE v, m)

\* Handling the messages q in order leads from the view v to the view e.
LeadsBy(run, v, q, e) ==
  /\ run \in [0..Len(q) -> View] /\ run[0] = v /\ run[Len(q)] = e
  /\ \A i \in 1..Len(q) : run[i] = Handled(run[i - 1], q[i])
Leads(v, q, e) == \E run : LeadsBy(run, v, q, e)

\* A message leaves a view.
LEMMA StoredType ==
  ASSUME NEW newest \in Newests, NEW m \in RootMessage
  PROVE  StoredBy(newest, m) \in Newests
<1>1. PICK D \in SUBSET RingIndices : m.updates \in [D -> Nat \cup {Deleted}]
  BY DEF RootMessage, RootUpdates
<1>2. \A c \in Collections, r \in RingIndices :
        (IF Carries(m, c, r) THEN m.updates[r] ELSE newest[c][r]) \in Nat \cup {Deleted}
  BY <1>1 DEF Carries, Newests
<1> QED BY <1>2 DEF StoredBy, Newests

\* Nothing is a view as well.
LEMMA BlankType == Blank \in View
<1>1. NothingStored \in Newests
  BY DEF NothingStored, Newests
<1> QED BY <1>1 DEF Blank, View

\* So a message takes a view to a view, and one that ends a subscription
\* leaves nothing.
LEMMA HandledType ==
  ASSUME NEW v \in View, NEW m \in ChannelMessage
  PROVE  /\ Handled(v, m) \in View
         /\ (~v.active => v = Blank) => (~Handled(v, m).active => Handled(v, m) = Blank)
         /\ m = TerminateSubscription => ~Handled(v, m).active
<1>1. Blank \in View /\ ~Blank.active
  BY BlankType DEF Blank
<1>2. CASE m = TerminateSubscription
  <2>1. Handled(v, m) = IF v.active THEN Blank ELSE v
    BY <1>2 DEF Handled, TerminateSubscription
  <2> QED BY <1>1, <2>1
<1>3. CASE m \in RootMessage /\ m # TerminateSubscription
  <2>1. m.sequence \in Nat /\ m.identifier \in Collections /\ m.call \in {"init", "update"}
    BY <1>3 DEF RootMessage
  <2>2. \A w \in View : StoredBy(w.newest, m) \in Newests
    BY <1>3, StoredType DEF View
  <2>3. CASE m.call = "update"
    <3>1. Handled(v, m) = IF ~v.active \/ m.sequence < v.last THEN v ELSE Updated(v, m)
      BY <2>3 DEF Handled
    <3>2. CASE ~v.active \/ m.sequence < v.last
      BY <1>3, <3>1, <3>2
    <3>3. CASE ~(~v.active \/ m.sequence < v.last)
      <4>1. PICK n \in Newests : n = StoredBy(v.newest, m)
        BY <2>2
      <4>2. Updated(v, m) \in View /\ Updated(v, m).active = v.active
        BY <2>1, <4>1 DEF Updated, View
      <4> QED BY <1>3, <3>1, <3>3, <4>2
    <3> QED BY <3>2, <3>3
  <2>4. CASE m.call = "init"
    <3>1. PICK w \in View : w = IF v.active /\ m.sequence > v.at THEN Blank ELSE v
      BY <1>1
    <3>2. PICK n \in Newests : n = StoredBy(w.newest, m)
      BY <2>2
    <3>3. Initialised(w, m) \in View /\ Initialised(w, m).active
      BY <2>1, <3>2 DEF Initialised, View
    <3>4. Handled(v, m) = IF v.active /\ m.sequence < v.at THEN v ELSE Initialised(w, m)
      BY <2>4, <3>1 DEF Handled
    <3> QED BY <1>3, <3>3, <3>4
  <2> QED BY <2>1, <2>3, <2>4
<1> QED BY <1>2, <1>3 DEF ChannelMessage

\* No message changes nothing.
LEMMA LeadsNone ==
  ASSUME NEW v \in View
  PROVE  Leads(v, <<>>, v)
<1>1. PICK run : run = [i \in 0..0 |-> v]
  OBVIOUS
<1>2. run \in [0..Len(<<>>) -> View] /\ run[0] = v /\ Len(<<>>) = 0
  BY <1>1
<1>3. LeadsBy(run, v, <<>>, v)
  BY <1>2 DEF LeadsBy
<1> QED BY <1>3 DEF Leads

\* One message leads to what it leaves.
LEMMA LeadsOne ==
  ASSUME NEW v \in View, NEW m \in ChannelMessage
  PROVE  Leads(v, <<m>>, Handled(v, m))
<1>1. PICK w \in View : w = Handled(v, m)
  BY HandledType
<1>2. PICK run : run = [i \in 0..1 |-> IF i = 0 THEN v ELSE w]
  OBVIOUS
<1>3. Len(<<m>>) = 1 /\ <<m>>[1] = m
  OBVIOUS
<1>4. run \in [0..1 -> View] /\ run[0] = v /\ run[1] = w
  BY <1>2
<1>5. \A i \in 1..1 : run[i] = Handled(run[i - 1], <<m>>[i])
  BY <1>1, <1>3, <1>4
<1>6. LeadsBy(run, v, <<m>>, w)
  BY <1>3, <1>4, <1>5 DEF LeadsBy
<1> QED BY <1>1, <1>6 DEF Leads

\* Lists of messages lead on from each other.
LEMMA LeadsConcat ==
  ASSUME NEW v, NEW e, NEW w, NEW q \in Seq(ChannelMessage), NEW s \in Seq(ChannelMessage),
         Leads(v, q, e), Leads(e, s, w)
  PROVE  Leads(v, q \o s, w)
<1>1. PICK a : LeadsBy(a, v, q, e)
  BY DEF Leads
<1>2. PICK b : LeadsBy(b, e, s, w)
  BY DEF Leads
<1>3. PICK n \in Nat, l \in Nat : n = Len(q) /\ l = Len(s)
  OBVIOUS
<1>4. PICK t : t = q \o s
  OBVIOUS
<1>5. /\ Len(t) = n + l
      /\ \A i \in 1..n : t[i] = q[i]
      /\ \A i \in 1..l : t[n + i] = s[i]
  BY <1>3, <1>4, ConcatElements DEF IsConcat
<1>6. /\ a \in [0..n -> View] /\ a[0] = v /\ a[n] = e
      /\ \A i \in 1..n : a[i] = Handled(a[i - 1], q[i])
      /\ b \in [0..l -> View] /\ b[0] = e /\ b[l] = w
      /\ \A i \in 1..l : b[i] = Handled(b[i - 1], s[i])
  BY <1>1, <1>2, <1>3 DEF LeadsBy
<1>7. PICK run : run = [i \in 0..(n + l) |-> IF i <= n THEN a[i] ELSE b[i - n]]
  OBVIOUS
<1>8. \A i \in 0..n : run[i] = a[i] /\ run[i] \in View
  <2>1. \A i \in 0..n : i \in 0..(n + l) /\ i <= n
    BY <1>3
  <2>2. \A i \in 0..n : run[i] = a[i]
    BY <1>7, <2>1
  <2>3. \A i \in 0..n : a[i] \in View
    BY <1>6
  <2> QED BY <2>2, <2>3
<1>9. \A i \in 0..l : run[n + i] = b[i] /\ run[n + i] \in View
  <2>1. ASSUME NEW i \in 0..l PROVE run[n + i] = b[i] /\ run[n + i] \in View
    <3>1. CASE i = 0
      BY <1>3, <1>6, <1>8, <3>1
    <3>2. CASE i # 0
      <4>1. n + i \in 0..(n + l) /\ ~(n + i <= n) /\ (n + i) - n = i
        BY <1>3, <3>2
      <4> QED BY <1>6, <1>7, <4>1
    <3> QED BY <3>1, <3>2
  <2> QED BY <2>1
<1>10. \A i \in 0..(n + l) : run[i] \in View
  <2>1. ASSUME NEW i \in 0..(n + l), ~(i <= n) PROVE run[i] \in View
    <3>1. i - n \in 0..l /\ n + (i - n) = i
      BY <1>3, <2>1
    <3> QED BY <1>9, <3>1
  <2>2. ASSUME NEW i \in 0..(n + l), i <= n PROVE run[i] \in View
    <3>1. i \in 0..n
      BY <1>3, <2>2
    <3> QED BY <1>8, <3>1
  <2> QED BY <2>1, <2>2
<1>11. ASSUME NEW i \in 1..(n + l) PROVE run[i] = Handled(run[i - 1], t[i])
  <2>1. CASE i <= n
    <3>1. i \in 1..n /\ i \in 0..n /\ i - 1 \in 0..n
      BY <1>3, <2>1
    <3> QED BY <1>5, <1>6, <1>8, <3>1
  <2>2. CASE ~(i <= n)
    <3>1. PICK j \in 1..l : i = n + j /\ i - 1 = n + (j - 1) /\ j - 1 \in 0..l /\ j \in 0..l
      <4>1. i - n \in 1..l /\ i = n + (i - n) /\ i - 1 = n + ((i - n) - 1)
            /\ (i - n) - 1 \in 0..l /\ i - n \in 0..l
        BY <1>3, <2>2
      <4> QED BY <4>1
    <3> QED BY <1>5, <1>6, <1>9, <3>1
  <2> QED BY <2>1, <2>2
<1>12. run[0] = v /\ run[n + l] = w
  <2>1. 0 \in 0..n /\ l \in 0..l
    BY <1>3
  <2> QED BY <1>6, <1>8, <1>9, <2>1
<1>13. run \in [0..(n + l) -> View]
  BY <1>7, <1>10
<1>14. LeadsBy(run, v, t, w)
  BY <1>5, <1>11, <1>12, <1>13 DEF LeadsBy
<1> QED BY <1>4, <1>14 DEF Leads

\* Once the first message was handled, the others lead on.
LEMMA LeadsTail ==
  ASSUME NEW v, NEW e, NEW q \in Seq(ChannelMessage), q # <<>>, Leads(v, q, e)
  PROVE  Leads(Handled(v, Head(q)), Tail(q), e)
<1>1. PICK a : LeadsBy(a, v, q, e)
  BY DEF Leads
<1>2. PICK n \in Nat : Len(q) = n + 1
  <2>1. Len(q) \in Nat /\ Len(q) # 0
    OBVIOUS
  <2>2. Len(q) - 1 \in Nat /\ (Len(q) - 1) + 1 = Len(q)
    BY <2>1
  <2> QED BY <2>2
<1>3. PICK t : t = Tail(q)
  OBVIOUS
<1>4. Len(t) = n /\ Head(q) = q[1] /\ \A i \in 1..n : t[i] = q[i + 1]
  <2>1. /\ Head(q) = q[1] /\ Len(Tail(q)) = Len(q) - 1
        /\ \A i \in 1..Len(Tail(q)) : Tail(q)[i] = q[i + 1]
    BY HeadTailProperties
  <2>2. Len(q) - 1 = n
    BY <1>2
  <2> QED BY <1>3, <2>1, <2>2
<1>5. /\ a \in [0..(n + 1) -> View] /\ a[0] = v /\ a[n + 1] = e
      /\ \A i \in 1..(n + 1) : a[i] = Handled(a[i - 1], q[i])
  BY <1>1, <1>2 DEF LeadsBy
<1>6. PICK run : run = [i \in 0..n |-> a[i + 1]]
  OBVIOUS
<1>7. run \in [0..n -> View] /\ run[n] = e
  <2>1. \A i \in 0..n : i + 1 \in 0..(n + 1)
    BY <1>2
  <2>2. n \in 0..n
    BY <1>2
  <2> QED BY <1>5, <1>6, <2>1, <2>2
<1>8. run[0] = Handled(v, q[1])
  <2>1. 0 \in 0..n /\ 1 \in 1..(n + 1) /\ 0 + 1 = 1 /\ 1 - 1 = 0
    BY <1>2
  <2> QED BY <1>5, <1>6, <2>1
<1>9. ASSUME NEW i \in 1..n PROVE run[i] = Handled(run[i - 1], t[i])
  <2>1. /\ i \in 0..n /\ i - 1 \in 0..n /\ i + 1 \in 1..(n + 1)
        /\ (i + 1) - 1 = i /\ (i - 1) + 1 = i
    BY <1>2
  <2>2. run[i] = a[i + 1] /\ run[i - 1] = a[i]
    BY <1>6, <2>1
  <2> QED BY <1>4, <1>5, <2>1, <2>2
<1>10. LeadsBy(run, Handled(v, q[1]), t, e)
  BY <1>4, <1>7, <1>8, <1>9 DEF LeadsBy
<1> QED BY <1>3, <1>4, <1>10 DEF Leads

\* Storing a batch makes the newest revisions those of the batch.
LEMMA StoredView ==
  ASSUME NEW windows \in [Collections -> SP!Windows], NEW states, NEW m \in RootMessage,
         SP!StoreBatch(windows, states, m)
  PROVE  NewestOf(ringRoots') = StoredBy(NewestOf(windows), m)
<1>1. PICK D \in SUBSET RingIndices : m.updates \in [D -> Nat \cup {Deleted}]
  BY DEF RootMessage, RootUpdates
<1>2. PICK c \in Collections : c = m.identifier
  BY DEF RootMessage
<1>3. PICK w : w = SP!StoreWindows(windows[c], m)
  OBVIOUS
<1>4. ringRoots' = [windows EXCEPT ![c] = w]
  BY <1>2, <1>3 DEF SP!StoreBatch
<1>5. ASSUME NEW r \in RingIndices
      PROVE  Newest(w[r]) = IF r \in D THEN m.updates[r] ELSE Newest(windows[c][r])
  <2>1. PICK s \in Seq(Nat) : s = windows[c][r]
    BY DEF SP!Windows, SP!RingIndices, RingIndices
  <2>2. w[r] = SP!StoreWindow(s, r, m)
    BY <1>3, <2>1 DEF SP!StoreWindows, SP!RingIndices, RingIndices
  <2>3. CASE r \notin D
    BY <1>1, <2>1, <2>2, <2>3 DEF SP!StoreWindow, SP!DeletedIn, SP!BuiltIn
  <2>4. CASE r \in D /\ m.updates[r] = Deleted
    <3>1. r \in SP!DeletedIn(m) /\ r \notin SP!BuiltIn(m)
      BY <1>1, <2>4 DEF SP!DeletedIn, SP!BuiltIn, SP!Deleted, Deleted
    <3>2. w[r] = <<>>
      BY <2>2, <3>1 DEF SP!StoreWindow
    <3> QED BY <2>4, <3>2 DEF Newest
  <2>5. CASE r \in D /\ m.updates[r] # Deleted
    <3>1. PICK n \in Nat : n = m.updates[r]
      BY <1>1, <2>5
    <3>2. w[r] = Append(IF Len(s) = MaxRecentRootsPerRing THEN Tail(s) ELSE s, n)
      BY <1>1, <2>2, <2>5, <3>1
      DEF SP!StoreWindow, SP!DeletedIn, SP!BuiltIn, SP!Deleted, Deleted
    <3>3. PICK t \in Seq(Nat) : w[r] = Append(t, n)
      <4>1. CASE Len(s) = MaxRecentRootsPerRing
        <5>1. s # <<>>
          BY <4>1, SyncAssumption
        <5>2. Tail(s) \in Seq(Nat)
          BY <5>1
        <5> QED BY <3>2, <4>1, <5>2
      <4> QED BY <3>2, <4>1
    <3>4. Append(t, n) # <<>> /\ Last(Append(t, n)) = n
      BY <3>3 DEF Last
    <3> QED BY <2>5, <3>1, <3>3, <3>4 DEF Newest
  <2> QED BY <2>3, <2>4, <2>5
<1>6. DOMAIN m.updates = D
  BY <1>1
<1>7. ASSUME NEW d \in Collections, NEW r \in RingIndices
      PROVE  Newest(ringRoots'[d][r])
               = IF Carries(m, d, r) THEN m.updates[r] ELSE NewestOf(windows)[d][r]
  <2>1. NewestOf(windows)[d][r] = Newest(windows[d][r])
    BY DEF NewestOf
  <2>2. CASE d = c
    <3>1. ringRoots'[d] = w
      BY <1>4, <2>2
    <3>2. Carries(m, d, r) <=> r \in D
      BY <1>2, <1>6, <2>2 DEF Carries
    <3> QED BY <1>5, <2>1, <2>2, <3>1, <3>2
  <2>3. CASE d # c
    <3>1. ringRoots'[d] = windows[d] /\ ~Carries(m, d, r)
      BY <1>2, <1>4, <2>3 DEF Carries
    <3> QED BY <2>1, <3>1
  <2> QED BY <2>2, <2>3
<1> QED BY <1>7 DEF NewestOf, StoredBy

\* What the subscriber makes of a message is what its handlers do.
LEMMA ReceivedView ==
  ASSUME SP!ClearsAll, SyncInv, NEW m \in ChannelMessage, SP!Receive(m)
  PROVE  Present' = Handled(Present, m)
<1>1. ringRoots \in [Collections -> SP!Windows]
  BY DEF SyncInv, SP!SubscriberInv
<1>2. \A windows \in SP!ClearedRoots : windows = SP!EmptyRoots
  BY SubscriberAssumed, SP!ClearedEmpty
<1>3. NewestOf(SP!EmptyRoots) = NothingStored
  BY DEF NewestOf, NothingStored, Newest, SP!EmptyRoots, SP!EmptyWindows, SP!RingIndices, RingIndices
<1>4. /\ Present.active = SP!IsActive /\ Present.at = subscription.initialized_at_sequence
      /\ Present.last = lastProcessedSequence /\ Present.exponents = ringExponents
      /\ Present.newest = NewestOf(ringRoots)
  BY DEF Present, S!IsActive, SP!IsActive
<1>5. SP!EmptyRoots \in [Collections -> SP!Windows]
  BY SubscriberAssumed, SP!EmptyBooks
<1>6. ASSUME UNCHANGED <<SP!ringData, subscription>>
      PROVE  Present' = Present
  BY <1>6 DEF Present, SP!ringData, S!IsActive
<1>7. CASE m.call = "terminate"
  <2>1. SP!TerminatedByNotifier
    BY <1>7 DEF SP!Receive
  <2>2. CASE ~SP!IsActive
    <3>1. Present' = Present
      BY <1>6, <2>1, <2>2 DEF SP!TerminatedByNotifier
    <3> QED BY <1>4, <1>7, <2>2, <3>1 DEF Handled
  <2>3. CASE SP!IsActive
    <3>1. SP!clear_all_ring_data /\ subscription' = SP!Terminated
      BY <2>1, <2>3 DEF SP!TerminatedByNotifier
    <3>2. ringRoots' = SP!EmptyRoots /\ ringExponents' = {} /\ lastProcessedSequence' = 0
      BY <1>2, <3>1 DEF SP!clear_all_ring_data
    <3>3. Present' = Blank
      BY <1>3, <3>1, <3>2 DEF Present, Blank, S!IsActive, SP!Terminated
    <3> QED BY <1>4, <1>7, <2>3, <3>3 DEF Handled
  <2> QED BY <2>2, <2>3
<1>8. CASE m.call = "update"
  <2>1. SP!process_ring_updates(m)
    BY <1>8 DEF SP!Receive
  <2>2. m \in RootMessage
    BY <1>8 DEF ChannelMessage, TerminateSubscription
  <2>3. Handled(Present, m) =
          IF ~Present.active \/ m.sequence < Present.last THEN Present ELSE Updated(Present, m)
    BY <1>8 DEF Handled
  <2>4. CASE ~SP!IsActive \/ m.sequence < lastProcessedSequence
    <3>1. Present' = Present
      BY <1>6, <2>1, <2>4 DEF SP!process_ring_updates
    <3> QED BY <1>4, <2>3, <2>4, <3>1
  <2>5. CASE ~(~SP!IsActive \/ m.sequence < lastProcessedSequence)
    <3>1. SP!StoreBatch(ringRoots, collectionStates, m)
          /\ UNCHANGED <<ringExponents, subscription>>
      BY <2>1, <2>5 DEF SP!process_ring_updates
    <3>2. lastProcessedSequence' = m.sequence
      BY <3>1 DEF SP!StoreBatch
    <3>3. NewestOf(ringRoots') = StoredBy(NewestOf(ringRoots), m)
      BY <1>1, <2>2, <3>1, StoredView
    <3>4. Present' = Updated(Present, m)
      BY <3>1, <3>2, <3>3 DEF Present, Updated, S!IsActive
    <3> QED BY <1>4, <2>3, <2>5, <3>4
  <2> QED BY <2>4, <2>5
<1>9. CASE m.call = "init"
  <2>1. SP!initialize_ring_roots(m)
    BY <1>9 DEF SP!Receive
  <2>2. m \in RootMessage
    BY <1>9 DEF ChannelMessage, TerminateSubscription
  <2>3. PICK at : at = subscription.initialized_at_sequence
    OBVIOUS
  <2>4. Handled(Present, m) =
          IF Present.active /\ m.sequence < Present.at THEN Present
          ELSE Initialised(IF Present.active /\ m.sequence > Present.at THEN Blank ELSE Present, m)
    BY <1>9 DEF Handled
  <2>5. CASE SP!IsActive /\ m.sequence < at
    <3>1. Present' = Present
      BY <1>6, <2>1, <2>3, <2>5 DEF SP!initialize_ring_roots
    <3> QED BY <1>4, <2>3, <2>4, <2>5, <3>1
  <2>6. CASE ~(SP!IsActive /\ m.sequence < at)
    <3>1. subscription' = SP!ActiveAt(m.sequence)
      BY <2>1, <2>3, <2>6 DEF SP!initialize_ring_roots
    <3>2. S!IsActive' /\ subscription'.initialized_at_sequence = m.sequence
      BY <3>1 DEF SP!ActiveAt, S!IsActive
    <3>3. CASE SP!IsActive /\ m.sequence > at
      <4>1. SP!StoreBatch(SP!EmptyRoots, SP!NoStates, m) /\ ringExponents' = {m.identifier}
        BY <1>2, <2>1, <2>3, <2>6, <3>3 DEF SP!initialize_ring_roots
      <4>2. lastProcessedSequence' = m.sequence
        BY <4>1 DEF SP!StoreBatch
      <4>3. NewestOf(ringRoots') = StoredBy(NothingStored, m)
        BY <1>3, <1>5, <2>2, <4>1, StoredView
      <4>4. Present' = Initialised(Blank, m)
        BY <3>2, <4>1, <4>2, <4>3 DEF Present, Initialised, Blank
      <4> QED BY <1>4, <2>3, <2>4, <2>6, <3>3, <4>4
    <3>4. CASE ~(SP!IsActive /\ m.sequence > at)
      <4>1. SP!StoreBatch(ringRoots, collectionStates, m)
            /\ ringExponents' = ringExponents \cup {m.identifier}
        BY <2>1, <2>3, <2>6, <3>4 DEF SP!initialize_ring_roots
      <4>2. lastProcessedSequence' = m.sequence
        BY <4>1 DEF SP!StoreBatch
      <4>3. NewestOf(ringRoots') = StoredBy(NewestOf(ringRoots), m)
        BY <1>1, <2>2, <4>1, StoredView
      <4>4. Present' = Initialised(Present, m)
        BY <1>4, <3>2, <4>1, <4>2, <4>3 DEF Present, Initialised
      <4> QED BY <1>4, <2>3, <2>4, <2>6, <3>4, <4>4
    <3> QED BY <3>3, <3>4
  <2> QED BY <2>5, <2>6
<1> QED BY <1>7, <1>8, <1>9, ChannelBatch

-----------------------------------------------------------------------------
(* Updates with one sequence number and one root per ring: a batch, as it  *)
(* is sent and sent again, or a replay.                                    *)

\* An update of sequence number s with the revisions `current`.
IsUpdate(m, s, current) ==
  /\ m \in RootMessage /\ m.call = "update" /\ m.sequence = s
  /\ \A r \in DOMAIN m.updates : m.updates[r] = current[m.identifier][r]

\* The newest revisions after the first n updates of q.
UpTo(newest, q, n, current) ==
  [c \in Collections |-> [r \in RingIndices |->
     IF \E j \in 1..n : Carries(q[j], c, r) THEN current[c][r] ELSE newest[c][r]]]

\* One more update.
LEMMA UpToNext ==
  ASSUME NEW newest, NEW q, NEW i \in Nat \ {0}, NEW s, NEW current,
         IsUpdate(q[i], s, current)
  PROVE  StoredBy(UpTo(newest, q, i - 1, current), q[i]) = UpTo(newest, q, i, current)
<1>1. PICK k \in Nat : k = i - 1 /\ i = k + 1
  <2>1. i - 1 \in Nat /\ i = (i - 1) + 1
    OBVIOUS
  <2> QED BY <2>1
<1>2. \A j : j \in 1..i <=> j \in 1..k \/ j = i
  BY <1>1
<1>3. ASSUME NEW c \in Collections, NEW r \in RingIndices
      PROVE  (IF Carries(q[i], c, r) THEN q[i].updates[r]
              ELSE UpTo(newest, q, k, current)[c][r])
               = IF \E j \in 1..i : Carries(q[j], c, r) THEN current[c][r] ELSE newest[c][r]
  <2>1. UpTo(newest, q, k, current)[c][r]
          = IF \E j \in 1..k : Carries(q[j], c, r) THEN current[c][r] ELSE newest[c][r]
    BY DEF UpTo
  <2>2. Carries(q[i], c, r) => q[i].updates[r] = current[c][r]
    BY DEF Carries, IsUpdate
  <2>3. (\E j \in 1..i : Carries(q[j], c, r))
          <=> Carries(q[i], c, r) \/ \E j \in 1..k : Carries(q[j], c, r)
    BY <1>2
  <2> QED BY <2>1, <2>2, <2>3
<1>4. StoredBy(UpTo(newest, q, k, current), q[i])
        = [c \in Collections |-> [r \in RingIndices |->
             IF \E j \in 1..i : Carries(q[j], c, r) THEN current[c][r] ELSE newest[c][r]]]
  BY <1>3 DEF StoredBy
<1> QED BY <1>1, <1>4 DEF UpTo

\* They reach an active subscriber that has handled nothing newer, and make the
\* rings they carry current; any other ring, and an inactive subscriber, stays
\* as it was.
LEMMA UpdatesLead ==
  ASSUME NEW e \in View, NEW s \in Nat, e.last <= s, NEW current \in Newests,
         NEW q \in Seq(ChannelMessage), \A i \in 1..Len(q) : IsUpdate(q[i], s, current)
  PROVE  \E w \in View :
           /\ Leads(e, q, w)
           /\ ~e.active => w = e
           /\ w.active = e.active /\ w.at = e.at /\ w.exponents = e.exponents /\ w.last <= s
           /\ e.active =>
                \A c \in Collections, r \in RingIndices :
                  w.newest[c][r] = IF \E j \in 1..Len(q) : Carries(q[j], c, r)
                                   THEN current[c][r] ELSE e.newest[c][r]
<1>1. PICK n \in Nat : n = Len(q)
  OBVIOUS
<1>2. /\ e.active \in BOOLEAN /\ e.at \in Nat /\ e.last \in Nat
      /\ e.exponents \in SUBSET Collections /\ e.newest \in Newests
  BY DEF View
<1>3. CASE ~e.active
  <2>1. PICK run : run = [i \in 0..n |-> e]
    OBVIOUS
  <2>2. run \in [0..n -> View] /\ run[0] = e /\ run[n] = e
    BY <1>1, <2>1
  <2>3. ASSUME NEW i \in 1..n PROVE run[i] = Handled(run[i - 1], q[i])
    <3>1. i \in 0..n /\ i - 1 \in 0..n
      BY <1>1
    <3>2. q[i].call = "update"
      BY <1>1 DEF IsUpdate
    <3>3. Handled(e, q[i]) = e
      BY <1>3, <3>2 DEF Handled
    <3> QED BY <2>1, <3>1, <3>3
  <2>4. LeadsBy(run, e, q, e)
    BY <1>1, <2>2, <2>3 DEF LeadsBy
  <2> QED BY <1>2, <1>3, <2>4 DEF Leads
<1>4. CASE e.active
  <2> DEFINE after(i) == [active |-> TRUE, at |-> e.at, last |-> s, exponents |-> e.exponents,
                          newest |-> UpTo(e.newest, q, i, current)]
  <2>1. \A i \in 0..n : UpTo(e.newest, q, i, current) \in Newests
    BY <1>2 DEF UpTo, Newests
  <2>2. \A i \in 0..n : /\ after(i) \in View /\ after(i).active /\ after(i).last = s
                        /\ after(i).newest = UpTo(e.newest, q, i, current)
                        /\ after(i).at = e.at /\ after(i).exponents = e.exponents
                        /\ after(i).active = TRUE
    BY <1>2, <2>1 DEF View
  <2>3. ASSUME NEW v \in View, v.active, v.at = e.at, v.exponents = e.exponents,
               v.last <= s, NEW i \in 1..n, v.newest = UpTo(e.newest, q, i - 1, current)
        PROVE  Handled(v, q[i]) = after(i)
    <3>1. IsUpdate(q[i], s, current) /\ i \in Nat \ {0}
      BY <1>1
    <3>2. q[i].call = "update" /\ q[i].sequence = s
      BY <3>1 DEF IsUpdate
    <3>3. ~(s < v.last) /\ v.active = TRUE
      BY <2>3 DEF View
    <3>4. Handled(v, q[i]) = Updated(v, q[i])
      BY <3>2, <3>3 DEF Handled
    <3>5. StoredBy(v.newest, q[i]) = UpTo(e.newest, q, i, current)
      <4>1. StoredBy(UpTo(e.newest, q, i - 1, current), q[i]) = UpTo(e.newest, q, i, current)
        BY ONLY <3>1, UpToNext
      <4>2. v.newest = UpTo(e.newest, q, i - 1, current)
        BY <2>3
      <4> QED BY <4>1, <4>2
    <3> QED BY <2>3, <3>2, <3>3, <3>4, <3>5 DEF Updated
  <2>4. UpTo(e.newest, q, 0, current) = e.newest
    <3>1. \A c \in Collections, r \in RingIndices :
            (IF \E j \in 1..0 : Carries(q[j], c, r) THEN current[c][r] ELSE e.newest[c][r])
              = e.newest[c][r]
      OBVIOUS
    <3>2. UpTo(e.newest, q, 0, current)
            = [c \in Collections |-> [r \in RingIndices |-> e.newest[c][r]]]
      BY <3>1 DEF UpTo
    <3>3. e.newest = [c \in Collections |-> [r \in RingIndices |-> e.newest[c][r]]]
      BY <1>2 DEF Newests
    <3> QED BY <3>2, <3>3
  <2> HIDE DEF after
  <2>5. PICK run : run = [i \in 0..n |-> IF i = 0 THEN e ELSE after(i)]
    OBVIOUS
  <2>6. 0 \in 0..n /\ n \in 0..n /\ \A i \in 1..n : i \in 0..n /\ i # 0 /\ i - 1 \in 0..n
    BY <1>1
  <2>7. run \in [0..n -> View] /\ run[0] = e /\ \A i \in 1..n : run[i] = after(i)
    BY <2>2, <2>5, <2>6
  <2>8. ASSUME NEW i \in 1..n PROVE run[i] = Handled(run[i - 1], q[i])
    <3>1. CASE i = 1
      <4>1. run[i - 1] = e /\ UpTo(e.newest, q, i - 1, current) = e.newest
        BY <2>4, <2>7, <3>1
      <4> QED BY <1>4, <2>3, <2>7, <4>1
    <3>2. CASE i # 1
      <4>1. i - 1 \in 1..n /\ i - 1 \in 0..n
        BY <1>1, <3>2
      <4>2. PICK v \in View : v = after(i - 1)
        BY <2>2, <4>1
      <4>3. v.last <= s
        BY <2>2, <4>1, <4>2
      <4>4. Handled(v, q[i]) = after(i)
        BY <2>2, <2>3, <4>1, <4>2, <4>3
      <4> QED BY <2>7, <4>1, <4>2, <4>4
    <3> QED BY <3>1, <3>2
  <2>9. PICK w \in View : w = run[n]
    BY <2>6, <2>7
  <2>10. Leads(e, q, w)
    <3>1. LeadsBy(run, e, q, w)
      BY <1>1, <2>7, <2>8, <2>9 DEF LeadsBy
    <3> QED BY <3>1 DEF Leads
  <2>11. /\ w.active = TRUE /\ w.at = e.at /\ w.exponents = e.exponents /\ w.last <= s
         /\ w.newest = UpTo(e.newest, q, n, current)
    <3>1. CASE n = 0
      <4>1. w = e
        BY <2>7, <2>9, <3>1
      <4> QED BY <1>4, <1>2, <2>4, <3>1, <4>1
    <3>2. CASE n # 0
      <4>1. n \in 1..n
        BY <1>1, <3>2
      <4>2. w = after(n)
        BY <2>7, <2>9, <4>1
      <4> QED BY <2>2, <2>6, <4>2
    <3> QED BY <3>1, <3>2
  <2>12. \A c \in Collections, r \in RingIndices :
           w.newest[c][r] = IF \E j \in 1..n : Carries(q[j], c, r)
                            THEN current[c][r] ELSE e.newest[c][r]
    BY <2>11 DEF UpTo
  <2> QED BY <1>1, <1>2, <1>4, <2>10, <2>11, <2>12
<1> QED BY <1>3, <1>4

-----------------------------------------------------------------------------
(* A batch carries every sealed update.                                    *)

\* Every index is in one of the chunks.
LEMMA ChunksCover ==
  ASSUME NEW I \in SUBSET Nat, IsFiniteSet(I), NEW size \in Nat \ {0}, NEW r \in I
  PROVE  \E k \in DOMAIN Chunks(I, size) : r \in Chunks(I, size)[k]
<1>1. PICK card \in Nat, a \in Nat : card = Cardinality(I) /\ a = Rank(I, r) /\ a < card
  <2>1. Cardinality(I) \in Nat /\ Rank(I, r) \in 0..(Cardinality(I) - 1)
    BY RankFacts
  <2> QED BY <2>1
<1>2. PICK b \in Nat : b = card + size - 1
  OBVIOUS
<1>3. \A x \in Nat : /\ x \div size \in Nat /\ x = size * (x \div size) + (x % size)
                     /\ x % size \in Nat /\ x % size < size
  OBVIOUS
<1>4. PICK k \in Nat, rest \in Nat : k = a \div size /\ a = size * k + rest
  BY <1>3
<1>5. PICK n \in Nat, over \in Nat : n = b \div size /\ b = size * n + over /\ over < size
  BY <1>3
<1>6. k < n
  <2>1. SUFFICES ASSUME n <= k PROVE FALSE
    OBVIOUS
  <2>2. PICK d \in Nat : k = n + d
    <3>1. k - n \in Nat /\ k = n + (k - n)
      BY <2>1
    <3> QED BY <3>1
  <2>3. PICK u \in Nat, v \in Nat : u = size * n /\ v = size * d
    OBVIOUS
  <2>4. size * k = u + v
    BY <2>2, <2>3
  <2>5. a = u + v + rest /\ b = u + over
    BY <1>4, <1>5, <2>3, <2>4
  <2> QED BY <1>1, <1>2, <1>5, <2>5
<1>7. k + 1 \in 1..n /\ (k + 1) - 1 = k
  BY <1>6
<1>8. Chunks(I, size)
        = [j \in 1..n |-> {q \in I : Cardinality({x \in I : x < q}) \div size = j - 1}]
  BY <1>1, <1>2, <1>5 DEF Chunks
<1>9. Cardinality({x \in I : x < r}) \div size = (k + 1) - 1
  BY <1>1, <1>4, <1>7 DEF Rank
<1>10. r \in Chunks(I, size)[k + 1]
  BY <1>7, <1>8, <1>9
<1> QED BY <1>7, <1>8, <1>10

\* Every element of one of the lists is one of the flattened list.
LEMMA FlattenCovers ==
  ASSUME NEW Elems, NEW n \in Nat, NEW seqs \in [1..n -> Seq(Elems)], NEW i \in 1..n
  PROVE  Range(seqs[i]) \subseteq Range(FlattenSeq(seqs))
<1> SUFFICES ASSUME NEW x \in 1..Len(seqs[i]) PROVE seqs[i][x] \in Range(FlattenSeq(seqs))
  <2>1. DOMAIN seqs[i] = 1..Len(seqs[i])
    OBVIOUS
  <2>2. \A y : y \in Range(seqs[i]) => \E x \in DOMAIN seqs[i] : y = seqs[i][x]
    BY DEF Range
  <2> QED BY <2>1, <2>2
<1>1. Len(seqs) = n /\ n # 0
  OBVIOUS
<1>2. PICK f : FlattenUpTo(f, seqs, n) /\ FlattenSeq(seqs) = f[n]
  <2> DEFINE c == CHOOSE f : FlattenUpTo(f, seqs, n)
  <2>1. FlattenUpTo(c, seqs, n)
    <3>1. \E f : FlattenUpTo(f, seqs, n)
      BY FlattenExists
    <3> QED BY <3>1
  <2>2. FlattenSeq(seqs) = c[n]
    BY <1>1 DEF FlattenSeq, FlattenUpTo
  <2> QED BY <2>1, <2>2
<1>3. \A k \in 1..n : f[k] \in Seq(Elems)
  BY <1>2, FlattenExists
<1> DEFINE In(k) == \E j \in 1..Len(f[k]) : f[k][j] = seqs[i][x]
           Bad == {k \in i..n : ~In(k)}
<1>4. ASSUME Bad # {} PROVE FALSE
  <2>1. PICK k \in Nat : k \in Bad /\ \A j \in Bad : k <= j
    <3>1. Bad \in SUBSET Nat
      OBVIOUS
    <3> HIDE DEF Bad
    <3> QED BY <1>4, <3>1, MinExists
  <2>2. k \in i..n /\ k \in 1..n /\ ~In(k)
    BY <2>1
  <2>3. f[k] = IF k = 1 THEN seqs[k] ELSE f[k - 1] \o seqs[k]
    BY <1>2, <2>2 DEF FlattenUpTo
  <2>4. CASE k = 1
    <3>1. f[k] = seqs[i]
      BY <2>2, <2>3, <2>4
    <3> QED BY <2>2, <3>1
  <2>5. CASE k # 1
    <3>1. k - 1 \in 1..n /\ f[k] = f[k - 1] \o seqs[k]
      BY <2>2, <2>3, <2>5
    <3>2. PICK a \in Seq(Elems), b \in Seq(Elems) : a = f[k - 1] /\ b = seqs[k] /\ f[k] = a \o b
      BY <1>3, <2>2, <3>1
    <3>3. /\ Len(f[k]) = Len(a) + Len(b) /\ Len(a) \in Nat /\ Len(b) \in Nat
          /\ \A j \in 1..Len(a) : f[k][j] = a[j]
          /\ \A j \in 1..Len(b) : f[k][Len(a) + j] = b[j]
      <4>1. PICK t : t = a \o b
        OBVIOUS
      <4>2. IsConcat(Elems, a, b, t)
        BY ONLY <4>1, a \in Seq(Elems), b \in Seq(Elems), ConcatElements
      <4>3. t = f[k] /\ Len(a) \in Nat /\ Len(b) \in Nat
        BY <3>2, <4>1
      <4> HIDE DEF Bad, In
      <4> QED BY <4>2, <4>3 DEF IsConcat
    <3>4. CASE k = i
      <4>1. x \in 1..Len(b) /\ b[x] = seqs[i][x]
        BY <3>2, <3>4
      <4>2. Len(a) + x \in 1..Len(f[k])
        BY <3>3, <4>1
      <4> QED BY <2>2, <3>3, <4>1, <4>2
    <3>5. CASE k # i
      <4>1. k - 1 \in i..n /\ ~(k <= k - 1)
        BY <2>2, <3>5
      <4>2. In(k - 1)
        <5>1. k - 1 \notin Bad
          BY <2>1, <4>1
        <5> QED BY <4>1, <5>1
      <4>3. PICK j \in 1..Len(a) : a[j] = seqs[i][x]
        BY <3>2, <4>2
      <4>4. j \in 1..Len(f[k]) /\ f[k][j] = seqs[i][x]
        BY <3>3, <4>3
      <4> QED BY <2>2, <4>4
    <3> QED BY <3>4, <3>5
  <2> QED BY <2>4, <2>5
<1>5. n \in i..n
  OBVIOUS
<1>6. In(n)
  BY <1>4, <1>5
<1>7. PICK s \in Seq(Elems) : s = f[n]
  BY <1>3, <1>5
<1>8. PICK j \in 1..Len(s) : s[j] = seqs[i][x]
  BY <1>6, <1>7
<1>9. s[j] \in Range(s)
  BY <1>7 DEF Range
<1> QED BY <1>2, <1>7, <1>8, <1>9

\* The revisions an update carries now.
Current ==
  [c \in Collections |-> [r \in RingIndices |-> IF HasRoot(c, r) THEN roots[c][r] ELSE Deleted]]

\* The current revisions are revisions.
LEMMA CurrentType == ASSUME TypeOK PROVE Current \in Newests
<1>1. \A c \in Collections, r \in RingIndices : roots[c][r] \in Int
  BY DEF TypeOK
<1>2. \A c \in Collections, r \in RingIndices :
        (IF HasRoot(c, r) THEN roots[c][r] ELSE Deleted) \in Nat \cup {Deleted}
  BY <1>1 DEF HasRoot
<1> QED BY <1>2 DEF Current, Newests

\* A message about the known rings I carries what these are now.
LEMMA MessageCarries ==
  ASSUME TypeOK, ProviderInv, NEW call \in {"init", "update"}, NEW c \in Collections,
         NEW s \in Nat, NEW I \in SUBSET RingIndices, \A r \in I : r < next_ring_index(c),
         NEW m, m = Message(call, c, s, resolve_updates_for_indices(c, I))
  PROVE  /\ m \in ChannelMessage /\ m \in RootMessage
         /\ m.call = call /\ m.identifier = c /\ m.sequence = s
         /\ \A d, r : Carries(m, d, r) <=> d = c /\ r \in I
         /\ \A r \in I : m.updates[r] = Current[c][r]
         /\ call = "update" => IsUpdate(m, s, Current)
<1>1. m \in ChannelMessage
  BY MessageType
<1>2. PICK u : u = resolve_updates_for_indices(c, I)
  OBVIOUS
<1>3. /\ m.call = call /\ m.identifier = c /\ m.sequence = s /\ m.updates = u
  BY <1>2 DEF Message
<1>4. DOMAIN u = I /\ \A r \in I : u[r] = Current[c][r]
  BY <1>2 DEF resolve_updates_for_indices, Current
<1>5. m \in RootMessage
  BY <1>1, <1>3 DEF ChannelMessage, TerminateSubscription
<1> QED BY <1>1, <1>3, <1>4, <1>5 DEF Carries, IsUpdate

\* The messages of the sealed batch are updates.
LEMMA SealedUpdates ==
  ASSUME TypeOK, ProviderInv, NEW m \in SealedMessages
  PROVE  m \in ChannelMessage /\ IsUpdate(m, currentBatch.sequence, Current)
<1>1. PICK c \in Collections :
        \E I \in SUBSET SealedRings(c) :
          m = Message("update", c, currentBatch.sequence, resolve_updates_for_indices(c, I))
  BY DEF SealedMessages
<1>2. PICK I \in SUBSET SealedRings(c) :
        m = Message("update", c, currentBatch.sequence, resolve_updates_for_indices(c, I))
  BY <1>1
<1>3. I \in SUBSET RingIndices /\ \A r \in I : roots[c][r] # Unbuilt
  BY DEF SealedRings, ProviderInv
<1>4. \A r \in I : r < next_ring_index(c)
  BY <1>3, KnownBelowNext
<1>5. currentBatch.sequence \in Nat
  BY DEF TypeOK, BatchState
<1> QED BY <1>2, <1>3, <1>4, <1>5, MessageCarries

\* The batch carries every sealed key of the subscriber's collections.
LEMMA BatchCarries ==
  ASSUME TypeOK, ProviderInv, NEW p \in DOMAIN subscribers, channel[p] \in Nat \ {0},
         NEW c \in Range(subscribers[p].collections), NEW r \in RingIndices,
         <<c, r>> \in sealedBatchIndices
  PROVE  \E j \in 1..Len(BatchMessages(p)) : Carries(BatchMessages(p)[j], c, r)
<1>1. PICK n \in Nat : \E lists :
        /\ lists \in [1..n -> Seq(SealedMessages)]
        /\ BatchMessages(p) = FlattenSeq(lists)
        /\ DOMAIN subscribers[p].collections = 1..n
        /\ \A i \in 1..n : /\ subscribers[p].collections[i] \in Collections
                           /\ lists[i] = CollectionMessages(p, subscribers[p].collections[i])
  BY BatchLists
<1>2. PICK lists :
        /\ lists \in [1..n -> Seq(SealedMessages)]
        /\ BatchMessages(p) = FlattenSeq(lists)
        /\ DOMAIN subscribers[p].collections = 1..n
        /\ \A i \in 1..n : /\ subscribers[p].collections[i] \in Collections
                           /\ lists[i] = CollectionMessages(p, subscribers[p].collections[i])
  BY <1>1
<1>3. PICK i \in 1..n : subscribers[p].collections[i] = c
  BY <1>2 DEF Range
<1>4. c \in Collections /\ lists[i] = CollectionMessages(p, c)
  BY <1>2, <1>3
<1>5. SealedRings(c) \in SUBSET RingIndices /\ SealedRings(c) \in SUBSET Nat
      /\ IsFiniteSet(SealedRings(c)) /\ r \in SealedRings(c)
  <2>1. SealedRings(c) \subseteq RingIndices /\ r \in SealedRings(c)
    BY DEF SealedRings
  <2>2. RingIndices \subseteq Nat
    BY DEF RingIndices
  <2> QED BY <2>1, <2>2, FiniteRings, FS_Subset
<1>6. PICK l \in Nat : Chunks(SealedRings(c), channel[p]) \in [1..l -> SUBSET SealedRings(c)]
  BY <1>5, ChunksType
<1>7. PICK chunks \in [1..l -> SUBSET SealedRings(c)] : chunks = Chunks(SealedRings(c), channel[p])
  BY <1>6
<1>8. PICK k \in 1..l : r \in chunks[k]
  <2>1. \E k \in DOMAIN Chunks(SealedRings(c), channel[p]) :
          r \in Chunks(SealedRings(c), channel[p])[k]
    BY <1>5, ChunksCover
  <2> QED BY <1>7, <2>1
<1>9. CollectionMessages(p, c) = [x \in 1..l |->
          Message("update", c, currentBatch.sequence, resolve_updates_for_indices(c, chunks[x]))]
  BY <1>7 DEF CollectionMessages
<1>10. /\ Len(lists[i]) = l /\ k \in 1..Len(lists[i])
      /\ lists[i][k] = Message("update", c, currentBatch.sequence,
                               resolve_updates_for_indices(c, chunks[k]))
  BY <1>4, <1>9
<1>11. PICK m : m = Message("update", c, currentBatch.sequence,
                            resolve_updates_for_indices(c, chunks[k]))
  OBVIOUS
<1>12. Carries(m, c, r)
  <2>1. chunks[k] \in SUBSET SealedRings(c)
    BY <1>7
  <2>2. m.identifier = c /\ m.updates = resolve_updates_for_indices(c, chunks[k])
    BY <1>11 DEF Message
  <2>3. r \in DOMAIN resolve_updates_for_indices(c, chunks[k])
    BY <1>8 DEF resolve_updates_for_indices
  <2> QED BY <2>2, <2>3 DEF Carries
<1>13. lists[i][k] \in Range(FlattenSeq(lists))
  <2>1. PICK s \in Seq(SealedMessages) : s = lists[i]
    BY <1>2
  <2>2. s[k] \in Range(s)
    BY <1>10, <2>1 DEF Range
  <2>3. Range(lists[i]) \subseteq Range(FlattenSeq(lists))
    BY <1>2, FlattenCovers
  <2> QED BY <2>1, <2>2, <2>3
<1>14. PICK q \in Seq(SealedMessages) : q = BatchMessages(p)
  BY BatchMessagesType
<1>15. PICK j \in 1..Len(q) : q[j] = m
  BY <1>2, <1>10, <1>11, <1>13, <1>14 DEF Range
<1> QED BY <1>12, <1>14, <1>15

-----------------------------------------------------------------------------
(* An initialisation page leaves no ring out.                              *)

\* The first `limit` rings of later in storage order, and those before r.
PageOf(later, limit) ==
  {r \in later : Cardinality({q \in later : StorageRank[q] < StorageRank[r]}) < limit}
Before(later, r) == {q \in later : StorageRank[q] < StorageRank[r]}

\* The rings before r are as many as their places.
LEMMA BeforeRank ==
  ASSUME NEW later \in SUBSET RingIndices, NEW T, T = {StorageRank[q] : q \in later},
         NEW r \in later
  PROVE  /\ Cardinality(Before(later, r)) = Rank(T, StorageRank[r])
         /\ IsFiniteSet(Before(later, r)) /\ Cardinality(Before(later, r)) \in Nat
<1>1. IsFiniteSet(Before(later, r)) /\ Cardinality(Before(later, r)) \in Nat
  <2>1. Before(later, r) \subseteq RingIndices
    BY DEF Before
  <2> QED BY <2>1, FiniteRings, FS_Subset, FS_CardinalityType
<1>2. PICK A, B : A = Before(later, r) /\ B = {t \in T : t < StorageRank[r]}
  OBVIOUS
<1>3. PICK f : f = [q \in A |-> StorageRank[q]]
  OBVIOUS
<1>4. f \in [A -> B]
  BY <1>2, <1>3 DEF Before
<1>5. \A x, y \in A : f[x] = f[y] => x = y
  BY <1>2, <1>3, StorageOrder DEF Before
<1>6. \A t \in B : \E x \in A : f[x] = t
  BY <1>2, <1>3 DEF Before
<1>7. f \in Bijection(A, B)
  BY <1>4, <1>5, <1>6 DEF Bijection, Injection, Surjection, IsInjective
<1>8. Cardinality(B) = Cardinality(A)
  BY <1>1, <1>2, <1>7, FS_Bijection DEF ExistsBijection
<1> QED BY <1>1, <1>2, <1>8 DEF Rank

\* A page that is not full has them all.
LEMMA PageAll ==
  ASSUME NEW later \in SUBSET RingIndices, NEW limit \in Nat,
         Cardinality(PageOf(later, limit)) # limit
  PROVE  PageOf(later, limit) = later
<1>1. SUFFICES ASSUME NEW x \in later, x \notin PageOf(later, limit) PROVE FALSE
  BY DEF PageOf
<1>2. PICK T : T = {StorageRank[q] : q \in later}
  OBVIOUS
<1>3. T \in SUBSET Nat /\ IsFiniteSet(T) /\ IsFiniteSet(later)
  <2>1. \A q \in later : StorageRank[q] \in RingIndices
    BY NotifierAssumption
  <2>2. RingIndices \subseteq Nat
    BY DEF RingIndices
  <2>3. T \in SUBSET RingIndices
    BY <1>2, <2>1
  <2>4. IsFiniteSet(T) /\ IsFiniteSet(later)
    BY <2>3, FiniteRings, FS_Subset
  <2> QED BY <2>2, <2>3, <2>4
<1>4. PICK card \in Nat : /\ card = Cardinality(T)
                          /\ \A i \in T : Rank(T, i) \in 0..(card - 1)
                          /\ \A i, j \in T : Rank(T, i) = Rank(T, j) => i = j
                          /\ \A n \in 1..card : \E i \in T : Rank(T, i) = n - 1
  BY <1>3, RankFacts
<1>5. \A q \in later : /\ StorageRank[q] \in T
                       /\ Cardinality(Before(later, q)) = Rank(T, StorageRank[q])
  BY <1>2, BeforeRank
<1>6. PICK page : page = PageOf(later, limit)
  OBVIOUS
<1>7. \A q \in later : q \in page <=> Rank(T, StorageRank[q]) < limit
  BY <1>5, <1>6 DEF PageOf, Before
<1>8. limit <= card
  <2>1. ~(Rank(T, StorageRank[x]) < limit) /\ Rank(T, StorageRank[x]) \in 0..(card - 1)
    BY <1>1, <1>4, <1>5, <1>6, <1>7
  <2> QED BY <2>1
<1>9. page \subseteq later
  BY <1>6 DEF PageOf
<1>10. PICK f : f = [q \in page |-> Rank(T, StorageRank[q]) + 1]
  OBVIOUS
<1>11. ASSUME NEW q \in page PROVE f[q] \in 1..limit /\ f[q] = Rank(T, StorageRank[q]) + 1
  <2>1. Rank(T, StorageRank[q]) \in 0..(card - 1) /\ Rank(T, StorageRank[q]) < limit
    BY <1>4, <1>5, <1>7, <1>9
  <2> QED BY <1>10, <2>1
<1>12. ASSUME NEW p \in page, NEW q \in page, f[p] = f[q] PROVE p = q
  <2>1. Rank(T, StorageRank[p]) \in Nat /\ Rank(T, StorageRank[q]) \in Nat
    BY <1>4, <1>5, <1>9
  <2>2. Rank(T, StorageRank[p]) = Rank(T, StorageRank[q])
    BY <1>11, <1>12, <2>1
  <2>3. StorageRank[p] = StorageRank[q]
    BY <1>4, <1>5, <1>9, <2>2
  <2> QED BY <1>9, <2>3, StorageOrder
<1>13. ASSUME NEW n \in 1..limit PROVE \E q \in page : f[q] = n
  <2>1. n \in 1..card
    BY <1>8
  <2>2. PICK i \in T : Rank(T, i) = n - 1
    BY <1>4, <2>1
  <2>3. PICK q \in later : StorageRank[q] = i
    BY <1>2
  <2>4. n - 1 < limit /\ (n - 1) + 1 = n
    OBVIOUS
  <2>5. q \in page
    BY <1>7, <2>2, <2>3, <2>4
  <2> QED BY <1>11, <2>2, <2>3, <2>4, <2>5
<1>14. f \in Bijection(page, 1..limit)
  <2>1. f \in [page -> 1..limit]
    BY <1>10, <1>11
  <2> QED BY <1>12, <1>13, <2>1 DEF Bijection, Injection, Surjection, IsInjective
<1>15. Cardinality(page) = Cardinality(1..limit)
  BY <1>3, <1>9, <1>14, FS_Subset, FS_Bijection DEF ExistsBijection
<1>16. Cardinality(1..limit) = limit
  <2>1. 1 \in Int /\ limit \in Int
    OBVIOUS
  <2> QED BY <2>1, FS_Interval
<1> QED BY <1>6, <1>15, <1>16

\* A page has every ring up to its last one.
LEMMA PageUpTo ==
  ASSUME NEW later \in SUBSET RingIndices, NEW limit \in Nat,
         NEW last \in PageOf(later, limit), NEW r \in later,
         StorageRank[r] <= StorageRank[last]
  PROVE  r \in PageOf(later, limit)
<1>1. last \in later /\ Cardinality(Before(later, last)) < limit
  BY DEF PageOf, Before
<1>2. PICK a \in Nat, b \in Nat :
        a = Cardinality(Before(later, r)) /\ b = Cardinality(Before(later, last))
  BY <1>1, BeforeRank
<1>3. Before(later, r) \subseteq Before(later, last)
  <2>1. \A q \in later : StorageRank[q] \in Int
    BY NotifierAssumption DEF RingIndices
  <2> QED BY <1>1, <2>1 DEF Before
<1>4. a <= b
  <2>1. IsFiniteSet(Before(later, last))
    BY <1>1, BeforeRank
  <2> QED BY <1>2, <1>3, <2>1, FS_Subset
<1>5. a < limit
  BY <1>1, <1>2, <1>4
<1> QED BY <1>2, <1>5 DEF PageOf, Before

\* The last ring of a page.
LEMMA PageLast ==
  ASSUME NEW page \in SUBSET RingIndices, NEW limit \in Nat \ {0}, Cardinality(page) = limit,
         NEW last, last = CHOOSE r \in page : \A q \in page : StorageRank[q] <= StorageRank[r]
  PROVE  last \in page
<1>1. page # {}
  BY FS_EmptySet
<1>2. \E r \in page : \A q \in page : StorageRank[q] <= StorageRank[r]
  <2>1. PICK T : T = {StorageRank[q] : q \in page}
    OBVIOUS
  <2>2. T \in SUBSET Int /\ IsFiniteSet(T) /\ T # {}
    <3>1. \A q \in page : StorageRank[q] \in RingIndices
      BY NotifierAssumption
    <3>2. RingIndices \subseteq Int
      BY DEF RingIndices
    <3>3. T \in SUBSET RingIndices
      BY <2>1, <3>1
    <3>4. IsFiniteSet(T)
      BY <3>3, FiniteRings, FS_Subset
    <3>5. T # {}
      BY <1>1, <2>1
    <3> QED BY <3>2, <3>3, <3>4, <3>5
  <2>3. Max(T) \in T /\ \A y \in T : Max(T) >= y
    BY <2>2, MaxExists
  <2>4. PICK r \in page : StorageRank[r] = Max(T)
    BY <2>1, <2>3
  <2>5. \A q \in page : StorageRank[q] <= StorageRank[r]
    <3>1. \A q \in page : StorageRank[q] \in T /\ StorageRank[q] \in Int
      BY <2>1, <2>2
    <3> QED BY <2>3, <2>4, <3>1
  <2> QED BY <2>5
<1> QED BY <1>2

-----------------------------------------------------------------------------
(* The subscriber mirrors the provider.                                    *)

\* The initialisation has sent a page of collection c.
BegunIn(state, c) ==
  \E j \in DOMAIN state.collections :
    /\ state.collections[j] = c
    /\ \/ j < state.current_collection_index
       \/ j = state.current_collection_index /\ state.after_ring_index # -1
Begun(c) == Chain \in DOMAIN pendingInit => BegunIn(pendingInit[Chain], c)

\* The initialisation is past ring r of collection c.
SweptIn(state, c, r) ==
  \E j \in DOMAIN state.collections :
    /\ state.collections[j] = c
    /\ \/ j < state.current_collection_index
       \/ /\ j = state.current_collection_index /\ state.after_ring_index # -1
          /\ StorageRank[r] <= StorageRank[state.after_ring_index]
Swept(c, r) == Chain \in DOMAIN pendingInit => SweptIn(pendingInit[Chain], c, r)

\* The view e has the current root of a ring.
RingRight(e, c, r) ==
  IF HasRoot(c, r) THEN Swept(c, r) => e.newest[c][r] = roots[c][r]
                   ELSE e.newest[c][r] = Deleted

\* What the subscriber will be once it has handled all messages under way: the
\* mirror of the provider, but for what is not settled or not initialised yet.
EndsRight(e) ==
  /\ ~e.active => e = Blank
  /\ e.last <= sealedBatchSequence
  /\ ~Registered => ~e.active
  /\ Registered =>
       /\ e.active => e.at = subscribers[Chain].last_init_sequence
       /\ \A c \in Range(subscribers[Chain].collections) :
            /\ Begun(c) => e.active /\ c \in e.exponents
            /\ \A r \in RingIndices : Settled(<<c, r>>) => RingRight(e, c, r)

\* An initialisation under way is that of the subscription.
PendingInv ==
  Chain \in DOMAIN pendingInit =>
    /\ Registered
    /\ pendingInit[Chain].collections = subscribers[Chain].collections
    /\ pendingInit[Chain].sequence = subscribers[Chain].last_init_sequence

\* Mirrored is inductive with what the messages under way lead to.
MirrorInv ==
  /\ SyncInv /\ BatchInv /\ PendingInv
  /\ \E e \in View : Leads(Present, outbox[Chain], e) /\ EndsRight(e)

\* The collections of a subscriber.
LEMMA SubscribedCollections ==
  ASSUME TypeOK, Registered
  PROVE  /\ subscribers[Chain].collections \in Seq(Collections)
         /\ Range(subscribers[Chain].collections) \subseteq Collections
         /\ subscribers[Chain].last_init_sequence \in Nat
<1>1. subscribers[Chain] \in SubscriberInfo
  BY DEF TypeOK, IsPartialFunction, Registered
<1>2. PICK cs \in Seq(Collections) : cs = subscribers[Chain].collections
  BY <1>1, NotifierAssumption DEF SubscriberInfo
<1>3. Range(cs) \subseteq Collections
  BY DEF Range
<1> QED BY <1>1, <1>2, <1>3 DEF SubscriberInfo

\* Only a key that is settled, and was not before, or a changed root can make an
\* end wrong.
LEMMA EndsKept ==
  ASSUME TypeOK, NEW e \in View, EndsRight(e), UNCHANGED <<pendingInit, subscribers>>,
         sealedBatchSequence' \in Nat, sealedBatchSequence <= sealedBatchSequence',
         Registered =>
           \A c \in Collections, r \in RingIndices :
             Settled(<<c, r>>)' => Settled(<<c, r>>) /\ roots'[c][r] = roots[c][r]
  PROVE  EndsRight(e)'
<1>1. e.last <= sealedBatchSequence'
  <2>1. e.last \in Nat /\ sealedBatchSequence \in Nat
    BY DEF View, TypeOK
  <2> QED BY <2>1 DEF EndsRight
<1>2. (~e.active => e = Blank) /\ (~Registered' => ~e.active)
  BY DEF EndsRight, Registered
<1>3. ASSUME Registered'
      PROVE  /\ e.active => e.at = subscribers'[Chain].last_init_sequence
             /\ \A c \in Range(subscribers'[Chain].collections) :
                  /\ Begun(c)' => e.active /\ c \in e.exponents
                  /\ \A r \in RingIndices : Settled(<<c, r>>)' => RingRight(e, c, r)'
  <2>1. Registered
    BY <1>3 DEF Registered
  <2>2. e.active => e.at = subscribers'[Chain].last_init_sequence
    BY <2>1 DEF EndsRight
  <2>3. ASSUME NEW c \in Range(subscribers[Chain].collections)
        PROVE  /\ Begun(c)' => e.active /\ c \in e.exponents
               /\ \A r \in RingIndices : Settled(<<c, r>>)' => RingRight(e, c, r)'
    <3>1. Begun(c)' => e.active /\ c \in e.exponents
      BY <2>1 DEF EndsRight, Begun
    <3>2. ASSUME NEW r \in RingIndices, Settled(<<c, r>>)' PROVE RingRight(e, c, r)'
      <4>1. c \in Collections
        BY <2>1, SubscribedCollections
      <4>2. Settled(<<c, r>>) /\ roots'[c][r] = roots[c][r]
        BY <2>1, <3>2, <4>1
      <4>3. RingRight(e, c, r)
        BY <2>1, <4>2 DEF EndsRight
      <4> QED BY <4>2, <4>3 DEF RingRight, HasRoot, Swept
    <3> QED BY <3>1, <3>2
  <2> QED BY <2>2, <2>3
<1> QED BY <1>1, <1>2, <1>3 DEF EndsRight

\* With nothing under way the subscriber is the mirror.
LEMMA MirrorShows == ASSUME MirrorInv PROVE Mirrored
<1> SUFFICES ASSUME Quiet, NEW i \in DOMAIN subscribers[Chain].collections,
                    NEW r \in RingIndices, NEW c, c = subscribers[Chain].collections[i],
                    Settled(<<c, r>>)
             PROVE  IF HasRoot(c, r)
                    THEN /\ S!verify_membership(c, r, roots[c][r])
                         /\ Last(ringRoots[c][r]) = roots[c][r]
                    ELSE ringRoots[c][r] = <<>>
  BY DEF Mirrored
<1>1. Registered /\ Chain \notin DOMAIN pendingInit /\ outbox[Chain] = <<>>
  BY DEF Quiet
<1>2. PICK e \in View : Leads(Present, <<>>, e) /\ EndsRight(e)
  BY <1>1 DEF MirrorInv
<1>3. Present = e
  <2>1. Len(<<>>) = 0
    OBVIOUS
  <2> QED BY <1>2, <2>1 DEF Leads, LeadsBy
<1>4. c \in Range(subscribers[Chain].collections)
  BY DEF Range
<1>5. c \in Collections
  BY <1>1, <1>4, SubscribedCollections DEF MirrorInv, SyncInv
<1>6. c \in e.exponents /\ RingRight(e, c, r) /\ Swept(c, r)
  BY <1>1, <1>2, <1>4 DEF EndsRight, Begun, Swept
<1>7. PICK window \in Seq(Nat) : window = ringRoots[c][r]
  <2>1. ringRoots \in [Collections -> SP!Windows]
    BY DEF MirrorInv, SyncInv, SP!SubscriberInv
  <2> QED BY <1>5, <2>1 DEF SP!Windows, SP!RingIndices, RingIndices
<1>8. e.newest[c][r] = Newest(window) /\ e.exponents = ringExponents
  <2>1. Present.newest = NewestOf(ringRoots) /\ Present.exponents = ringExponents
    BY DEF Present
  <2> QED BY <1>3, <1>5, <1>7, <2>1 DEF NewestOf
<1>9. window # <<>> => Last(window) \in Nat /\ \E j \in DOMAIN window : window[j] = Last(window)
  <2>1. SUFFICES ASSUME window # <<>>
                 PROVE  Last(window) \in Nat /\ \E j \in DOMAIN window : window[j] = Last(window)
    OBVIOUS
  <2>2. Len(window) \in 1..Len(window) /\ DOMAIN window = 1..Len(window)
    BY <2>1
  <2> QED BY <2>2 DEF Last
<1>10. CASE HasRoot(c, r)
  <2>1. Newest(window) = roots[c][r] /\ roots[c][r] # Deleted
    BY <1>6, <1>8, <1>10 DEF RingRight, HasRoot, Deleted
  <2>2. window # <<>> /\ Last(window) = roots[c][r]
    BY <2>1 DEF Newest
  <2>3. roots[c][r] \in S!Range(ringRoots[c][r])
    BY <1>7, <1>9, <2>2 DEF S!Range
  <2> QED BY <1>6, <1>7, <1>8, <1>10, <2>2, <2>3 DEF S!verify_membership
<1>11. CASE ~HasRoot(c, r)
  <2>1. Newest(window) = Deleted
    BY <1>6, <1>8, <1>11 DEF RingRight
  <2>2. Deleted \notin Nat
    BY DEF Deleted
  <2>3. window = <<>>
    BY <1>9, <2>1, <2>2 DEF Newest
  <2> QED BY <1>7, <1>11, <2>3
<1> QED BY <1>10, <1>11

\* The books of the active batch also hold when a real subscriber asks.
LEMMA SyncBatchStep ==
  ASSUME TypeOK, BatchInv, CallsIn(toNotifier, RequestCalls), [SyncNext]_syncVars
  PROVE  BatchInv'
<1>1. Chain \in Paras
  BY SyncAssumption
<1>2. ASSUME NEW c, NEW indices, RequestReplay(Chain, c, indices)
      PROVE  BatchInv'
  BY <1>2, BatchInvUnchanged DEF RequestReplay, batch
<1>3. ASSUME Next \/ UNCHANGED notifierVars PROVE BatchInv'
  BY <1>3, BatchStep
<1>4. CASE NotifierSteps
  <2>1. \/ Next \/ \E c, indices : RequestReplay(Chain, c, indices)
    BY <1>1, <1>4
    DEF NotifierSteps, SubscribeChain, UnsubscribeChain, Seal, Abandon, SkipChain, Next,
        NotifierNext, SubscriberActions, SendBatch
  <2> QED BY <1>2, <1>3, <2>1
<1>5. CASE Clock
  <2>1. Tick \/ UNCHANGED notifierVars
    BY <1>5 DEF Clock
  <2> QED BY <1>3, <2>1 DEF Next, NotifierNext
<1>6. CASE MessageDelivered
  <2>1. Executed(Chain)
    BY <1>6 DEF MessageDelivered
  <2> QED BY <1>1, <1>3, <2>1 DEF Next
<1>7. CASE RequestDelivered
  <2>1. \/ UNCHANGED notifierVars
        \/ UnsubscribeBySubscriber(Chain)
        \/ \E c, indices : RequestReplay(Chain, c, indices)
    BY <1>7, RequestCases
  <2>2. UnsubscribeBySubscriber(Chain) => Next
    BY <1>1 DEF Next
  <2> QED BY <1>2, <1>3, <2>1, <2>2
<1>8. CASE SubscriberSteps \/ UNCHANGED syncVars
  <2>1. UNCHANGED notifierVars
    BY <1>8 DEF SubscriberSteps, ReplayIncluded, syncVars
  <2> QED BY <1>3, <2>1
<1> QED BY <1>4, <1>5, <1>6, <1>7, <1>8 DEF SyncNext

\* A step that leaves the end of the messages under way where it was.
LEMMA MirrorQuiet ==
  ASSUME MirrorInv, SyncInv', BatchInv', UNCHANGED <<pendingInit, subscribers>>,
         outbox'[Chain] = outbox[Chain], Present' = Present,
         sealedBatchSequence <= sealedBatchSequence',
         Registered =>
           \A c \in Collections, r \in RingIndices :
             Settled(<<c, r>>)' => Settled(<<c, r>>) /\ roots'[c][r] = roots[c][r]
  PROVE  MirrorInv'
<1>1. PICK e \in View : Leads(Present, outbox[Chain], e) /\ EndsRight(e)
  BY DEF MirrorInv
<1>2. EndsRight(e)'
  <2>1. sealedBatchSequence' \in Nat /\ TypeOK
    BY DEF MirrorInv, SyncInv, TypeOK
  <2> QED BY <1>1, <2>1, EndsKept
<1>3. Leads(Present', outbox'[Chain], e)
  BY <1>1
<1>4. PendingInv'
  BY DEF MirrorInv, PendingInv, Registered
<1> QED BY <1>2, <1>3, <1>4 DEF MirrorInv

\* The same keys are settled if pages, batch and history are the same.
LEMMA SettledSame ==
  ASSUME UNCHANGED <<pendingUpdates, sealedBatchIndices, excused, subscribers,
                     subscribersWithCurrentBatch, currentBatch>>
  PROVE  \A k : Settled(k)' <=> Settled(k)
<1>1. Awaiting' = Awaiting
  BY DEF Awaiting
<1> QED BY <1>1 DEF Settled

\* So nothing that leaves them and the messages alone makes the mirror wrong.
LEMMA MirrorSame ==
  ASSUME MirrorInv, SyncInv', BatchInv', UNCHANGED <<pendingInit, subscribers>>,
         outbox'[Chain] = outbox[Chain], Present' = Present, UNCHANGED sealedBatchSequence,
         UNCHANGED <<roots, pendingUpdates, sealedBatchIndices, excused,
                     subscribersWithCurrentBatch, currentBatch>>
  PROVE  MirrorInv'
<1>1. \A k : Settled(k)' <=> Settled(k)
  BY SettledSame
<1>2. sealedBatchSequence <= sealedBatchSequence'
  <2>1. sealedBatchSequence \in Nat
    BY DEF MirrorInv, SyncInv, TypeOK
  <2> QED BY <2>1
<1> QED BY <1>1, <1>2, MirrorQuiet

\* What the subscriber keeps to itself does not show.
LEMMA PresentSame ==
  ASSUME UNCHANGED <<ringRoots, ringExponents, subscription, lastProcessedSequence>>
  PROVE  Present' = Present
BY DEF Present, S!IsActive, NewestOf

\* Sealing a page: its keys wait for the batch, and an excused key that is
\* sealed again waits with them.
LEMMA MirrorSeal ==
  ASSUME MirrorInv, SyncInv', BatchInv', Seal, UNCHANGED subscriberSide
  PROVE  MirrorInv'
<1>1. /\ UNCHANGED <<pendingInit, subscribers>> /\ outbox'[Chain] = outbox[Chain]
      /\ UNCHANGED roots /\ currentBatch = NoBatch /\ EnqueueUpdates
  BY DEF Seal, EnqueueUpdates, provider, registry, xcm, authorize_enqueue_updates
<1>2. Present' = Present
  BY PresentSame DEF subscriberSide
<1>3. PICK n \in Nat : n = sealedBatchSequence
  BY DEF MirrorInv, SyncInv, TypeOK
<1>4. PICK s \in Pages : s = pageState.send_page
  BY DEF MirrorInv, SyncInv, TypeOK
<1>5. pendingUpdates' = [pendingUpdates EXCEPT ![s] = {}]
      /\ pendingUpdates \in [Pages -> SUBSET RingKeys]
  BY <1>1, <1>4 DEF EnqueueUpdates, cleanup_send_buffer, MirrorInv, SyncInv, TypeOK
<1>6. CASE DOMAIN subscribers = {}
  <2>1. ~Registered
    BY <1>6 DEF Registered
  <2>2. sealedBatchSequence' = n
    BY <1>1, <1>3, <1>6 DEF EnqueueUpdates, batch
  <2>3. sealedBatchSequence <= sealedBatchSequence'
    BY <1>3, <2>2
  <2> QED BY <1>1, <1>2, <2>1, <2>3, MirrorQuiet
<1>7. CASE DOMAIN subscribers # {}
  <2>1. /\ sealedBatchSequence' = n + 1 /\ currentBatch'.sequence = n + 1
        /\ pendingUpdates[s] \subseteq sealedBatchIndices'
        /\ UNCHANGED subscribersWithCurrentBatch
    <3>1. currentBatch' = [sequence |-> n + 1,
                           remaining_subscribers |-> Cardinality(DOMAIN subscribers)]
      BY <1>1, <1>3, <1>7 DEF EnqueueUpdates
    <3>2. currentBatch'.sequence = n + 1
      BY <3>1
    <3>3. /\ sealedBatchSequence' = n + 1 /\ UNCHANGED subscribersWithCurrentBatch
          /\ pendingUpdates[s] \subseteq sealedBatchIndices'
      BY <1>1, <1>3, <1>4, <1>7 DEF EnqueueUpdates
    <3> QED BY <3>2, <3>3
  <2>2. sealedBatchSequence <= sealedBatchSequence'
    BY <1>3, <2>1
  <2>3. ASSUME Registered PROVE Chain \in Awaiting' /\ Chain \notin Awaiting
    <3>1. PICK i \in Nat : i = subscribers[Chain].last_init_sequence /\ i <= n
      BY <1>3, <2>3, SubscribedCollections DEF MirrorInv, SyncInv, BatchInv, Registered
    <3>2. Chain \in DOMAIN subscribers' /\ subscribers'[Chain].last_init_sequence = i
      BY <1>1, <2>3, <3>1 DEF Registered
    <3>3. i < n + 1 /\ ~(i < 0)
      BY <3>1
    <3>4. subscribersWithCurrentBatch' = {}
      BY <1>1, <2>1 DEF MirrorInv, BatchInv
    <3>5. currentBatch.sequence = 0
      BY <1>1 DEF NoBatch
    <3> QED BY <2>1, <3>1, <3>2, <3>3, <3>4, <3>5 DEF Awaiting
  <2>4. ASSUME Registered, NEW k, Settled(k)' PROVE Settled(k)
    <3>1. k \notin sealedBatchIndices' /\ k \notin excused' /\ \A page \in Pages : k \notin pendingUpdates'[page]
      BY <2>3, <2>4 DEF Settled
    <3>2. k \notin excused
      BY <3>1 DEF Seal
    <3>3. \A page \in Pages : k \notin pendingUpdates[page]
      BY <1>5, <2>1, <3>1
    <3> QED BY <2>3, <2>4, <3>2, <3>3 DEF Settled
  <2> QED BY <1>1, <1>2, <2>2, <2>4, MirrorQuiet
<1> QED BY <1>6, <1>7

\* Giving up on a batch, or skipping the chain: the keys it still waited for
\* become excused.
LEMMA MirrorLost ==
  ASSUME MirrorInv, SyncInv', BatchInv', Abandon \/ SkipChain, UNCHANGED subscriberSide
  PROVE  MirrorInv'
<1>1. /\ UNCHANGED <<pendingInit, subscribers>> /\ outbox'[Chain] = outbox[Chain]
      /\ UNCHANGED <<roots, sealedBatchSequence, pendingUpdates>>
  BY DEF Abandon, SkipChain, AbandonStuckBatch, SendBatchSkipped, MarkProcessed,
         provider, paging, registry, xcm
<1>2. Present' = Present
  BY PresentSame DEF subscriberSide
<1>3. sealedBatchSequence <= sealedBatchSequence'
  <2>1. sealedBatchSequence \in Nat
    BY DEF MirrorInv, SyncInv, TypeOK
  <2> QED BY <1>1, <2>1
<1>4. /\ excused \subseteq excused'
      /\ Chain \in Awaiting => sealedBatchIndices \subseteq excused'
  BY DEF Abandon, SkipChain
<1>5. ASSUME NEW k, Settled(k)' PROVE Settled(k)
  BY <1>1, <1>4, <1>5 DEF Settled
<1> QED BY <1>1, <1>2, <1>3, <1>5, MirrorQuiet

\* A changed root is pending.
LEMMA MirrorChange ==
  ASSUME MirrorInv, SyncInv', BatchInv', NEW d \in Collections, ProviderActions(d),
         UNCHANGED <<subscriberSide, excused>>
  PROVE  MirrorInv'
<1> USE DEF provider, paging, batch, registry, xcm
<1>1. Present' = Present
  BY PresentSame DEF subscriberSide
<1>2. CASE RingFilled(d)
  <2>1. /\ UNCHANGED <<pendingInit, subscribers>> /\ outbox'[Chain] = outbox[Chain]
        /\ UNCHANGED <<roots, pendingUpdates, sealedBatchIndices, excused, sealedBatchSequence,
                       subscribersWithCurrentBatch, currentBatch>>
    BY <1>2 DEF RingFilled
  <2> QED BY <1>1, <2>1, MirrorSame
<1>3. ASSUME NEW q \in RingIndices, RootBuilt(d, q) \/ RootDeleted(d, q) PROVE MirrorInv'
  <2>1. /\ UNCHANGED <<pendingInit, subscribers>> /\ outbox'[Chain] = outbox[Chain]
        /\ UNCHANGED <<sealedBatchIndices, sealedBatchSequence, subscribersWithCurrentBatch,
                       currentBatch>>
        /\ on_ring_root_change(d, q)
    BY <1>3 DEF RootBuilt, RootDeleted
  <2>2. PICK op : roots' = [roots EXCEPT ![d][q] = op]
    BY <1>3 DEF RootBuilt, RootDeleted
  <2>3. roots \in [Collections -> [RingIndices -> Int]]
        /\ pendingUpdates \in [Pages -> SUBSET RingKeys] /\ pageState.write_page \in Pages
    BY DEF MirrorInv, SyncInv, TypeOK
  <2>4. \A c \in Collections, r \in RingIndices :
          <<c, r>> # <<d, q>> => roots'[c][r] = roots[c][r]
    BY <2>2, <2>3
  <2>5. /\ \A page \in Pages : pendingUpdates[page] \subseteq pendingUpdates'[page]
        /\ \E page \in Pages : <<d, q>> \in pendingUpdates'[page]
    <3>1. PICK w \in Pages : w = pageState.write_page
      BY <2>3
    <3>2. (w + 1) % PageModulus \in Pages
      <4>1. w \in Nat
        BY NotifierAssumption DEF Pages
      <4> QED BY <4>1, NextPage
    <3>3. CASE <<d, q>> \in pendingUpdates[w]
      <4>1. UNCHANGED pendingUpdates
        BY <2>1, <3>1, <3>3 DEF on_ring_root_change
      <4> QED BY <3>3, <4>1
    <3>4. CASE <<d, q>> \notin pendingUpdates[w]
      <4>1. PICK page : /\ page \in {w, (w + 1) % PageModulus}
                        /\ pendingUpdates' =
                             [pendingUpdates EXCEPT ![page] = @ \cup {<<d, q>>}]
        BY <2>1, <3>1, <3>4 DEF on_ring_root_change
      <4> QED BY <2>3, <3>2, <4>1
    <3> QED BY <3>3, <3>4
  <2>6. ASSUME NEW c \in Collections, NEW r \in RingIndices, Settled(<<c, r>>)'
        PROVE  Settled(<<c, r>>) /\ roots'[c][r] = roots[c][r]
    <3>1. Awaiting' = Awaiting
      BY <2>1 DEF Awaiting
    <3>2. <<c, r>> # <<d, q>>
      BY <2>5, <2>6 DEF Settled
    <3>3. Settled(<<c, r>>)
      BY <2>1, <2>5, <2>6, <3>1 DEF Settled
    <3> QED BY <2>4, <3>2, <3>3
  <2>7. sealedBatchSequence <= sealedBatchSequence'
    <3>1. sealedBatchSequence \in Nat
      BY DEF MirrorInv, SyncInv, TypeOK
    <3> QED BY <2>1, <3>1
  <2> QED BY <1>1, <2>1, <2>6, <2>7, MirrorQuiet
<1> QED BY <1>2, <1>3 DEF ProviderActions

\* A delivered message moves the subscriber on towards the same end.
LEMMA MirrorDelivered ==
  ASSUME ~LocalTermination, SP!ClearsAll, MirrorInv, SyncInv', BatchInv', MessageDelivered
  PROVE  MirrorInv'
<1>1. PICK q \in Seq(ChannelMessage) : q = outbox[Chain]
  BY DEF MirrorInv, SyncInv
<1>2. PICK e \in View : Leads(Present, q, e) /\ EndsRight(e)
  BY <1>1 DEF MirrorInv
<1>3. q # <<>> /\ outbox'[Chain] = Tail(q)
  BY <1>1, SyncAssumption DEF MessageDelivered, Executed, MirrorInv, SyncInv, TypeOK
<1>4. PICK m \in ChannelMessage : m = Head(q)
  BY <1>3
<1>5. Present' = Handled(Present, m)
  <2>1. SP!Receive(m)
    BY <1>1, <1>4, SameReceive DEF MessageDelivered
  <2> QED BY <2>1, ReceivedView DEF MirrorInv
<1>6. Leads(Present', outbox'[Chain], e)
  <2>1. Leads(Handled(Present, q[1]), Tail(q), e) /\ q[1] = Head(q)
    BY <1>2, <1>3, LeadsTail
  <2> QED BY <1>3, <1>4, <1>5, <2>1
<1>7. EndsRight(e)'
  <2>1. UNCHANGED <<roots, pendingUpdates, sealedBatchIndices, excused, subscribers, pendingInit,
                    subscribersWithCurrentBatch, currentBatch, sealedBatchSequence>>
    BY DEF MessageDelivered, Executed, provider, paging, batch, registry
  <2>2. \A k : Settled(k)' <=> Settled(k)
    BY <2>1, SettledSame
  <2>3. TypeOK /\ sealedBatchSequence' \in Nat /\ sealedBatchSequence <= sealedBatchSequence'
    <3>1. TypeOK /\ sealedBatchSequence \in Nat
      BY DEF MirrorInv, SyncInv, TypeOK
    <3> QED BY <2>1, <3>1
  <2> QED BY <1>2, <2>1, <2>2, <2>3, EndsKept
<1>8. PendingInv'
  BY DEF MirrorInv, PendingInv, Registered, MessageDelivered, Executed, registry
<1> QED BY <1>6, <1>7, <1>8 DEF MirrorInv

\* Replays of the subscriber's offchain worker only ask.
LEMMA MirrorSubscriber ==
  ASSUME ~LocalTermination, MirrorInv, SyncInv', BatchInv', SubscriberSteps
  PROVE  MirrorInv'
<1>1. UNCHANGED notifierVars /\ UNCHANGED excused
  BY DEF SubscriberSteps, ReplayIncluded
<1>2. UNCHANGED <<ringRoots, ringExponents, subscription, lastProcessedSequence>>
  BY DEF SubscriberSteps, ReplayIncluded, S!ReplayMissingRoots, S!SubmitReplay, S!DropReplay,
         S!ringData
<1>3. /\ UNCHANGED <<pendingInit, subscribers>> /\ outbox'[Chain] = outbox[Chain]
      /\ UNCHANGED <<roots, pendingUpdates, sealedBatchIndices, excused, sealedBatchSequence,
                     subscribersWithCurrentBatch, currentBatch>>
  BY <1>1 DEF notifierVars, provider, paging, batch, registry, xcm
<1> QED BY <1>2, <1>3, PresentSame, MirrorSame

\* Time does not touch what Mirrored is about.
LEMMA MirrorClock ==
  ASSUME MirrorInv, SyncInv', BatchInv', Clock \/ UNCHANGED syncVars
  PROVE  MirrorInv'
<1>1. UNCHANGED <<ringRoots, ringExponents, subscription, lastProcessedSequence>>
  BY DEF Clock, syncVars, subscriberSide, S!SubscriberTick
<1>2. /\ UNCHANGED <<pendingInit, subscribers>> /\ outbox'[Chain] = outbox[Chain]
      /\ UNCHANGED <<roots, pendingUpdates, sealedBatchIndices, excused, sealedBatchSequence,
                     subscribersWithCurrentBatch, currentBatch>>
  BY DEF Clock, Tick, syncVars, notifierVars, provider, paging, batch, registry, xcm
<1> QED BY <1>1, <1>2, PresentSame, MirrorSame

\* A new channel, or a resized one, carries the messages already sent.
LEMMA MirrorChannel ==
  ASSUME MirrorInv, SyncInv', BatchInv', NEW size, ChannelChanged(Chain, size),
         UNCHANGED <<subscriberSide, excused>>
  PROVE  MirrorInv'
<1>1. UNCHANGED <<ringRoots, ringExponents, subscription, lastProcessedSequence>>
  BY DEF subscriberSide
<1>2. /\ UNCHANGED <<pendingInit, subscribers>> /\ outbox'[Chain] = outbox[Chain]
      /\ UNCHANGED <<roots, pendingUpdates, sealedBatchIndices, excused, sealedBatchSequence,
                     subscribersWithCurrentBatch, currentBatch>>
  BY DEF ChannelChanged, provider, paging, batch, registry
<1> QED BY <1>1, <1>2, PresentSame, MirrorSame

\* A new subscription finds a subscriber with nothing stored, and promises
\* nothing before its first page.
LEMMA MirrorSubscribed ==
  ASSUME MirrorInv, SyncInv', BatchInv', SubscribeChain, UNCHANGED subscriberSide
  PROVE  MirrorInv'
<1>1. PICK e \in View : Leads(Present, outbox[Chain], e) /\ EndsRight(e)
  BY DEF MirrorInv
<1>2. PICK cs \in CollectionLists : Subscribe(Chain, cs)
  BY DEF SubscribeChain
<1>3. ~Registered /\ Chain \notin DOMAIN pendingInit
  BY <1>2 DEF Subscribe, Registered, MirrorInv, PendingInv
<1>4. /\ Chain \in DOMAIN subscribers' /\ Chain \in DOMAIN pendingInit'
      /\ subscribers'[Chain] = [collections |-> cs, last_init_sequence |-> sealedBatchSequence]
      /\ pendingInit'[Chain] = [collections |-> cs, current_collection_index |-> 1,
                                after_ring_index |-> -1, sequence |-> sealedBatchSequence]
      /\ UNCHANGED <<sealedBatchSequence, roots>> /\ outbox'[Chain] = outbox[Chain]
  BY <1>2 DEF Subscribe, Insert, batch, provider, xcm
<1>5. PICK state : /\ state = pendingInit'[Chain] /\ state.collections = cs
                   /\ state.current_collection_index = 1 /\ state.after_ring_index = -1
                   /\ state.sequence = sealedBatchSequence
  BY <1>4
<1>6. Registered' /\ PendingInv'
  BY <1>4, <1>5 DEF PendingInv, Registered
<1>7. Present' = Present
  BY PresentSame DEF subscriberSide
<1>8. ~e.active /\ e = Blank /\ e.last <= sealedBatchSequence
  BY <1>1, <1>3 DEF EndsRight
<1>9. \A j \in DOMAIN cs : j \in Nat /\ ~(j < 1)
  <2>1. cs \in Seq(Collections)
    BY NotifierAssumption
  <2> QED BY <2>1
<1>10. ASSUME NEW c PROVE ~Begun(c)' /\ \A r : ~Swept(c, r)'
  <2>1. ~BegunIn(state, c) /\ \A r : ~SweptIn(state, c, r)
    BY <1>5, <1>9 DEF BegunIn, SweptIn
  <2> QED BY <1>4, <1>5, <2>1 DEF Begun, Swept
<1>11. ASSUME NEW c \in Range(cs), NEW r \in RingIndices PROVE RingRight(e, c, r)'
  <2>1. c \in Collections
    BY NotifierAssumption DEF Range
  <2>2. e.newest[c][r] = Deleted
    BY <1>8, <2>1 DEF Blank, NothingStored
  <2> QED BY <1>10, <2>2 DEF RingRight
<1>12. subscribers'[Chain].collections = cs
  BY <1>4
<1>13. EndsRight(e)'
  BY <1>4, <1>6, <1>8, <1>10, <1>11, <1>12 DEF EndsRight
<1>14. Leads(Present', outbox'[Chain], e)
  BY <1>1, <1>4, <1>7
<1> QED BY <1>6, <1>13, <1>14 DEF MirrorInv

\* A chain that is gone from the notifier has its termination under way, so it
\* ends with nothing.
LEMMA MirrorUnsubscribed ==
  ASSUME ~TerminateMayFail, MirrorInv, SyncInv', BatchInv', UnsubscribeChain,
         UNCHANGED subscriberSide
  PROVE  MirrorInv'
<1>1. PICK e \in View : Leads(Present, outbox[Chain], e) /\ EndsRight(e)
  BY DEF MirrorInv
<1>2. Unregister(Chain) /\ Send(Chain, <<TerminateSubscription>>)
  BY DEF UnsubscribeChain, UnsubscribeByGovernance
<1>3. TerminateSubscription \in ChannelMessage
  BY DEF ChannelMessage
<1>4. PICK w \in View : w = Handled(e, TerminateSubscription)
  BY <1>3, HandledType
<1>5. Leads(Present', outbox'[Chain], w)
  <2>1. outbox'[Chain] = outbox[Chain] \o <<TerminateSubscription>>
    BY <1>2, SyncAssumption DEF Send, MirrorInv, SyncInv, TypeOK
  <2>2. outbox[Chain] \in Seq(ChannelMessage) /\ <<TerminateSubscription>> \in Seq(ChannelMessage)
    BY <1>3 DEF MirrorInv, SyncInv
  <2>3. Leads(e, <<TerminateSubscription>>, w)
    BY <1>3, <1>4, LeadsOne
  <2>4. Leads(Present, outbox[Chain] \o <<TerminateSubscription>>, w)
    BY <1>1, <2>2, <2>3, LeadsConcat
  <2>5. Present' = Present
    BY PresentSame DEF subscriberSide
  <2> QED BY <2>1, <2>4, <2>5
<1>6. w = Blank /\ ~w.active
  <2>1. ~e.active => e = Blank
    BY <1>1 DEF EndsRight
  <2> QED BY <1>3, <1>4, <2>1, HandledType
<1>7. ~Registered' /\ Chain \notin DOMAIN pendingInit'
  BY <1>2 DEF Unregister, Without, Registered
<1>8. EndsRight(w)'
  <2>1. w.last = 0
    BY <1>6 DEF Blank
  <2>2. sealedBatchSequence' \in Nat
    BY DEF SyncInv, TypeOK
  <2>3. w.last <= sealedBatchSequence'
    BY <2>1, <2>2
  <2> QED BY <1>6, <1>7, <2>3 DEF EndsRight
<1>9. PendingInv'
  BY <1>7 DEF PendingInv
<1> QED BY <1>5, <1>8, <1>9 DEF MirrorInv

\* A ring the initialisation is past is one of a collection it has begun.
LEMMA SweptBegun == ASSUME NEW c, NEW r, Swept(c, r) PROVE Begun(c)
BY DEF Swept, SweptIn, Begun, BegunIn

\* Updates sent: they lead to the current root of every key that is settled now
\* and was not before.
LEMMA MirrorUpdated ==
  ASSUME MirrorInv, SyncInv', BatchInv', Registered, Present' = Present,
         UNCHANGED <<pendingInit, subscribers, roots, sealedBatchSequence>>,
         NEW q \in Seq(ChannelMessage), outbox'[Chain] = outbox[Chain] \o q,
         \A i \in 1..Len(q) : IsUpdate(q[i], sealedBatchSequence, Current),
         \A c \in Range(subscribers[Chain].collections), r \in RingIndices :
           Settled(<<c, r>>)' =>
             Settled(<<c, r>>) \/ \E j \in 1..Len(q) : Carries(q[j], c, r)
  PROVE  MirrorInv'
<1>1. PICK e \in View : Leads(Present, outbox[Chain], e) /\ EndsRight(e)
  BY DEF MirrorInv
<1>2. PICK s \in Nat : s = sealedBatchSequence
  BY DEF MirrorInv, SyncInv, TypeOK
<1>3. PICK current \in Newests : current = Current
  BY CurrentType DEF MirrorInv, SyncInv
<1>4. e.last <= s /\ \A i \in 1..Len(q) : IsUpdate(q[i], s, current)
  BY <1>1, <1>2, <1>3 DEF EndsRight
<1>5. PICK w \in View :
        /\ Leads(e, q, w)
        /\ ~e.active => w = e
        /\ w.active = e.active /\ w.at = e.at /\ w.exponents = e.exponents /\ w.last <= s
        /\ e.active =>
             \A c \in Collections, r \in RingIndices :
               w.newest[c][r] = IF \E j \in 1..Len(q) : Carries(q[j], c, r)
                                THEN current[c][r] ELSE e.newest[c][r]
  BY ONLY e \in View, s \in Nat, current \in Newests, q \in Seq(ChannelMessage), <1>4, UpdatesLead
<1>6. Leads(Present', outbox'[Chain], w)
  <2>1. outbox[Chain] \in Seq(ChannelMessage)
    BY DEF MirrorInv, SyncInv
  <2>2. Leads(Present, outbox[Chain] \o q, w)
    BY <1>1, <1>5, <2>1, LeadsConcat
  <2> QED BY <2>2
<1>7. ASSUME NEW c \in Range(subscribers[Chain].collections)
      PROVE  /\ Begun(c)' => w.active /\ c \in w.exponents
             /\ \A r \in RingIndices : Settled(<<c, r>>)' => RingRight(w, c, r)'
  <2>1. c \in Collections
    BY SubscribedCollections DEF MirrorInv, SyncInv
  <2>2. Begun(c) => e.active /\ c \in e.exponents
    BY <1>1 DEF EndsRight
  <2>3. Begun(c)' => w.active /\ c \in w.exponents
    BY <1>5, <2>2 DEF Begun
  <2>4. ASSUME NEW r \in RingIndices, Settled(<<c, r>>)' PROVE RingRight(w, c, r)
    <3>1. CASE e.active /\ \E j \in 1..Len(q) : Carries(q[j], c, r)
      <4>1. w.newest[c][r] = IF HasRoot(c, r) THEN roots[c][r] ELSE Deleted
        BY <1>3, <1>5, <2>1, <3>1 DEF Current
      <4> QED BY <4>1 DEF RingRight
    <3>2. CASE e.active /\ ~\E j \in 1..Len(q) : Carries(q[j], c, r)
      <4>1. w.newest[c][r] = e.newest[c][r]
        BY <1>5, <2>1, <3>2
      <4>2. Settled(<<c, r>>)
        BY <2>4, <3>2
      <4>3. RingRight(e, c, r)
        BY <1>1, <4>2 DEF EndsRight
      <4> QED BY <4>1, <4>3 DEF RingRight
    <3>3. CASE ~e.active
      <4>1. w = Blank
        BY <1>1, <1>5, <3>3 DEF EndsRight
      <4>2. w.newest[c][r] = Deleted
        BY <2>1, <4>1 DEF Blank, NothingStored
      <4>3. ~Swept(c, r)
        BY <2>2, <3>3, SweptBegun
      <4> QED BY <4>2, <4>3 DEF RingRight
    <3> QED BY <3>1, <3>2, <3>3
  <2>5. \A r \in RingIndices : RingRight(w, c, r) => RingRight(w, c, r)'
    BY DEF RingRight, HasRoot, Swept
  <2> QED BY <2>3, <2>4, <2>5
<1>8. EndsRight(w)'
  <2>1. w.last <= sealedBatchSequence'
    BY <1>2, <1>5
  <2>2. ~w.active => w = Blank
    BY <1>1, <1>5 DEF EndsRight
  <2>3. w.active => w.at = subscribers'[Chain].last_init_sequence
    BY <1>1, <1>5 DEF EndsRight
  <2>4. Registered'
    BY DEF Registered
  <2> QED BY <1>7, <2>1, <2>2, <2>3, <2>4 DEF EndsRight
<1>9. PendingInv'
  BY DEF MirrorInv, PendingInv, Registered
<1> QED BY <1>6, <1>8, <1>9 DEF MirrorInv

\* A whole batch: its keys are settled and carried.
LEMMA MirrorBatch ==
  ASSUME MirrorInv, SyncInv', BatchInv', SendBatchAll(Chain),
         UNCHANGED <<subscriberSide, excused>>
  PROVE  MirrorInv'
<1>1. /\ Registered /\ currentBatch # NoBatch /\ MarkProcessed(Chain)
      /\ Send(Chain, BatchMessages(Chain)) /\ channel[Chain] > 0
  BY DEF SendBatchAll, authorize_send_batch, Registered
<1>2. TypeOK /\ ProviderInv /\ currentBatch.sequence = sealedBatchSequence
  BY <1>1 DEF MirrorInv, SyncInv, BatchInv
<1>3. /\ UNCHANGED <<pendingInit, subscribers, roots, sealedBatchSequence, pendingUpdates>>
      /\ DropRemaining(subscribersWithCurrentBatch \cup {Chain})
  BY <1>1 DEF MarkProcessed, provider, paging, registry
<1>4. Chain \in DOMAIN subscribers /\ channel[Chain] \in Nat \ {0}
  <2>1. channel[Chain] \in Nat
    BY <1>2, SyncAssumption, NotifierAssumption DEF TypeOK
  <2> QED BY <1>1, <2>1 DEF Registered
<1>5. PICK q \in Seq(SealedMessages) : q = BatchMessages(Chain)
  BY <1>2, <1>4, BatchMessagesType
<1>6. Len(q) \in Nat /\ \A i \in 1..Len(q) : q[i] \in SealedMessages
  OBVIOUS
<1>7. \A i \in 1..Len(q) : /\ q[i] \in ChannelMessage
                           /\ IsUpdate(q[i], sealedBatchSequence, Current)
  BY <1>2, <1>6, SealedUpdates
<1>8. q \in Seq(ChannelMessage)
  BY <1>6, <1>7
<1>9. outbox'[Chain] = outbox[Chain] \o q
  BY <1>1, <1>2, <1>5, SyncAssumption DEF Send, TypeOK
<1>10. ASSUME NEW c \in Range(subscribers[Chain].collections), NEW r \in RingIndices,
              Settled(<<c, r>>)'
       PROVE  Settled(<<c, r>>) \/ \E j \in 1..Len(q) : Carries(q[j], c, r)
  <2>1. <<c, r>> \in sealedBatchIndices => \E j \in 1..Len(q) : Carries(q[j], c, r)
    BY <1>2, <1>4, <1>5, BatchCarries
  <2>2. <<c, r>> \notin sealedBatchIndices => Settled(<<c, r>>)
    BY <1>3, <1>10 DEF Settled
  <2> QED BY <2>1, <2>2
<1>11. Present' = Present
  BY PresentSame DEF subscriberSide
<1> QED BY <1>1, <1>3, <1>7, <1>8, <1>9, <1>10, <1>11, MirrorUpdated

\* A part of a batch: its keys wait for the whole one.
LEMMA MirrorPart ==
  ASSUME MirrorInv, SyncInv', BatchInv', SendBatchFailed(Chain),
         UNCHANGED <<subscriberSide, excused>>
  PROVE  MirrorInv'
<1>1. /\ Registered /\ currentBatch # NoBatch /\ channel[Chain] > 0
      /\ UNCHANGED <<provider, paging, batch, registry>>
  BY DEF SendBatchFailed, authorize_send_batch, Registered
<1>2. TypeOK /\ ProviderInv /\ currentBatch.sequence = sealedBatchSequence
  BY <1>1 DEF MirrorInv, SyncInv, BatchInv
<1>3. UNCHANGED <<pendingInit, subscribers, roots, sealedBatchSequence, pendingUpdates,
                  sealedBatchIndices, excused, subscribersWithCurrentBatch, currentBatch>>
  BY <1>1 DEF provider, paging, batch, registry
<1>4. Chain \in DOMAIN subscribers /\ channel[Chain] \in Nat \ {0}
  <2>1. channel[Chain] \in Nat
    BY <1>2, SyncAssumption, NotifierAssumption DEF TypeOK
  <2> QED BY <1>1, <2>1 DEF Registered
<1>5. BatchMessages(Chain) \in Seq(SealedMessages)
  BY <1>2, <1>4, BatchMessagesType
<1>6. PICK accepted \in SUBSET DOMAIN BatchMessages(Chain) :
        Send(Chain, [k \in 1..Cardinality(accepted) |->
               BatchMessages(Chain)[CHOOSE i \in accepted :
                 Cardinality({j \in accepted : j <= i}) = k]])
  BY DEF SendBatchFailed
<1>7. PICK q \in Seq(SealedMessages) :
        q = [k \in 1..Cardinality(accepted) |->
               BatchMessages(Chain)[CHOOSE i \in accepted :
                 Cardinality({j \in accepted : j <= i}) = k]]
  BY <1>5, AcceptedType
<1>8. Len(q) \in Nat /\ \A i \in 1..Len(q) : q[i] \in SealedMessages
  OBVIOUS
<1>9. \A i \in 1..Len(q) : /\ q[i] \in ChannelMessage
                           /\ IsUpdate(q[i], sealedBatchSequence, Current)
  BY <1>2, <1>8, SealedUpdates
<1>10. q \in Seq(ChannelMessage)
  BY <1>8, <1>9
<1>11. outbox'[Chain] = outbox[Chain] \o q
  BY <1>2, <1>6, <1>7, SyncAssumption DEF Send, TypeOK
<1>12. \A k : Settled(k)' => Settled(k)
  BY <1>3, SettledSame
<1>13. Present' = Present
  BY PresentSame DEF subscriberSide
<1> QED BY <1>1, <1>3, <1>9, <1>10, <1>11, <1>12, <1>13, MirrorUpdated

\* A replay, whoever asked for it, sends what the roots are now.
LEMMA MirrorReplayed ==
  ASSUME MirrorInv, SyncInv', BatchInv', NEW d, NEW indices \in SUBSET RingIndices,
         RequestReplay(Chain, d, indices),
         UNCHANGED <<ringRoots, ringExponents, subscription, lastProcessedSequence, excused>>
  PROVE  MirrorInv'
<1>1. /\ Registered /\ d \in Range(subscribers[Chain].collections)
      /\ \A r \in indices : r < next_ring_index(d)
  BY DEF RequestReplay, ReplayAllowed, Registered
<1>2. TypeOK /\ ProviderInv /\ sealedBatchSequence \in Nat
  BY DEF MirrorInv, SyncInv, TypeOK
<1>3. UNCHANGED <<pendingInit, subscribers, roots, sealedBatchSequence, pendingUpdates,
                  sealedBatchIndices, excused, subscribersWithCurrentBatch, currentBatch>>
  BY DEF RequestReplay, provider, paging, batch
<1>4. d \in Collections
  BY <1>1, <1>2, SubscribedCollections
<1>5. PICK m : m = Message("update", d, sealedBatchSequence,
                           resolve_updates_for_indices(d, indices))
  OBVIOUS
<1>6. m \in ChannelMessage /\ IsUpdate(m, sealedBatchSequence, Current)
  <2>1. "update" \in {"init", "update"}
    OBVIOUS
  <2> QED BY <1>1, <1>2, <1>4, <1>5, <2>1, MessageCarries
<1>7. PICK q \in Seq(ChannelMessage) : q = <<m>> /\ Len(q) = 1 /\ q[1] = m
  <2>1. <<m>> \in Seq(ChannelMessage) /\ Len(<<m>>) = 1 /\ <<m>>[1] = m
    BY <1>6
  <2> QED BY <2>1
<1>8. outbox'[Chain] = outbox[Chain] \o q
  BY <1>2, <1>5, <1>7, SyncAssumption DEF RequestReplay, Send, TypeOK
<1>9. \A i \in 1..Len(q) : IsUpdate(q[i], sealedBatchSequence, Current)
  <2>1. \A i \in 1..1 : i = 1
    OBVIOUS
  <2> QED BY <1>6, <1>7, <2>1
<1>10. \A k : Settled(k)' => Settled(k)
  BY <1>3, SettledSame
<1> QED BY <1>1, <1>3, <1>8, <1>9, <1>10, PresentSame, MirrorUpdated

\* A page of rings of collection c, whatever was sent before: the rings that are
\* past after it are those of the page and those that were past already.
LEMMA PagePasses ==
  ASSUME NEW c, NEW after \in RingIndices \cup {-1}, NEW limit \in Nat \ {0},
         NEW page, page = get_ring_roots_paginated(c, after, limit),
         NEW r \in RingIndices, HasRoot(c, r),
         \/ Cardinality(page) # limit
         \/ \E last \in page : StorageRank[r] <= StorageRank[last]
  PROVE  r \in page \/ (after # -1 /\ StorageRank[r] <= StorageRank[after])
<1>1. SUFFICES ASSUME ~(after # -1 /\ StorageRank[r] <= StorageRank[after]) PROVE r \in page
  OBVIOUS
<1>2. PICK later \in SUBSET RingIndices :
        later = {q \in RingIndices : /\ HasRoot(c, q)
                                     /\ \/ after = -1
                                        \/ StorageRank[q] > StorageRank[after]}
  OBVIOUS
<1>3. r \in later
  <2>1. CASE after = -1
    BY <1>2, <2>1
  <2>2. CASE after # -1
    <3>1. PICK a \in Int, b \in Int : a = StorageRank[r] /\ b = StorageRank[after]
      BY <2>2, NotifierAssumption DEF RingIndices
    <3>2. a > b
      BY <1>1, <2>2, <3>1
    <3> QED BY <1>2, <3>1, <3>2
  <2> QED BY <2>1, <2>2
<1>4. page = PageOf(later, limit) /\ limit \in Nat
  BY <1>2 DEF get_ring_roots_paginated, PageOf
<1>5. CASE Cardinality(page) # limit
  <2>1. page = later
    BY <1>4, <1>5, PageAll
  <2> QED BY <1>3, <2>1
<1>6. CASE \E last \in page : StorageRank[r] <= StorageRank[last]
  BY <1>3, <1>4, <1>6, PageUpTo
<1> QED BY <1>5, <1>6

\* The initialisation after a page: no collection but that of the page has begun,
\* and no ring of it is left out.
LEMMA InitAdvances ==
  ASSUME TypeOK, Chain \in DOMAIN pendingInit, NEW state, state = pendingInit[Chain],
         NEW cs \in Seq(Collections), cs = state.collections,
         NEW i \in 1..Len(cs), i = state.current_collection_index, NEW limit \in Nat \ {0},
         NEW page, page = get_ring_roots_paginated(cs[i], state.after_ring_index, limit),
         advance_init_pagination(Chain, page, limit)
  PROVE  /\ Chain \in DOMAIN pendingInit' =>
              /\ pendingInit'[Chain].collections = cs
              /\ pendingInit'[Chain].sequence = state.sequence
         /\ \A c \in Range(cs) : Begun(c)' => Begun(c) \/ c = cs[i]
         /\ \A c \in Range(cs), r \in RingIndices :
              HasRoot(c, r) /\ Swept(c, r)' => Swept(c, r) \/ (c = cs[i] /\ r \in page)
<1>1. /\ state \in PendingInitState /\ state.after_ring_index \in RingIndices \cup {-1}
      /\ IsPartialFunction(pendingInit, Paras, PendingInitState)
  BY DEF TypeOK, IsPartialFunction, PendingInitState
<1>2. PICK after \in RingIndices \cup {-1} : after = state.after_ring_index
  BY <1>1
<1>3. PICK n \in Nat : n = Len(cs) /\ DOMAIN cs = 1..n /\ i \in 1..n
  <2>1. Len(cs) \in Nat /\ DOMAIN cs = 1..Len(cs)
    OBVIOUS
  <2> QED BY <2>1
<1>4. page = get_ring_roots_paginated(cs[i], after, limit) /\ page \in SUBSET RingIndices
  BY <1>2 DEF get_ring_roots_paginated
<1>5. ASSUME NEW c, NEW j \in 1..n, cs[j] = c, j < i \/ j = i
      PROVE  /\ Begun(c) \/ c = cs[i]
             /\ \A r \in RingIndices :
                  HasRoot(c, r) /\ (j = i => \/ Cardinality(page) # limit
                                             \/ \E last \in page : StorageRank[r] <= StorageRank[last])
                    => Swept(c, r) \/ (c = cs[i] /\ r \in page)
  <2>1. CASE j < i
    <3>1. BegunIn(state, c) /\ \A r : SweptIn(state, c, r)
      BY <1>3, <1>5, <2>1 DEF BegunIn, SweptIn
    <3>2. j # i
      BY <1>3, <2>1
    <3> QED BY <3>1, <3>2 DEF Begun, Swept
  <2>2. CASE j = i
    <3>1. ASSUME NEW r \in RingIndices, HasRoot(c, r),
                 \/ Cardinality(page) # limit
                 \/ \E last \in page : StorageRank[r] <= StorageRank[last]
          PROVE  Swept(c, r) \/ (c = cs[i] /\ r \in page)
      <4>1. HasRoot(cs[i], r)
        BY <1>5, <2>2, <3>1
      <4>2. r \in page \/ (after # -1 /\ StorageRank[r] <= StorageRank[after])
        BY <1>4, <3>1, <4>1, PagePasses
      <4>3. after # -1 /\ StorageRank[r] <= StorageRank[after] => SweptIn(state, c, r)
        BY <1>2, <1>3, <1>5, <2>2 DEF SweptIn
      <4> QED BY <1>5, <2>2, <4>2, <4>3 DEF Swept
    <3> QED BY <1>5, <2>2, <3>1
  <2> QED BY <1>5, <2>1, <2>2
<1>6. CASE Cardinality(page) = limit
  <2>1. PICK last : last = CHOOSE r \in page : \A q \in page : StorageRank[q] <= StorageRank[r]
    OBVIOUS
  <2>2. last \in page /\ last # -1
    <3>1. last \in page
      BY <1>4, <1>6, <2>1, PageLast
    <3> QED BY <1>4, <3>1 DEF RingIndices
  <2>3. pendingInit' = [pendingInit EXCEPT ![Chain].after_ring_index = last]
    BY <1>6, <2>1 DEF advance_init_pagination
  <2>4. PICK next : /\ next = pendingInit'[Chain] /\ Chain \in DOMAIN pendingInit'
                    /\ next.collections = cs /\ next.current_collection_index = i
                    /\ next.after_ring_index = last /\ next.sequence = state.sequence
    <3>1. Chain \in DOMAIN pendingInit'
          /\ pendingInit'[Chain] = [pendingInit[Chain] EXCEPT !.after_ring_index = last]
      BY <1>1, <2>3 DEF IsPartialFunction
    <3>2. PICK next : next = pendingInit'[Chain]
      OBVIOUS
    <3>3. next = [state EXCEPT !.after_ring_index = last]
      BY <3>1, <3>2
    <3>4. /\ next.collections = cs /\ next.current_collection_index = i
          /\ next.after_ring_index = last /\ next.sequence = state.sequence
      BY <1>1, <3>3 DEF PendingInitState
    <3> QED BY <3>1, <3>2, <3>4
  <2>5. ASSUME NEW c, Begun(c)' PROVE Begun(c) \/ c = cs[i]
    <3>1. PICK j \in 1..n : cs[j] = c /\ (j < i \/ j = i)
      BY <1>3, <2>4, <2>5 DEF Begun, BegunIn
    <3> QED BY <1>5, <3>1
  <2>6. ASSUME NEW c, NEW r \in RingIndices, HasRoot(c, r), Swept(c, r)'
        PROVE  Swept(c, r) \/ (c = cs[i] /\ r \in page)
    <3>1. PICK j \in 1..n : /\ cs[j] = c
                            /\ j < i \/ (j = i /\ StorageRank[r] <= StorageRank[last])
      BY <1>3, <2>4, <2>6 DEF Swept, SweptIn
    <3>2. j = i => \E x \in page : StorageRank[r] <= StorageRank[x]
      <4>1. j = i => ~(j < i)
        BY <1>3
      <4> QED BY <2>2, <3>1, <4>1
    <3> QED BY <1>5, <2>6, <3>1, <3>2
  <2> QED BY <2>4, <2>5, <2>6
<1>7. CASE Cardinality(page) # limit /\ i < n
  <2>1. pendingInit' = [pendingInit EXCEPT ![Chain] =
               [collections |-> cs, current_collection_index |-> i + 1,
                after_ring_index |-> -1, sequence |-> state.sequence]]
    BY <1>3, <1>7 DEF advance_init_pagination
  <2>2. PICK next : /\ next = pendingInit'[Chain] /\ Chain \in DOMAIN pendingInit'
                    /\ next.collections = cs /\ next.current_collection_index = i + 1
                    /\ next.after_ring_index = -1 /\ next.sequence = state.sequence
    BY <1>1, <2>1 DEF IsPartialFunction
  <2>3. \A j \in 1..n : j < i + 1 => j < i \/ j = i
    BY <1>3
  <2>4. ASSUME NEW c, Begun(c)' PROVE Begun(c) \/ c = cs[i]
    <3>1. PICK j \in 1..n : cs[j] = c /\ j < i + 1
      BY <1>3, <2>2, <2>4 DEF Begun, BegunIn
    <3> QED BY <1>5, <2>3, <3>1
  <2>5. ASSUME NEW c, NEW r \in RingIndices, HasRoot(c, r), Swept(c, r)'
        PROVE  Swept(c, r) \/ (c = cs[i] /\ r \in page)
    <3>1. PICK j \in 1..n : cs[j] = c /\ j < i + 1
      BY <1>3, <2>2, <2>5 DEF Swept, SweptIn
    <3> QED BY <1>5, <1>7, <2>3, <2>5, <3>1
  <2> QED BY <2>2, <2>4, <2>5
<1>8. CASE Cardinality(page) # limit /\ ~(i < n)
  <2>1. pendingInit' = Without(pendingInit, Chain)
    BY <1>3, <1>8 DEF advance_init_pagination
  <2>2. Chain \notin DOMAIN pendingInit'
    BY <2>1 DEF Without
  <2>3. \A j \in 1..n : j < i \/ j = i
    BY <1>3, <1>8
  <2>4. \A c \in Range(cs) : \E j \in 1..n : cs[j] = c
    BY <1>3 DEF Range
  <2>5. ASSUME NEW c \in Range(cs)
        PROVE  /\ Begun(c) \/ c = cs[i]
               /\ \A r \in RingIndices :
                    HasRoot(c, r) => Swept(c, r) \/ (c = cs[i] /\ r \in page)
    <3>1. PICK j \in 1..n : cs[j] = c
      BY <2>4
    <3>2. j < i \/ j = i
      BY <2>3
    <3> QED BY <1>5, <1>8, <3>1, <3>2
  <2> QED BY <2>2, <2>5
<1> QED BY <1>6, <1>7, <1>8

\* The subscriber takes every page of the subscription it is initialised for.
LEMMA PageTaken ==
  ASSUME NEW e \in View, NEW m \in RootMessage, m.call = "init",
         e.active => e.at = m.sequence
  PROVE  Handled(e, m) = Initialised(e, m)
<1>1. PICK s \in Nat : s = m.sequence
  BY DEF RootMessage
<1>2. ~(e.active /\ s < e.at) /\ ~(e.active /\ s > e.at)
  BY <1>1
<1> QED BY <1>1, <1>2 DEF Handled

\* An init page: its rings are the current ones, and those it passes by have no
\* root or were sent before.
LEMMA MirrorPage ==
  ASSUME MirrorInv, SyncInv', BatchInv', SendInitPage(Chain),
         UNCHANGED <<subscriberSide, excused>>
  PROVE  MirrorInv'
<1>1. PICK e \in View : Leads(Present, outbox[Chain], e) /\ EndsRight(e)
  BY DEF MirrorInv
<1>2. TypeOK /\ ProviderInv /\ BatchInv /\ outbox[Chain] \in Seq(ChannelMessage)
  BY DEF MirrorInv, SyncInv
<1>3. /\ Chain \in DOMAIN pendingInit /\ Registered
      /\ UNCHANGED <<subscribers, roots, sealedBatchSequence, pendingUpdates, sealedBatchIndices,
                     excused, subscribersWithCurrentBatch, currentBatch>>
  BY DEF SendInitPage, MirrorInv, PendingInv, provider, paging, batch
<1>4. PICK state \in PendingInitState : state = pendingInit[Chain]
  BY <1>2, <1>3 DEF TypeOK, IsPartialFunction
<1>5. PICK cs \in Seq(Collections) :
        cs = state.collections /\ cs = subscribers[Chain].collections
  <2>1. state.collections \in Seq(Collections)
    BY NotifierAssumption DEF PendingInitState
  <2> QED BY <1>3, <1>4, <2>1 DEF MirrorInv, PendingInv
<1>6. PICK s \in Nat : /\ s = state.sequence /\ s = subscribers[Chain].last_init_sequence
                       /\ s <= sealedBatchSequence
  <2>1. state.sequence \in Nat /\ state.sequence = subscribers[Chain].last_init_sequence
    BY <1>3, <1>4 DEF MirrorInv, PendingInv, PendingInitState
  <2> QED BY <1>2, <1>3, <2>1 DEF BatchInv, Registered
<1>7. PICK i \in Nat \ {0} : i = state.current_collection_index
  BY DEF PendingInitState
<1>8. PICK n \in Nat : n = Len(cs) /\ DOMAIN cs = 1..n
  <2>1. Len(cs) \in Nat /\ DOMAIN cs = 1..Len(cs)
    OBVIOUS
  <2> QED BY <2>1
<1>9. /\ Present' = Present /\ Registered' /\ \A k : Settled(k)' <=> Settled(k)
  <2>1. Present' = Present
    BY PresentSame DEF subscriberSide
  <2>2. Registered'
    BY <1>3 DEF Registered
  <2> QED BY <1>3, <2>1, <2>2, SettledSame
<1>10. CASE i > n
  <2>1. pendingInit' = Without(pendingInit, Chain) /\ outbox' = outbox
    BY <1>4, <1>5, <1>7, <1>8, <1>10 DEF SendInitPage
  <2>2. Chain \notin DOMAIN pendingInit'
    BY <2>1 DEF Without
  <2>3. ASSUME NEW c \in Range(cs) PROVE Begun(c) /\ \A r : Swept(c, r)
    <3>1. PICK j \in 1..n : cs[j] = c
      BY <1>8 DEF Range
    <3>2. j < i
      BY <1>10
    <3>3. BegunIn(state, c) /\ \A r : SweptIn(state, c, r)
      BY <1>5, <1>7, <1>8, <3>1, <3>2 DEF BegunIn, SweptIn
    <3> QED BY <1>4, <3>3 DEF Begun, Swept
  <2>4. ASSUME NEW c \in Range(cs)
        PROVE  /\ e.active /\ c \in e.exponents
               /\ \A r \in RingIndices : Settled(<<c, r>>)' => RingRight(e, c, r)'
    <3>1. e.active /\ c \in e.exponents
      BY <1>1, <1>3, <1>5, <2>3, <2>4 DEF EndsRight
    <3>2. ASSUME NEW r \in RingIndices, Settled(<<c, r>>)' PROVE RingRight(e, c, r)'
      <4>1. RingRight(e, c, r)
        BY <1>1, <1>3, <1>5, <1>9, <2>4, <3>2 DEF EndsRight
      <4> QED BY <1>3, <2>3, <4>1 DEF RingRight, HasRoot
    <3> QED BY <3>1, <3>2
  <2>5. EndsRight(e)'
    <3>1. /\ ~e.active => e = Blank
          /\ e.last <= sealedBatchSequence'
          /\ e.active => e.at = subscribers'[Chain].last_init_sequence
      BY <1>1, <1>3 DEF EndsRight
    <3> QED BY <1>3, <1>5, <1>9, <2>4, <3>1 DEF EndsRight
  <2>6. PendingInv'
    BY <2>2 DEF PendingInv
  <2>7. Leads(Present', outbox'[Chain], e)
    BY <1>1, <1>9, <2>1
  <2> QED BY <2>5, <2>6, <2>7 DEF MirrorInv
<1>11. CASE ~(i > n)
  <2>1. i \in 1..Len(cs) /\ i \in DOMAIN cs
    BY <1>8, <1>11
  <2>2. PICK c0 \in Collections : c0 = cs[i]
    BY <2>1
  <2>3. PICK limit \in Nat \ {0} : limit = channel[Chain]
    <3>1. channel[Chain] \in Nat /\ channel[Chain] > 0
      BY <1>2, SyncAssumption, NotifierAssumption DEF TypeOK, SendInitPage
    <3>2. channel[Chain] \in Nat \ {0}
      BY <3>1
    <3> QED BY <3>2
  <2>4. PICK page : page = get_ring_roots_paginated(cs[i], state.after_ring_index, limit)
    OBVIOUS
  <2>5. PICK m : m = Message("init", c0, s, resolve_updates_for_indices(c0, page))
    OBVIOUS
  <2>6. Send(Chain, <<m>>) /\ advance_init_pagination(Chain, page, limit)
    BY <1>4, <1>5, <1>6, <1>7, <1>8, <1>11, <2>2, <2>3, <2>4, <2>5 DEF SendInitPage
  <2>7. page \in SUBSET RingIndices /\ \A r \in page : HasRoot(c0, r)
    BY <2>2, <2>4 DEF get_ring_roots_paginated
  <2>8. /\ m \in ChannelMessage /\ m \in RootMessage
        /\ m.call = "init" /\ m.identifier = c0 /\ m.sequence = s
        /\ \A d, r : Carries(m, d, r) <=> d = c0 /\ r \in page
        /\ \A r \in page : m.updates[r] = Current[c0][r]
    <3>1. \A r \in page : roots[c0][r] # Unbuilt
      BY <2>7 DEF HasRoot, Unbuilt
    <3>2. \A r \in page : r < next_ring_index(c0)
      BY <1>2, <2>7, <3>1, KnownBelowNext
    <3>3. "init" \in {"init", "update"}
      OBVIOUS
    <3> QED BY <1>2, <2>5, <2>7, <3>2, <3>3, MessageCarries
  <2>9. PICK w \in View : w = Handled(e, m)
    BY <2>8, HandledType
  <2>10. /\ w.active /\ w.at = s /\ w.last = s /\ w.exponents = e.exponents \cup {c0}
         /\ w.newest = StoredBy(e.newest, m)
    <3>1. e.active => e.at = m.sequence
      BY <1>1, <1>3, <1>6, <2>8 DEF EndsRight
    <3>2. w = Initialised(e, m)
      BY <2>8, <2>9, <3>1, PageTaken
    <3> QED BY <2>8, <3>2 DEF Initialised
  <2>11. Leads(Present', outbox'[Chain], w)
    <3>1. outbox'[Chain] = outbox[Chain] \o <<m>>
      BY <1>2, <2>6, SyncAssumption DEF Send, TypeOK
    <3>2. <<m>> \in Seq(ChannelMessage) /\ Leads(e, <<m>>, w)
      BY <2>8, <2>9, LeadsOne
    <3>3. Leads(Present, outbox[Chain] \o <<m>>, w)
      BY <1>1, <1>2, <3>2, LeadsConcat
    <3> QED BY <1>9, <3>1, <3>3
  <2>12. /\ Chain \in DOMAIN pendingInit' =>
              /\ pendingInit'[Chain].collections = cs
              /\ pendingInit'[Chain].sequence = s
         /\ \A c \in Range(cs) : Begun(c)' => Begun(c) \/ c = c0
         /\ \A c \in Range(cs), r \in RingIndices :
              HasRoot(c, r) /\ Swept(c, r)' => Swept(c, r) \/ (c = c0 /\ r \in page)
    <3>1. /\ TypeOK /\ Chain \in DOMAIN pendingInit
          /\ state = pendingInit[Chain] /\ cs = state.collections
          /\ i \in 1..Len(cs) /\ i = state.current_collection_index
          /\ advance_init_pagination(Chain, page, limit)
      BY <1>2, <1>3, <1>4, <1>5, <1>7, <2>1, <2>6
    <3>2. /\ Chain \in DOMAIN pendingInit' =>
               /\ pendingInit'[Chain].collections = cs
               /\ pendingInit'[Chain].sequence = state.sequence
          /\ \A c \in Range(cs) : Begun(c)' => Begun(c) \/ c = cs[i]
          /\ \A c \in Range(cs), r \in RingIndices :
               HasRoot(c, r) /\ Swept(c, r)' => Swept(c, r) \/ (c = cs[i] /\ r \in page)
      BY ONLY cs \in Seq(Collections), limit \in Nat \ {0}, <2>4, <3>1, InitAdvances
    <3> QED BY <1>6, <2>2, <3>2
  <2>13. PendingInv'
    BY <1>3, <1>5, <1>6, <1>9, <2>12 DEF PendingInv
  <2>14. ASSUME NEW c \in Range(cs)
         PROVE  /\ Begun(c)' => c \in w.exponents
                /\ \A r \in RingIndices : Settled(<<c, r>>)' => RingRight(w, c, r)'
    <3>1. c \in Collections
      BY <2>14 DEF Range
    <3>2. Begun(c) => c \in e.exponents
      BY <1>1, <1>3, <1>5, <2>14 DEF EndsRight
    <3>3. Begun(c)' => c \in w.exponents
      BY <2>10, <2>12, <2>14, <3>2
    <3>4. ASSUME NEW r \in RingIndices, Settled(<<c, r>>)' PROVE RingRight(w, c, r)'
      <4>1. RingRight(e, c, r)
        BY <1>1, <1>3, <1>5, <1>9, <2>14, <3>4 DEF EndsRight
      <4>2. w.newest[c][r] = IF Carries(m, c, r) THEN m.updates[r] ELSE e.newest[c][r]
        BY <2>10, <3>1 DEF StoredBy
      <4>3. HasRoot(c, r)' <=> HasRoot(c, r)
        BY <1>3 DEF HasRoot
      <4>4. CASE ~HasRoot(c, r)
        <5>1. ~Carries(m, c, r)
          BY <2>7, <2>8, <4>4
        <5> QED BY <4>1, <4>2, <4>3, <4>4, <5>1 DEF RingRight
      <4>5. CASE HasRoot(c, r) /\ Carries(m, c, r)
        <5>1. m.updates[r] = roots[c][r]
          BY <2>8, <3>1, <4>5 DEF Current
        <5> QED BY <1>3, <4>2, <4>3, <4>5, <5>1 DEF RingRight
      <4>6. CASE HasRoot(c, r) /\ ~Carries(m, c, r)
        <5>1. Swept(c, r)' => Swept(c, r)
          BY <2>8, <2>12, <2>14, <4>6
        <5> QED BY <1>3, <4>1, <4>2, <4>3, <4>6, <5>1 DEF RingRight
      <4> QED BY <4>4, <4>5, <4>6
    <3> QED BY <3>3, <3>4
  <2>15. EndsRight(w)'
    <3>1. subscribers'[Chain].last_init_sequence = s /\ subscribers'[Chain].collections = cs
      BY <1>3, <1>5, <1>6
    <3>2. w.last <= sealedBatchSequence'
      BY <1>3, <1>6, <2>10
    <3> QED BY <1>9, <2>10, <2>14, <3>1, <3>2 DEF EndsRight
  <2> QED BY <2>11, <2>13, <2>15 DEF MirrorInv
<1> QED BY <1>10, <1>11

\* Every step of the two pallets keeps the mirror right.
LEMMA MirrorStep ==
  ASSUME ~LocalTermination, ~TerminateMayFail, SP!ClearsAll, MirrorInv, [SyncNext]_syncVars
  PROVE  MirrorInv'
<1>1. TypeOK /\ BatchInv /\ toNotifier \in Seq(Request) /\ CallsIn(toNotifier, RequestCalls)
  BY RequestTyped DEF MirrorInv, SyncInv
<1>2. SyncInv' /\ BatchInv'
  BY <1>1, SyncStep, SyncBatchStep DEF MirrorInv
<1>3. CASE NotifierSteps /\ UNCHANGED subscriberSide
  <2>1. CASE SubscribeChain
    BY <1>2, <1>3, <2>1, MirrorSubscribed
  <2>2. CASE UnsubscribeChain
    BY <1>2, <1>3, <2>2, MirrorUnsubscribed
  <2>3. CASE Seal
    BY <1>2, <1>3, <2>3, MirrorSeal
  <2>4. CASE Abandon \/ SkipChain
    BY <1>2, <1>3, <2>4, MirrorLost
  <2>5. CASE /\ UNCHANGED excused
             /\ \/ SendBatchAll(Chain) \/ SendBatchFailed(Chain)
                \/ SendInitPage(Chain)
                \/ \E c \in Collections : ProviderActions(c)
                \/ \E c \in Collections, indices \in ReplaySets :
                     RequestReplay(Chain, c, indices)
                \/ \E size \in ChannelSizes : ChannelChanged(Chain, size)
    <3>1. UNCHANGED <<subscriberSide, excused>>
      BY <1>3, <2>5
    <3>2. CASE SendBatchAll(Chain)
      BY <1>2, <3>1, <3>2, MirrorBatch
    <3>3. CASE SendBatchFailed(Chain)
      BY <1>2, <3>1, <3>3, MirrorPart
    <3>4. CASE SendInitPage(Chain)
      BY <1>2, <3>1, <3>4, MirrorPage
    <3>5. CASE \E c \in Collections : ProviderActions(c)
      BY <1>2, <3>1, <3>5, MirrorChange
    <3>6. CASE \E c \in Collections, indices \in ReplaySets : RequestReplay(Chain, c, indices)
      <4>1. PICK c \in Collections : \E indices \in ReplaySets : RequestReplay(Chain, c, indices)
        BY <3>6
      <4>2. PICK indices \in ReplaySets : RequestReplay(Chain, c, indices)
        BY <4>1
      <4>3. indices \in SUBSET RingIndices
        BY NotifierAssumption
      <4>4. UNCHANGED <<ringRoots, ringExponents, subscription, lastProcessedSequence, excused>>
        BY <3>1 DEF subscriberSide
      <4> QED BY <1>2, <4>2, <4>3, <4>4, MirrorReplayed
    <3>7. CASE \E size \in ChannelSizes : ChannelChanged(Chain, size)
      BY <1>2, <3>1, <3>7, MirrorChannel
    <3> QED BY <2>5, <3>2, <3>3, <3>4, <3>5, <3>6, <3>7
  <2> QED BY <1>3, <2>1, <2>2, <2>3, <2>4, <2>5 DEF NotifierSteps
<1>4. CASE Clock \/ UNCHANGED syncVars
  BY <1>2, <1>4, MirrorClock
<1>5. CASE MessageDelivered
  BY <1>2, <1>5, MirrorDelivered
<1>6. CASE RequestDelivered
  <2>1. /\ toNotifier # <<>> /\ UNCHANGED excused
        /\ \/ UNCHANGED notifierVars
           \/ Head(toNotifier).call = "unsubscribe"
           \/ RequestReplay(Chain, Head(toNotifier).identifier, Head(toNotifier).indices)
    BY <1>1, <1>6, RequestCases
  <2>2. UNCHANGED <<ringRoots, ringExponents, subscription, lastProcessedSequence>>
    BY <1>6 DEF RequestDelivered, S!RequestExecuted, S!ringData
  <2>3. PICK q \in Request : q = Head(toNotifier)
    BY <1>1, <2>1
  <2>4. q.call # "unsubscribe" /\ q.indices \in SUBSET RingIndices
    BY DEF Request, RequestCalls
  <2>5. CASE UNCHANGED notifierVars
    <3>1. /\ UNCHANGED <<pendingInit, subscribers>> /\ outbox'[Chain] = outbox[Chain]
          /\ UNCHANGED <<roots, pendingUpdates, sealedBatchIndices, excused, sealedBatchSequence,
                         subscribersWithCurrentBatch, currentBatch>>
      BY <2>1, <2>5 DEF notifierVars, provider, paging, batch, registry, xcm
    <3> QED BY <1>2, <2>2, <3>1, PresentSame, MirrorSame
  <2>6. CASE RequestReplay(Chain, Head(toNotifier).identifier, Head(toNotifier).indices)
    <3>1. RequestReplay(Chain, q.identifier, q.indices)
      BY <2>3, <2>6
    <3> QED BY <1>2, <2>1, <2>2, <2>4, <3>1, MirrorReplayed
  <2> QED BY <2>1, <2>3, <2>4, <2>5, <2>6
<1>7. CASE SubscriberSteps
  BY <1>2, <1>7, MirrorSubscriber
<1> QED BY <1>3, <1>4, <1>5, <1>6, <1>7 DEF SyncNext

\* Initially the chain is not registered and nothing is stored.
LEMMA MirrorStart == ASSUME SyncInit PROVE MirrorInv
<1>1. SyncInv /\ BatchInv
  BY SyncStart, BatchInit DEF SyncInit
<1>2. /\ ~Registered /\ Chain \notin DOMAIN pendingInit /\ outbox[Chain] = <<>>
      /\ sealedBatchSequence = 0
  BY SyncAssumption DEF SyncInit, Init, Registered
<1>3. Present = Blank
  <2>1. NewestOf(ringRoots) = NothingStored
    BY DEF SyncInit, S!Init, NewestOf, NothingStored, Newest, S!RingIndices, RingIndices
  <2> QED BY <2>1 DEF SyncInit, S!Init, S!Inactive, S!IsActive, Present, Blank
<1>4. Leads(Present, outbox[Chain], Blank) /\ Blank \in View
  BY <1>2, <1>3, BlankType, LeadsNone
<1>5. EndsRight(Blank)
  BY <1>2 DEF EndsRight, Blank
<1>6. PendingInv
  BY <1>2 DEF PendingInv
<1> QED BY <1>1, <1>4, <1>5, <1>6 DEF MirrorInv

\* If the router takes the termination of an unsubscribed chain, the subscriber
\* is not terminated on its own side and clearing clears all, then whatever
\* batches are sealed, sent in part, sent again, skipped or abandoned, whatever
\* pages of an initialisation are interleaved with them and however often the
\* chain unsubscribes and comes back: once nothing about a ring is under way the
\* subscriber accepts proofs against exactly the ring's current root.
THEOREM MirroredCorrect ==
  ASSUME ~LocalTermination, ~TerminateMayFail, SP!ClearsAll
  PROVE  SyncSpec => []Mirrored
<1>1. SyncInit => MirrorInv
  BY MirrorStart
<1>2. MirrorInv /\ [SyncNext]_syncVars => MirrorInv'
  BY MirrorStep
<1>3. MirrorInv => Mirrored
  BY MirrorShows
<1> QED BY <1>1, <1>2, <1>3, PTL DEF SyncSpec
==============================================================================
