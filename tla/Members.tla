------------------------------- MODULE Members -------------------------------
(***************************************************************************)
(* pallets/members: one collection of member keys.  A new key waits in a   *)
(* paged onboarding queue, is moved into a slot of the current ring, and   *)
(* becomes provable when the root of its ring is (re)built.  Removal       *)
(* sessions suspend members, rings can be merged or removed, and a whole   *)
(* collection can be deleted piece by piece.                               *)
(*                                                                         *)
(* Every call is a transaction, hence one action; a call that fails leaves *)
(* the state alone and is a stuttering step.  The `*_authorized` calls are *)
(* submitted by offchain workers against a state that may since have       *)
(* changed; they are accepted from any block author, so they may happen    *)
(* whenever their `ensure_can_*` check passes, and the worker only adds    *)
(* fairness.  A root is the set of keys it commits to.  Clock values are   *)
(* abstracted: the self-inclusion delay and the retention of an old root   *)
(* may have run out at any moment.                                         *)
(*                                                                         *)
(* A definition whose name starts with Bug_ is a deliberate mistake in the *)
(* definition after it; no specification uses one.  Replacing the          *)
(* definition by it must break a property.                                 *)
(***************************************************************************)
EXTENDS RingUpdates

CONSTANTS
  Keys,                    \* the members' public keys
  MaxRingIndex,            \* bound: rings 0..MaxRingIndex
  MaxRevision,             \* bound: revisions of one ring root
  MaxSessions,             \* bound: removal sessions ever started
  MaxCreations,            \* bound: creations of the collection
  RingCapacity,            \* `ring_size.ring_capacity()` of the collection
  PageSize,                \* `flexible_ring_capacity()`: keys per ring page
  OnboardingQueuePageSize,
  QueuePages,              \* 2^32 in the code: queue pages are u32 and wrap
  RingBuildingMemberLimit,
  AppendOnly,              \* the collection's mode: no removal sessions
  SelfInclusion,           \* `self_inclusion_delay.is_some()`
  OnboardingSizes,         \* sizes `set_onboarding_size` is called with
  MergePairs,              \* <<base, target>> `merge_rings` is called with
  Deletable                \* whether the owner removes rings and collections

Rings == 0..MaxRingIndex
RingPages == 0..((RingCapacity + PageSize - 1) \div PageSize - 1)

\* `integrity_test`, the checks of `create_collection`, parameter shapes.
ASSUME MembersAssumption ==
  /\ IsFiniteSet(Keys)
  /\ MaxRingIndex \in Nat /\ MaxRevision \in Nat
  /\ MaxSessions \in Nat /\ MaxCreations \in Nat
  /\ PageSize \in Nat \ {0} /\ RingCapacity \in Nat \ {0}
  /\ OnboardingQueuePageSize \in Nat \ {0} /\ QueuePages \in Nat \ {0, 1}
  /\ RingBuildingMemberLimit \in 1..PageSize
  /\ AppendOnly \in BOOLEAN /\ SelfInclusion \in BOOLEAN
  /\ Deletable \in BOOLEAN
  /\ ~AppendOnly => RingCapacity <= PageSize
  /\ OnboardingSizes \subseteq 0..RingCapacity /\ OnboardingSizes # {}
  /\ MergePairs \subseteq Rings \X Rings

VARIABLES
  collection,          \* in `Collections`, `SuspendedCollections` or neither
  onboardingSize,      \* `OnboardingSize`
  sessions,            \* `RingsState`: Mutating(n), or AppendOnly as 0
  members,             \* `Members`
  onboardingQueue,     \* `OnboardingQueue`: page index to keys, partial
  queuePageIndices,    \* `QueuePageIndices`
  currentRingIndex,    \* `CurrentRingIndex`
  ringKeys,            \* `RingKeys`: ring to page to keys
  ringStatus,          \* `RingKeysStatus`, partial
  pendingSuspensions,  \* `PendingSuspensions`: slots of page 0, {} if absent
  activeMembers,       \* `ActiveMembers`
  staleRings,          \* `StaleRings`
  ringDeletionQueue,   \* `RingDeletionQueue`: <<ring, page>>
  root,                \* `Root`, partial
  oldRoots,            \* `OldRoots`: <<ring, revision>> to keys, partial
  announced,           \* history: last operation told to `OnRingRootChange`
  started,             \* history: removal sessions started
  created              \* history: creations of the collection

queueVars == <<onboardingQueue, queuePageIndices>>
ringVars == <<currentRingIndex, ringKeys, ringStatus, activeMembers>>
rootVars == <<root, oldRoots, announced>>
configVars == <<collection, onboardingSize, sessions, started, created>>
vars == <<configVars, members, queueVars, ringVars, pendingSuspensions,
          staleRings, ringDeletionQueue, rootVars>>

-----------------------------------------------------------------------------
(* Positions of a member and reads with a default (`ValueQuery`).          *)

NotMember == [at |-> "Nowhere"]
Suspended == [at |-> "Suspended"]
Onboarding(page) == [at |-> "Onboarding", page |-> page]
Included(ring, page, slot) ==
  [at |-> "Included", ring |-> ring, page |-> page, slot |-> slot]

Live == collection = "Live"
append_only == sessions = 0
Queued(page) ==
  IF page \in DOMAIN onboardingQueue THEN onboardingQueue[page] ELSE <<>>
NoStatus == [total |-> 0, included |-> 0, immutable |-> FALSE]
Status(ring) == IF ring \in DOMAIN ringStatus THEN ringStatus[ring] ELSE NoStatus

head == queuePageIndices[1]
tail == queuePageIndices[2]
NextPage(page) == (page + 1) % QueuePages

\* `on_ring_root_change` as far as the pallet is concerned.
Announce(ring, op) == announced' = [announced EXCEPT ![ring] = op]

\* The keys of a ring as its pages are stored, addressed by global slot.
KeysBetween(ring, from, to) ==
  {ringKeys[ring][g \div PageSize][(g % PageSize) + 1] :
     g \in {h \in from..(to - 1) :
              h % PageSize < Len(ringKeys[ring][h \div PageSize])}}

-----------------------------------------------------------------------------
(* The owner's calls: collections and members.                             *)

create_collection(size) ==
  /\ collection = "None" /\ created < MaxCreations
  /\ size <= RingCapacity
  /\ collection' = "Live" /\ created' = created + 1
  /\ onboardingSize' = size /\ sessions' = 0
  /\ UNCHANGED <<started, members, queueVars, ringVars, pendingSuspensions,
                 staleRings, ringDeletionQueue, rootVars>>

\* ManagerOrigin or root.
set_onboarding_size(size) ==
  /\ Live /\ size <= RingCapacity
  /\ onboardingSize' = size
  /\ UNCHANGED <<collection, sessions, started, created, members, queueVars,
                 ringVars, pendingSuspensions, staleRings, ringDeletionQueue,
                 rootVars>>

PageFull(page) == Len(Queued(page)) >= OnboardingQueuePageSize

\* The last page, or a new one behind it while the page space allows.
push_to_onboarding_queue(k) ==
  LET full == PageFull(tail)
      page == IF full THEN NextPage(tail) ELSE tail
  IN /\ full => page # head
     /\ queuePageIndices' = <<head, page>>
     /\ onboardingQueue' =
          Insert(onboardingQueue, page,
                 IF full THEN <<k>> ELSE Append(Queued(tail), k))
     /\ members' = [members EXCEPT ![k] = Onboarding(page)]

\* A new key, or one that was suspended (even if its slot is still pending).
add_members(k) ==
  /\ Live
  /\ members[k] \in {NotMember, Suspended}
  /\ push_to_onboarding_queue(k)
  /\ UNCHANGED <<configVars, ringVars, pendingSuspensions, staleRings,
                 ringDeletionQueue, rootVars>>

start_removal_session ==
  /\ Live /\ started < MaxSessions
  /\ sessions' = sessions + 1 /\ started' = started + 1
  /\ UNCHANGED <<collection, onboardingSize, created, members, queueVars,
                 ringVars, pendingSuspensions, staleRings, ringDeletionQueue,
                 rootVars>>

end_removal_session ==
  /\ Live /\ sessions > 0
  /\ sessions' = sessions - 1
  /\ UNCHANGED <<collection, onboardingSize, started, created, members,
                 queueVars, ringVars, pendingSuspensions, staleRings,
                 ringDeletionQueue, rootVars>>

\* `remove_members`.  A slot that is pending already is refused; a queued key
\* leaves its page in storage even when the page becomes empty; a member that
\* is suspended already is logged and left suspended.
queue_member_suspensions(k) ==
  LET position == members[k] IN
  /\ sessions > 0 /\ position # NotMember
  /\ \/ /\ position.at = "Included"
        /\ position.slot \notin pendingSuspensions[position.ring]
        /\ pendingSuspensions' =
             [pendingSuspensions EXCEPT ![position.ring] = @ \cup {position.slot}]
        /\ UNCHANGED onboardingQueue
     \/ /\ position.at = "Onboarding"
        /\ onboardingQueue' =
             Insert(onboardingQueue, position.page,
                    RemoveFirst(Queued(position.page), k))
        /\ UNCHANGED pendingSuspensions
  /\ members' = [members EXCEPT ![k] = Suspended]
  /\ UNCHANGED <<configVars, queuePageIndices, ringVars, staleRings,
                 ringDeletionQueue, rootVars>>

-----------------------------------------------------------------------------
(* From the queue into a ring.                                             *)

Bug_NeverFull(total) == total > RingCapacity
Full(total) == total >= RingCapacity

\* `available_ring`: the ring that takes new keys.  That the current ring is
\* never full is asserted there; see CurrentOpen.
available_ring ==
  IF Full(Status(currentRingIndex).total)
    THEN currentRingIndex + 1 ELSE currentRingIndex

\* `entering` takes the next slots of `ring`, page after page.
EnterRing(ring, entering) ==
  LET total == Status(ring).total
      slotOf(i) == total + i - 1
      pushed(p) == SubSeq(entering,
                          Max({1, p * PageSize - total + 1}),
                          Min({Len(entering), (p + 1) * PageSize - total}))
      filled == Full(total + Len(entering))
  IN /\ filled => ring < MaxRingIndex
     /\ ringKeys' = [ringKeys EXCEPT ![ring] =
                       [p \in RingPages |-> @[p] \o pushed(p)]]
     /\ members' = [k \in Keys |->
          IF k \in Range(entering)
            THEN LET i == CHOOSE j \in DOMAIN entering : entering[j] = k
                 IN Included(ring, slotOf(i) \div PageSize, slotOf(i) % PageSize)
            ELSE members[k]]
     /\ ringStatus' = Insert(ringStatus, ring,
                             [Status(ring) EXCEPT !.total = total + Len(entering)])
     /\ activeMembers' = activeMembers + Len(entering)
     /\ staleRings' = staleRings \cup {ring}
     /\ currentRingIndex' = IF filled THEN ring + 1 ELSE ring

\* The front of the queue: the head page, and the page behind it when the
\* head page alone cannot fill the ring.
ReadsTwoPages(open) == Len(Queued(head)) < open /\ head # tail
FrontKeys(open) ==
  Queued(head) \o (IF ReadsTwoPages(open) THEN Queued(NextPage(head)) ELSE <<>>)

\* Either the ring is filled, or the cohort is large enough and leaves room
\* for another one.
should_onboard_members(toInclude, total) ==
  /\ toInclude > 0
  /\ \/ total + toInclude = RingCapacity
     \/ /\ toInclude >= onboardingSize
        /\ total + toInclude <= RingCapacity - onboardingSize

\* `onboard_members`.  The keys left over all come from the last page read,
\* so the branch that splits them over two pages is never taken.
OnboardMembers ==
  LET ring == currentRingIndex
      open == RingCapacity - Status(ring).total
      front == FrontKeys(open)
      toInclude == Min({Len(front), open})
      remaining == SubSeq(front, toInclude + 1, Len(front))
      last == IF ReadsTwoPages(open) THEN NextPage(head) ELSE head
      popped == Without(Without(onboardingQueue, head), last)
  IN /\ Live /\ append_only
     /\ pendingSuspensions[ring] = {}
     /\ should_onboard_members(toInclude, Status(ring).total)
     /\ EnterRing(ring, SubSeq(front, 1, toInclude))
     /\ onboardingQueue' = IF remaining # <<>> THEN Insert(popped, last, remaining)
                                               ELSE popped
     /\ queuePageIndices' =
          <<IF remaining = <<>> /\ last # tail THEN NextPage(last) ELSE last, tail>>
     /\ UNCHANGED <<configVars, pendingSuspensions, ringDeletionQueue, rootVars>>

\* `self_include` behind the `AsMember` extension: past the cohort rule, and
\* also while the ring has pending suspensions.
self_include(k) ==
  LET page == members[k].page
      left == RemoveFirst(Queued(page), k)
  IN /\ Live /\ append_only /\ SelfInclusion
     /\ members[k].at = "Onboarding"
     /\ k \in Range(Queued(page))
     /\ onboardingQueue' = IF left = <<>> THEN Without(onboardingQueue, page)
                                          ELSE Insert(onboardingQueue, page, left)
     /\ queuePageIndices' =
          <<IF left = <<>> /\ head = page /\ head # tail THEN NextPage(page) ELSE head,
            tail>>
     /\ EnterRing(available_ring, <<k>>)
     /\ UNCHANGED <<configVars, pendingSuspensions, ringDeletionQueue, rootVars>>

Bug_MergeOnlyFilled ==
  /\ collection # "Suspended" /\ head # tail
  /\ Queued(head) # <<>> /\ Queued(NextPage(head)) # <<>>
  /\ Len(Queued(head) \o Queued(NextPage(head))) <= OnboardingQueuePageSize
should_merge_queue_pages ==
  /\ collection # "Suspended" /\ head # tail
  /\ Len(Queued(head) \o Queued(NextPage(head))) <= OnboardingQueuePageSize

Bug_PositionsKept(page) == members
\* The keys of the head page are recorded under the page they move to.
MovedTo(page) ==
  [k \in Keys |-> IF k \in Range(Queued(head)) /\ members[k].at = "Onboarding"
                    THEN Onboarding(page) ELSE members[k]]

MergeQueuePages ==
  LET second == NextPage(head)
      merged == Queued(head) \o Queued(second)
  IN /\ should_merge_queue_pages
     /\ members' = MovedTo(second)
     /\ onboardingQueue' = Insert(Without(onboardingQueue, head), second, merged)
     /\ queuePageIndices' = <<second, tail>>
     /\ UNCHANGED <<configVars, ringVars, pendingSuspensions, staleRings,
                    ringDeletionQueue, rootVars>>

-----------------------------------------------------------------------------
(* Ring roots.                                                             *)

\* `should_build_ring`: how many keys wait for the next root.
ToBuild(ring) ==
  IF collection = "Suspended" \/ ~append_only \/ pendingSuspensions[ring] # {}
    THEN 0
    ELSE Min({Status(ring).total - Status(ring).included, RingBuildingMemberLimit})

\* The current root moves to `OldRoots`.
Archived(ring) ==
  IF ring \in DOMAIN root
    THEN Insert(oldRoots, <<ring, root[ring].revision>>, root[ring].keys)
    ELSE oldRoots

\* What the next root extends: the stored `intermediate`.
Intermediate(ring) == IF ring \in DOMAIN root THEN root[ring].keys ELSE {}

Bug_ImmutableEarly(total, complete) == AppendOnly /\ complete
BecomesImmutable(total, complete) ==
  AppendOnly /\ complete /\ total = RingCapacity

StaleAfterBuild(ring, complete) ==
  IF complete THEN staleRings \ {ring} ELSE staleRings

\* `build_ring_authorized` is refused for a ring count that is outdated.
ensure_can_build_ring(ring, toInclude) == Live /\ toInclude \in 1..ToBuild(ring)

\* `build_ring` with the worker's snapshot of how many keys to include, which
\* may be fewer than wait by now.
BuildRing(ring, toInclude) ==
  LET status == Status(ring)
      included == status.included + toInclude
      fresh == ring \notin DOMAIN root
      revision == IF fresh THEN 0 ELSE root[ring].revision + 1
      complete == included = status.total
  IN /\ ensure_can_build_ring(ring, toInclude)
     /\ revision <= MaxRevision
     /\ root' = Insert(root, ring,
          [revision |-> revision,
           keys |-> Intermediate(ring)
                      \cup KeysBetween(ring, status.included, included)])
     /\ oldRoots' = Archived(ring)
     /\ ringStatus' = Insert(ringStatus, ring,
          [status EXCEPT !.included = included,
                         !.immutable = @ \/ BecomesImmutable(status.total, complete)])
     /\ staleRings' = StaleAfterBuild(ring, complete)
     /\ Announce(ring, revision)
     /\ UNCHANGED <<configVars, members, queueVars, currentRingIndex, ringKeys,
                    activeMembers, pendingSuspensions, ringDeletionQueue>>

\* `remove_suspended_keys`: the slots that stay, and where each moves up to.
KeptSlots(ring) ==
  {i \in 0..(Len(ringKeys[ring][0]) - 1) : i \notin pendingSuspensions[ring]}
NewSlot(ring, i) == Cardinality({j \in KeptSlots(ring) : j < i})
KeptKeys(ring) ==
  [n \in 1..Cardinality(KeptSlots(ring)) |->
     ringKeys[ring][0][(CHOOSE i \in KeptSlots(ring) : NewSlot(ring, i) = n - 1) + 1]]

Bug_SlotsKept(ring) == members
CompactedPositions(ring) ==
  [k \in Keys |->
     IF /\ members[k].at = "Included" /\ members[k].ring = ring
        /\ \E i \in KeptSlots(ring) : ringKeys[ring][0][i + 1] = k
       THEN [members[k] EXCEPT !.slot =
               NewSlot(ring, CHOOSE i \in KeptSlots(ring) : ringKeys[ring][0][i + 1] = k)]
       ELSE members[k]]

SuspendedCount(ring) == Max({0, Status(ring).total - Len(KeptKeys(ring))})

Bug_KeysStayInRoot(ring) ==
  [revision |-> root[ring].revision + 1, keys |-> root[ring].keys]
Bug_SameRevision(ring) == [revision |-> root[ring].revision, keys |-> {}]
EmptiedRoot(ring) == [revision |-> root[ring].revision + 1, keys |-> {}]

should_remove_suspended_keys(ring) ==
  collection # "Suspended" /\ append_only /\ pendingSuspensions[ring] # {}

\* The root starts again from nothing under a new revision; nobody is told.
RemoveSuspendedKeys(ring) ==
  /\ Live /\ should_remove_suspended_keys(ring)
  /\ ring \in DOMAIN root => root[ring].revision < MaxRevision
  /\ ringKeys' = [ringKeys EXCEPT ![ring][0] = KeptKeys(ring)]
  /\ members' = CompactedPositions(ring)
  /\ ringStatus' = Insert(ringStatus, ring,
       [Status(ring) EXCEPT !.total = Len(KeptKeys(ring)), !.included = 0])
  /\ activeMembers' = Max({0, activeMembers - SuspendedCount(ring)})
  /\ oldRoots' = Archived(ring)
  /\ root' = IF ring \in DOMAIN root THEN [root EXCEPT ![ring] = EmptiedRoot(ring)]
                                     ELSE root
  /\ staleRings' = IF KeptSlots(ring) # {} THEN staleRings \cup {ring} ELSE staleRings
  /\ pendingSuspensions' = [pendingSuspensions EXCEPT ![ring] = {}]
  /\ UNCHANGED <<configVars, queueVars, currentRingIndex, ringDeletionQueue,
                 announced>>

Bug_DropSilently(ring) ==
  oldRoots' = Archived(ring) /\ root' = Without(root, ring) /\ UNCHANGED announced
\* `archive_root` and the hook.
DropRoot(ring) ==
  /\ oldRoots' = Archived(ring)
  /\ root' = Without(root, ring)
  /\ IF ring \in DOMAIN root THEN Announce(ring, Deleted) ELSE UNCHANGED announced

\* Where the i-th key of the other ring goes, counting from 1.
AppendedSlot(base, i) == Len(ringKeys[base][0]) + i - 1

Bug_TotalKept(base, target) == Status(base)
MergedStatus(base, target) ==
  [Status(base) EXCEPT !.total = @ + Len(ringKeys[target][0])]

Bug_MergeNotStale(base, target) == staleRings \ {target}
StaleAfterMerge(base, target) == (staleRings \cup {base}) \ {target}

\* Any signed account; it never asks for the collection's mode.
merge_rings(base, target) ==
  LET baseKeys == ringKeys[base][0]
      targetKeys == ringKeys[target][0]
      slotOf(k) == AppendedSlot(base, CHOOSE i \in DOMAIN targetKeys : targetKeys[i] = k)
  IN /\ Live /\ append_only
     /\ base # target /\ currentRingIndex \notin {base, target}
     /\ \A r \in {base, target} :
          /\ Len(ringKeys[r][0]) < RingCapacity \div 2
          /\ pendingSuspensions[r] = {}
     /\ Len(baseKeys \o targetKeys) <= PageSize
     /\ \A k \in Range(targetKeys) : members[k] # NotMember
     /\ members' = [k \in Keys |-> IF k \in Range(targetKeys)
                                     THEN Included(base, 0, slotOf(k))
                                     ELSE members[k]]
     /\ ringKeys' = [ringKeys EXCEPT ![base][0] = baseKeys \o targetKeys,
                                     ![target][0] = <<>>]
     /\ ringStatus' =
          Without(Insert(ringStatus, base, MergedStatus(base, target)), target)
     /\ DropRoot(target)
     /\ staleRings' = StaleAfterMerge(base, target)
     /\ UNCHANGED <<configVars, queueVars, currentRingIndex, activeMembers,
                    pendingSuspensions, ringDeletionQueue>>

\* When anyone may call `mark_ring_stale_authorized` to put a lost entry back.
\* The call would do just that; it has no action because WorkTracked shows
\* that it is never allowed.
ensure_can_mark_ring_stale(ring) ==
  /\ collection # "Suspended" /\ ring \notin staleRings
  /\ Status(ring).total > Status(ring).included

\* `clean_up_old_roots_authorized`: the lowest revisions, as many as expired.
clean_up_old_roots(ring) ==
  LET revisions == {v \in 0..MaxRevision : <<ring, v>> \in DOMAIN oldRoots} IN
  \E upTo \in revisions :
    /\ oldRoots' = [x \in {y \in DOMAIN oldRoots : y[1] # ring \/ y[2] > upTo}
                      |-> oldRoots[x]]
    /\ UNCHANGED <<configVars, members, queueVars, ringVars, pendingSuspensions,
                   staleRings, ringDeletionQueue, root, announced>>

-----------------------------------------------------------------------------
(* Removing rings and collections.                                         *)

Bug_LastPageForgotten(total) == 0..((total + PageSize - 1) \div PageSize - 2)
PagesOf(total) == 0..((total + PageSize - 1) \div PageSize - 1)

\* The ring loses its root and status at once; its pages wait for deletion.
enqueue_ring_for_deletion(ring) ==
  LET total == Status(ring).total
  IN /\ DropRoot(ring)
     /\ staleRings' = staleRings \ {ring}
     /\ pendingSuspensions' = [pendingSuspensions EXCEPT ![ring] = {}]
     /\ ringStatus' = Without(ringStatus, ring)
     /\ activeMembers' = Max({0, activeMembers - total})
     /\ ringDeletionQueue' = ringDeletionQueue \cup ({ring} \X PagesOf(total))
     /\ UNCHANGED <<configVars, members, queueVars, currentRingIndex, ringKeys>>

Bug_AnyRing(ring) == \A x \in ringDeletionQueue : x[1] # ring
\* Not the current ring; a ring whose pages are queued already is left alone.
Removable(ring) ==
  ring # currentRingIndex /\ \A x \in ringDeletionQueue : x[1] # ring

remove_ring(ring) ==
  /\ Live /\ Deletable
  /\ Removable(ring)
  /\ enqueue_ring_for_deletion(ring)

Bug_PageOfLiveOnly(ring, page) == Live /\ <<ring, page>> \in ringDeletionQueue
ensure_can_delete_ring_page(ring, page) == <<ring, page>> \in ringDeletionQueue

\* Only members whose record points at the slot go with the page.
delete_ring_page(ring, page) ==
  /\ ensure_can_delete_ring_page(ring, page)
  /\ ringDeletionQueue' = ringDeletionQueue \ {<<ring, page>>}
  /\ members' = [k \in Keys |->
       IF \E i \in DOMAIN ringKeys[ring][page] :
            ringKeys[ring][page][i] = k /\ members[k] = Included(ring, page, i - 1)
         THEN NotMember ELSE members[k]]
  /\ ringKeys' = [ringKeys EXCEPT ![ring][page] = <<>>]
  /\ UNCHANGED <<configVars, queueVars, currentRingIndex, ringStatus,
                 activeMembers, pendingSuspensions, staleRings, rootVars>>

delete_collection ==
  /\ Live /\ Deletable
  /\ collection' = "Suspended"
  /\ UNCHANGED <<onboardingSize, sessions, started, created, members, queueVars,
                 ringVars, pendingSuspensions, staleRings, ringDeletionQueue,
                 rootVars>>

ensure_can_enqueue_ring_deletion(ring) ==
  collection = "Suspended" /\ ring \in DOMAIN ringStatus

enqueue_ring_deletion(ring) ==
  /\ ensure_can_enqueue_ring_deletion(ring)
  /\ enqueue_ring_for_deletion(ring)

Bug_PagesMayRemain == collection = "Suspended" /\ DOMAIN ringStatus = {}
RingsGone ==
  /\ collection = "Suspended"
  /\ DOMAIN ringStatus = {} /\ ringDeletionQueue = {}

ensure_can_delete_onboarding_queue_page(page) ==
  RingsGone /\ page \in DOMAIN onboardingQueue

delete_onboarding_queue_page(page) ==
  /\ ensure_can_delete_onboarding_queue_page(page)
  /\ members' = [k \in Keys |-> IF k \in Range(Queued(page)) THEN NotMember
                                                             ELSE members[k]]
  /\ onboardingQueue' = Without(onboardingQueue, page)
  /\ UNCHANGED <<configVars, queuePageIndices, ringVars, pendingSuspensions,
                 staleRings, ringDeletionQueue, rootVars>>

ensure_can_finalize_collection_deletion ==
  RingsGone /\ DOMAIN onboardingQueue = {}

finalize_collection_deletion ==
  /\ ensure_can_finalize_collection_deletion
  /\ collection' = "None"
  /\ currentRingIndex' = 0 /\ onboardingSize' = 0 /\ activeMembers' = 0
  /\ sessions' = 0 /\ queuePageIndices' = <<0, 0>>
  /\ UNCHANGED <<started, created, members, onboardingQueue, ringKeys,
                 ringStatus, pendingSuspensions, staleRings, ringDeletionQueue,
                 rootVars>>

-----------------------------------------------------------------------------
Init ==
  /\ collection = "None" /\ onboardingSize = 0 /\ sessions = 0
  /\ started = 0 /\ created = 0
  /\ members = [k \in Keys |-> NotMember]
  /\ onboardingQueue = <<>> /\ queuePageIndices = <<0, 0>>
  /\ currentRingIndex = 0 /\ activeMembers = 0
  /\ ringKeys = [r \in Rings |-> [p \in RingPages |-> <<>>]]
  /\ ringStatus = <<>> /\ root = <<>> /\ oldRoots = <<>>
  /\ pendingSuspensions = [r \in Rings |-> {}]
  /\ staleRings = {} /\ ringDeletionQueue = {}
  /\ announced = [r \in Rings |-> Deleted]

\* The owner of an append-only collection knows it by the trait
\* `AppendOnlyMembers`, which has no removal sessions.
OwnerNext ==
  \/ \E size \in OnboardingSizes : create_collection(size) \/ set_onboarding_size(size)
  \/ \E k \in Keys : add_members(k) \/ queue_member_suspensions(k)
  \/ ~AppendOnly /\ start_removal_session
  \/ end_removal_session
  \/ \E ring \in Rings : remove_ring(ring)
  \/ delete_collection

UserNext ==
  \/ \E k \in Keys : self_include(k)
  \/ \E pair \in MergePairs : merge_rings(pair[1], pair[2])

\* The calls the offchain worker submits.
WorkerNext ==
  \/ \E ring \in Rings : RemoveSuspendedKeys(ring)
  \/ MergeQueuePages
  \/ OnboardMembers
  \/ \E ring \in Rings, n \in 1..RingBuildingMemberLimit : BuildRing(ring, n)
  \/ \E ring \in Rings, page \in RingPages : delete_ring_page(ring, page)
  \/ \E ring \in Rings : enqueue_ring_deletion(ring)
  \/ \E page \in 0..(QueuePages - 1) : delete_onboarding_queue_page(page)
  \/ finalize_collection_deletion
  \/ \E ring \in Rings : clean_up_old_roots(ring)

Next == OwnerNext \/ UserNext \/ WorkerNext
Spec == Init /\ [][Next]_vars

\* The offchain worker runs again and again, and submits each call for as
\* long as it is due; a ring is built only while it is in `StaleRings`.
Fairness ==
  /\ \A ring \in Rings :
       /\ WF_vars(RemoveSuspendedKeys(ring))
       /\ WF_vars(ring \in staleRings /\ \E n \in 1..RingBuildingMemberLimit :
                                           BuildRing(ring, n))
       /\ WF_vars(\E page \in RingPages : delete_ring_page(ring, page))
       /\ WF_vars(enqueue_ring_deletion(ring))
  /\ WF_vars(MergeQueuePages)
  /\ WF_vars(OnboardMembers)
  /\ WF_vars(\E page \in 0..(QueuePages - 1) : delete_onboarding_queue_page(page))
  /\ WF_vars(finalize_collection_deletion)

FairSpec == Spec /\ Fairness
-----------------------------------------------------------------------------
(* Correctness.                                                            *)

\* The record of a waiting member names the one page that holds its key, and
\* every stored page lies between head and tail, whatever mix of onboarding,
\* self-inclusion, suspension and page merging drained the queue.
QueueExact ==
  /\ \A p \in DOMAIN onboardingQueue :
       /\ (p - head) % QueuePages <= (tail - head) % QueuePages
       /\ IsInjective(onboardingQueue[p])
  /\ \A k \in Keys, p \in 0..(QueuePages - 1) :
       k \in Range(Queued(p)) <=> members[k] = Onboarding(p)

\* The record of an included member names the slot that holds its key; a slot
\* whose key is not recorded there is exactly a slot pending suspension.  A key
\* added again before its old slot is cleaned keeps only its new position.
SlotsExact ==
  /\ \A r \in Rings, p \in RingPages : \A i \in DOMAIN ringKeys[r][p] :
       members[ringKeys[r][p][i]] = Included(r, p, i - 1)
         <=> ~(p = 0 /\ i - 1 \in pendingSuspensions[r])
  /\ \A k \in Keys : members[k].at = "Included" =>
       LET page == ringKeys[members[k].ring][members[k].page]
       IN members[k].slot + 1 \in DOMAIN page /\ page[members[k].slot + 1] = k

\* The counters kept by hand agree with the keys stored: a ring's pages are
\* filled in order up to its total, pages of a removed ring are queued for
\* deletion, and `ActiveMembers` is the sum of the totals.
CountsExact ==
  /\ \A r \in DOMAIN ringStatus :
       /\ ringStatus[r].included <= ringStatus[r].total
       /\ \A p \in RingPages :
            Len(ringKeys[r][p]) =
              Max({0, Min({PageSize, ringStatus[r].total - p * PageSize})})
  /\ \A r \in Rings \ DOMAIN ringStatus, p \in RingPages :
       ringKeys[r][p] # <<>> => <<r, p>> \in ringDeletionQueue
  /\ activeMembers = MapThenSumSet(LAMBDA r : ringStatus[r].total, DOMAIN ringStatus)

\* A root commits to exactly the first `included` keys of its ring.
RootCommits ==
  \A r \in Rings :
    IF r \in DOMAIN root THEN root[r].keys = KeysBetween(r, 0, Status(r).included)
                         ELSE Status(r).included = 0

\* Keys that no root covers yet are never forgotten by the worker, so that
\* the recovery from a lost `StaleRings` entry is never needed.
WorkTracked == \A r \in Rings : ~ensure_can_mark_ring_stale(r)

\* What `available_ring` asserts: the ring that takes new keys has room.
CurrentOpen == Live => Status(currentRingIndex).total < RingCapacity

\* `OnRingRootChange` is called for every change of a root: what it was told
\* last is the root in storage.
RootsAnnounced ==
  \A r \in Rings :
    announced[r] = IF r \in DOMAIN root THEN root[r].revision ELSE Deleted

\* A deleted collection leaves no key, ring or root behind, only the records
\* of suspended members and the old roots.
DeletedClean ==
  collection = "None" =>
    /\ \A k \in Keys : members[k] \in {NotMember, Suspended}
    /\ \A r \in Rings, p \in RingPages : ringKeys[r][p] = <<>>
    /\ DOMAIN root = {} /\ DOMAIN onboardingQueue = {}
    /\ staleRings = {} /\ \A r \in Rings : pendingSuspensions[r] = {}

\* `get_root_at_revision`: the root a proof for a revision is checked against.
Accepted(r, v) ==
  IF ~Live \/ r \notin DOMAIN root THEN {}
  ELSE IF root[r].revision = v THEN {root[r].keys}
  ELSE IF <<r, v>> \in DOMAIN oldRoots THEN {oldRoots[<<r, v>>]}
  ELSE {}

\* As long as a revision of a ring is accepted it stands for the same keys.
RevisionsStable ==
  [][\A r \in Rings, v \in 0..MaxRevision :
       Accepted(r, v) # {} /\ Accepted(r, v)' # {}
         => Accepted(r, v)' = Accepted(r, v)]_vars



\* A ring that became immutable keeps its keys and its root until removed.
ImmutableFrozen ==
  [][\A r \in DOMAIN ringStatus \cap DOMAIN ringStatus' :
       ringStatus[r].immutable =>
         /\ ringStatus'[r] = ringStatus[r] /\ ringKeys'[r] = ringKeys[r]
         /\ root'[r] = root[r]]_vars

\* Once no removal session is open any more, the worker clears all pending
\* suspensions, empties the queue and covers every key with a root.
Maintained ==
  <>[](append_only /\ Live) =>
    <>[](/\ \A r \in Rings : /\ pendingSuspensions[r] = {}
                             /\ Status(r).included = Status(r).total
         /\ \A k \in Keys : members[k].at # "Onboarding")

\* A collection marked for deletion is eventually gone.
DeletionCompletes == (collection = "Suspended") ~> (collection = "None")
==============================================================================
