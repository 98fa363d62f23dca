--------------------------- MODULE Members_proofs ---------------------------
(***************************************************************************)
(* Proofs about one collection of pallets/members: that the queue, the     *)
(* rings, the counters and the roots agree with the members' records, and  *)
(* what the roots that are accepted stand for.                             *)
(***************************************************************************)
EXTENDS Members, StorageMaps_proofs

\* How collections are used.  Only pallets/coinage removes rings and deletes
\* collections, and its collections are append-only; `merge_rings` "only works
\* for Flexible collections which use a single page".
Supported == (Deletable => AppendOnly) /\ (AppendOnly => MergePairs = {})

-----------------------------------------------------------------------------
(* The inductive invariant, in named parts.                                *)

QueueIndices == 0..(QueuePages - 1)

Positions ==
  {NotMember, Suspended}
    \cup {Onboarding(p) : p \in QueueIndices}
    \cup {Included(x[1], x[2], x[3]) : x \in Rings \X RingPages \X Nat}

StatusType == [total : 0..RingCapacity, included : Nat, immutable : BOOLEAN]

MemberTypes ==
  /\ collection \in {"None", "Live", "Suspended"} /\ sessions \in Nat
  /\ members \in [Keys -> Positions]
  /\ IsPartialFunction(onboardingQueue, QueueIndices, Seq(Keys))
  /\ queuePageIndices \in QueueIndices \X QueueIndices
  /\ currentRingIndex \in Rings
  /\ ringKeys \in [Rings -> [RingPages -> Seq(Keys)]]
  /\ IsPartialFunction(ringStatus, Rings, StatusType)
  /\ pendingSuspensions \in [Rings -> SUBSET Nat]
  /\ ringDeletionQueue \subseteq Rings \X RingPages
  /\ staleRings \subseteq Rings
  /\ IsPartialFunction(root, Rings, [revision : Nat, keys : SUBSET Keys])

\* What the mode of the collection rules out.
ModeInv ==
  /\ AppendOnly => sessions = 0 /\ \A r \in Rings : pendingSuspensions[r] = {}
  /\ ~Deletable => collection # "Suspended" /\ ringDeletionQueue = {}

\* A slot that is pending suspension exists.
SlotsInv ==
  /\ SlotsExact
  /\ \A r \in Rings : \A s \in pendingSuspensions[r] : s < Len(ringKeys[r][0])

\* How many of `total` keys page p holds.
PageFill(total, p) == Max({0, Min({PageSize, total - p * PageSize})})

\* CountsExact without the sum; a ring that is current or still to come has
\* room, and none that was removed.
RingsInv ==
  /\ \A r \in DOMAIN ringStatus :
       /\ ringStatus[r].included <= ringStatus[r].total
       /\ \A p \in RingPages : Len(ringKeys[r][p]) = PageFill(ringStatus[r].total, p)
       /\ AppendOnly => r <= currentRingIndex
       /\ currentRingIndex <= r => ringStatus[r].total < RingCapacity
       /\ ringStatus[r].immutable =>
            /\ AppendOnly
            /\ ringStatus[r].included = RingCapacity /\ ringStatus[r].total = RingCapacity
  /\ \A r \in Rings \ DOMAIN ringStatus, p \in RingPages :
       ringKeys[r][p] # <<>> => <<r, p>> \in ringDeletionQueue
  /\ \A x \in ringDeletionQueue :
       /\ x[1] \notin DOMAIN ringStatus
       /\ collection # "Suspended" => x[1] < currentRingIndex

\* `ActiveMembers` is the sum of the totals.
SumOfTotals(f) == Total(DOMAIN f, [r \in DOMAIN f |-> f[r].total])
ActiveInv == activeMembers = SumOfTotals(ringStatus)

\* A root belongs to a ring with keys to build.
RootsInv == RootCommits /\ DOMAIN root \subseteq DOMAIN ringStatus

\* Only rings with keys wait for the worker.
StaleInv ==
  /\ \A r \in DOMAIN ringStatus \ staleRings : ringStatus[r].total <= ringStatus[r].included
  /\ staleRings \subseteq DOMAIN ringStatus

\* A collection is created where nothing was left behind.
NoneInv ==
  collection = "None" =>
    /\ DOMAIN onboardingQueue = {} /\ head = tail
    /\ DOMAIN ringStatus = {} /\ ringDeletionQueue = {}

MembersInv ==
  /\ MemberTypes /\ ModeInv /\ QueueExact /\ SlotsInv /\ RingsInv /\ ActiveInv
  /\ RootsInv /\ StaleInv /\ NoneInv

-----------------------------------------------------------------------------
(* Positions, pages and slots.                                             *)

\* The positions are told apart by where the member is.
LEMMA PositionFacts ==
  /\ NotMember # Suspended
  /\ NotMember.at = "Nowhere" /\ Suspended.at = "Suspended"
  /\ \A p : Onboarding(p).at = "Onboarding" /\ Onboarding(p).page = p
  /\ \A r, p, s : /\ Included(r, p, s).at = "Included" /\ Included(r, p, s).ring = r
                  /\ Included(r, p, s).page = p /\ Included(r, p, s).slot = s
BY DEF NotMember, Suspended, Onboarding, Included

\* What a position says of its fields.
LEMMA PositionCases ==
  ASSUME NEW x \in Positions
  PROVE  /\ x.at = "Onboarding" => x.page \in QueueIndices /\ x = Onboarding(x.page)
         /\ x.at = "Included" => /\ x.ring \in Rings /\ x.page \in RingPages
                                 /\ x.slot \in Nat
                                 /\ x = Included(x.ring, x.page, x.slot)
         /\ x.at \notin {"Onboarding", "Included"} => x \in {NotMember, Suspended}
<1>1. CASE x \in {NotMember, Suspended}
  BY <1>1, PositionFacts
<1>2. CASE \E p \in QueueIndices : x = Onboarding(p)
  BY <1>2, PositionFacts
<1>3. CASE \E y \in Rings \X RingPages \X Nat : x = Included(y[1], y[2], y[3])
  BY <1>3, PositionFacts
<1> QED BY <1>1, <1>2, <1>3 DEF Positions

\* The members' positions are of three kinds.
LEMMA PositionType ==
  /\ NotMember \in Positions /\ Suspended \in Positions
  /\ \A p \in QueueIndices : Onboarding(p) \in Positions
  /\ \A r \in Rings, p \in RingPages, s \in Nat : Included(r, p, s) \in Positions
<1>1. ASSUME NEW r \in Rings, NEW p \in RingPages, NEW s \in Nat
      PROVE  Included(r, p, s) \in Positions
  <2> DEFINE x == <<r, p, s>>
  <2>1. x \in Rings \X RingPages \X Nat /\ Included(r, p, s) = Included(x[1], x[2], x[3])
    OBVIOUS
  <2> QED BY <2>1 DEF Positions
<1> QED BY <1>1 DEF Positions

\* A ring has a first page, and one for each of its slots; with removals it
\* has no other.
LEMMA PagesOfRing ==
  /\ PageSize \in Nat \ {0} /\ RingCapacity \in Nat \ {0}
  /\ RingPages \subseteq Nat /\ 0 \in RingPages
  /\ ~AppendOnly => RingPages = {0} /\ RingCapacity <= PageSize
<1>1. PageSize \in Nat \ {0} /\ RingCapacity \in Nat \ {0}
      /\ (~AppendOnly => RingCapacity <= PageSize)
  BY MembersAssumption
<1> DEFINE n == (RingCapacity + PageSize - 1) \div PageSize
<1>2. n \in Nat \ {0}
  <2>1. RingCapacity + PageSize - 1 \in Nat /\ RingCapacity + PageSize - 1 >= PageSize
    BY <1>1
  <2>2. n \in Int /\ RingCapacity + PageSize - 1 < (n + 1) * PageSize
    <3>1. \A a \in Nat, b \in Nat \ {0} : a \div b \in Int /\ a < ((a \div b) + 1) * b
      <4> TAKE a \in Nat, b \in Nat \ {0}
      <4>1. a = b * (a \div b) + (a % b) /\ a % b < b /\ a \div b \in Int /\ a % b \in Int
        OBVIOUS
      <4> QED BY <4>1
    <3> QED BY <1>1, <2>1, <3>1
  <2> HIDE DEF n
  <2>3. CASE n <= 0
    <3>1. (n + 1) * PageSize <= PageSize
      BY <1>1, <2>2, <2>3
    <3>2. (n + 1) * PageSize \in Int
      BY <1>1, <2>2
    <3> QED BY <1>1, <2>1, <2>2, <3>1, <3>2
  <2> QED BY <2>2, <2>3
<1>3. ASSUME ~AppendOnly PROVE n = 1
  <2>1. PICK a \in Nat : a = RingCapacity - 1
    BY <1>1
  <2>2. a < PageSize /\ RingCapacity + PageSize - 1 = PageSize + a
    BY <1>1, <1>3, <2>1
  <2>3. (PageSize + a) \div PageSize = 1
    BY <1>1, <2>1, <2>2
  <2> QED BY <2>2, <2>3
<1>4. RingPages = 0..(n - 1)
  BY DEF RingPages
<1> HIDE DEF n
<1>5. ASSUME ~AppendOnly PROVE RingPages = {0}
  BY <1>3, <1>4, <1>5
<1> QED BY <1>1, <1>2, <1>4, <1>5

\* The slots of a ring are numbered through its pages.
LEMMA SlotPage ==
  ASSUME NEW g \in Nat
  PROVE  /\ g \div PageSize \in Nat /\ g % PageSize \in 0..(PageSize - 1)
         /\ g = (g \div PageSize) * PageSize + (g % PageSize)
<1>1. PageSize \in Nat \ {0}
  BY PagesOfRing
<1> QED BY <1>1

\* A multiple of a number lies further on for a larger factor.
LEMMA NextMultiple ==
  ASSUME NEW a \in Nat, NEW b \in Nat, NEW n \in Nat, a < b
  PROVE  a * n \in Nat /\ b * n \in Nat /\ a * n + n <= b * n
<1>1. PICK d \in Nat : b = a + 1 + d
  <2>1. b - a - 1 \in Nat /\ b = a + 1 + (b - a - 1)
    OBVIOUS
  <2> QED BY <2>1
<1>2. b * n = a * n + n + d * n /\ d * n \in Nat /\ a * n \in Nat
  BY <1>1
<1> QED BY <1>2

\* A slot lies on one page only.
LEMMA SlotUnique ==
  ASSUME NEW p \in Nat, NEW i \in 0..(PageSize - 1)
  PROVE  /\ p * PageSize + i \in Nat
         /\ (p * PageSize + i) \div PageSize = p
         /\ (p * PageSize + i) % PageSize = i
<1>1. PageSize \in Nat \ {0}
  BY PagesOfRing
<1>2. PICK n \in Nat : n = PageSize
  BY <1>1
<1> DEFINE g == p * n + i
           q == g \div n
           m == g % n
<1>3. p * n \in Nat /\ g \in Nat
  BY <1>1, <1>2
<1>4. q \in Nat /\ m \in 0..(n - 1) /\ g = q * n + m
  BY <1>2, <1>3, SlotPage
<1> HIDE DEF q, m
<1>5. q * n \in Nat
  BY <1>2, <1>4
<1>6. ~(q < p) /\ ~(p < q)
  <2>1. ASSUME q < p PROVE FALSE
    <3>1. q * n + n <= p * n
      BY <1>4, <2>1, NextMultiple
    <3> QED BY <1>2, <1>3, <1>4, <1>5, <3>1
  <2>2. ASSUME p < q PROVE FALSE
    <3>1. p * n + n <= q * n
      BY <1>4, <2>2, NextMultiple
    <3> QED BY <1>2, <1>3, <1>4, <1>5, <3>1
  <2> QED BY <2>1, <2>2
<1>7. q = p
  BY <1>4, <1>6
<1>8. m = i
  BY <1>2, <1>3, <1>4, <1>7
<1> QED BY <1>2, <1>3, <1>7, <1>8 DEF q, m

\* How far a page is filled.
LEMMA PageFillCases ==
  ASSUME NEW total \in Nat, NEW p \in Nat
  PROVE  /\ p * PageSize \in Nat
         /\ PageFill(total, p) =
              IF total <= p * PageSize THEN 0
              ELSE IF total <= p * PageSize + PageSize THEN total - p * PageSize
              ELSE PageSize
<1>1. PageSize \in Nat \ {0}
  BY PagesOfRing
<1>2. PICK q \in Nat : q = p * PageSize
  BY <1>1
<1>3. Min({PageSize, total - q}) = IF PageSize <= total - q THEN PageSize ELSE total - q
  BY <1>1, MinOfTwo
<1>4. PICK least \in Int : least = Min({PageSize, total - q})
  BY <1>1, <1>3
<1>5. Max({0, least}) = IF 0 >= least THEN 0 ELSE least
  BY MaxOfTwo
<1>6. PageFill(total, p) = Max({0, least})
  BY <1>2, <1>4 DEF PageFill
<1> QED BY <1>1, <1>2, <1>3, <1>4, <1>5, <1>6

\* The slots below the total are those the pages hold.
LEMMA SlotFilled ==
  ASSUME NEW total \in Nat, NEW g \in Nat
  PROVE  g < total <=> g % PageSize < PageFill(total, g \div PageSize)
<1>1. PICK q \in Nat, m \in Nat : /\ q = (g \div PageSize) * PageSize /\ m = g % PageSize
                                  /\ m < PageSize /\ g = q + m
  <2>1. (g \div PageSize) * PageSize \in Nat
    BY SlotPage, PagesOfRing
  <2> QED BY SlotPage, PagesOfRing, <2>1
<1>2. PICK fill \in Int : /\ fill = PageFill(total, g \div PageSize)
                          /\ fill = IF total <= q THEN 0
                                    ELSE IF total <= q + PageSize THEN total - q ELSE PageSize
  <2>1. PICK d \in Nat : d = g \div PageSize
    BY SlotPage
  <2>2. d * PageSize = q
    BY <1>1, <2>1
  <2>3. PageFill(total, d) = IF total <= q THEN 0
                             ELSE IF total <= q + PageSize THEN total - q ELSE PageSize
    BY <2>2, PageFillCases
  <2>4. PageFill(total, d) \in Int
    BY <2>3, PagesOfRing
  <2> QED BY <2>1, <2>3, <2>4
<1>3. PageSize \in Nat
  BY PagesOfRing
<1> QED BY <1>1, <1>2, <1>3

-----------------------------------------------------------------------------
(* What each part of the invariant depends on.                             *)

\* The queue and who waits in it.
LEMMA QueueFrame ==
  ASSUME QueueExact, UNCHANGED <<members, onboardingQueue, queuePageIndices>>
  PROVE  QueueExact'
BY DEF QueueExact, Queued, head, tail

\* The slots and who occupies them.
LEMMA SlotsFrame ==
  ASSUME SlotsInv, UNCHANGED <<members, ringKeys, pendingSuspensions>>
  PROVE  SlotsInv'
BY DEF SlotsInv, SlotsExact

\* The rings, how full they are, and which are being deleted.
LEMMA RingsFrame ==
  ASSUME RingsInv, UNCHANGED <<ringKeys, ringStatus, ringDeletionQueue, currentRingIndex>>,
         collection' # "Suspended" => collection # "Suspended"
  PROVE  RingsInv'
BY DEF RingsInv

\* The counter and what it counts.
LEMMA ActiveFrame ==
  ASSUME ActiveInv, UNCHANGED <<activeMembers, ringStatus>>
  PROVE  ActiveInv'
BY DEF ActiveInv

\* The roots and the keys they commit to.
LEMMA RootsFrame ==
  ASSUME RootsInv, UNCHANGED <<root, ringStatus, ringKeys>>
  PROVE  RootsInv'
BY DEF RootsInv, RootCommits, KeysBetween, Status

\* The rings the worker is to build.
LEMMA StaleFrame ==
  ASSUME StaleInv, UNCHANGED <<staleRings, ringStatus>>
  PROVE  StaleInv'
BY DEF StaleInv

\* Nothing changes but the state of the collection, its sessions and the
\* records of the past.
LEMMA ConfigStep ==
  ASSUME MembersInv,
         UNCHANGED <<members, queueVars, ringVars, pendingSuspensions, staleRings,
                     ringDeletionQueue, root>>,
         collection' \in {"None", "Live", "Suspended"}, sessions' \in Nat,
         AppendOnly => sessions' = 0, ~Deletable => collection' # "Suspended",
         collection' # "Suspended" => collection # "Suspended",
         collection' = "None" => collection = "None"
  PROVE  MembersInv'
<1> USE DEF queueVars, ringVars
<1>1. MemberTypes' /\ ModeInv' /\ NoneInv'
  BY DEF MembersInv, MemberTypes, ModeInv, NoneInv, head, tail
<1>2. QueueExact' /\ SlotsInv' /\ RingsInv'
  BY QueueFrame, SlotsFrame, RingsFrame DEF MembersInv
<1>3. ActiveInv' /\ RootsInv' /\ StaleInv'
  BY ActiveFrame, RootsFrame, StaleFrame DEF MembersInv
<1> QED BY <1>1, <1>2, <1>3 DEF MembersInv

\* There is no collection in the beginning.
LEMMA MembersInit == Init => MembersInv
<1> SUFFICES ASSUME Init PROVE MembersInv
  OBVIOUS
<1>1. /\ DOMAIN onboardingQueue = {} /\ DOMAIN ringStatus = {} /\ DOMAIN root = {}
      /\ onboardingQueue = <<>> /\ ringStatus = <<>> /\ root = <<>>
      /\ queuePageIndices = <<0, 0>> /\ ringDeletionQueue = {} /\ staleRings = {}
      /\ collection = "None" /\ sessions = 0 /\ currentRingIndex = 0 /\ activeMembers = 0
      /\ members = [k \in Keys |-> NotMember]
      /\ ringKeys = [r \in Rings |-> [p \in RingPages |-> <<>>]]
      /\ pendingSuspensions = [r \in Rings |-> {}]
  BY DEF Init
<1>2. 0 \in QueueIndices /\ 0 \in Rings
  BY MembersAssumption DEF QueueIndices, Rings
<1>3. /\ IsPartialFunction(onboardingQueue, QueueIndices, Seq(Keys))
      /\ IsPartialFunction(ringStatus, Rings, StatusType)
      /\ IsPartialFunction(root, Rings, [revision : Nat, keys : SUBSET Keys])
  BY <1>1, EmptyMapType
<1>4. MemberTypes
  <2>1. ringKeys \in [Rings -> [RingPages -> Seq(Keys)]]
    BY <1>1
  <2>2. members \in [Keys -> Positions] /\ pendingSuspensions \in [Rings -> SUBSET Nat]
    BY <1>1, PositionType
  <2> QED BY <1>1, <1>2, <1>3, <2>1, <2>2 DEF MemberTypes
<1>5. ModeInv /\ NoneInv /\ StaleInv
  BY <1>1 DEF ModeInv, NoneInv, StaleInv, head, tail
<1>6. QueueExact
  <2>1. \A p : Queued(p) = <<>> /\ Range(Queued(p)) = {}
    BY <1>1 DEF Queued, Range
  <2>2. \A k \in Keys : \A p : members[k] # Onboarding(p)
    BY <1>1, PositionFacts
  <2> QED BY <1>1, <2>1, <2>2 DEF QueueExact
<1>7. SlotsInv
  <2>1. \A r \in Rings, p \in RingPages : ringKeys[r][p] = <<>> /\ DOMAIN ringKeys[r][p] = {}
    BY <1>1
  <2>2. \A k \in Keys : members[k].at # "Included"
    BY <1>1, PositionFacts
  <2> QED BY <1>1, <2>1, <2>2 DEF SlotsInv, SlotsExact
<1>8. RingsInv
  BY <1>1 DEF RingsInv
<1>9. ActiveInv
  BY <1>1, TotalStep DEF ActiveInv, SumOfTotals
<1>10. RootsInv
  BY <1>1 DEF RootsInv, RootCommits, Status, NoStatus
<1> QED BY <1>4, <1>5, <1>6, <1>7, <1>8, <1>9, <1>10 DEF MembersInv
-----------------------------------------------------------------------------
(* The onboarding queue.                                                   *)

\* A page lies in the window between head and tail if it is no further ahead
\* of the head than the tail.
LEMMA WindowAhead ==
  /\ QueuePages \in Nat \ {0, 1}
  /\ \A p, h, t \in QueueIndices :
       (p - h) % QueuePages <= (t - h) % QueuePages
         <=> Ahead(p, h, QueuePages) <= Ahead(t, h, QueuePages)
  /\ \A p, h \in QueueIndices : Ahead(p, h, QueuePages) \in 0..(QueuePages - 1)
  /\ \A p \in QueueIndices : NextPage(p) \in QueueIndices /\ NextPage(p) # p
<1>1. QueuePages \in Nat \ {0, 1}
  BY MembersAssumption
<1>2. ASSUME NEW p \in QueueIndices, NEW h \in QueueIndices
      PROVE  /\ (p - h) % QueuePages = Ahead(p, h, QueuePages)
             /\ Ahead(p, h, QueuePages) \in 0..(QueuePages - 1)
  BY <1>1, WrapDistance DEF QueueIndices
<1>3. ASSUME NEW p \in QueueIndices
      PROVE  NextPage(p) \in QueueIndices /\ NextPage(p) # p
  <2>1. p \in 0..(QueuePages - 1)
    BY DEF QueueIndices
  <2>2. /\ (p + 1) % QueuePages = IF p + 1 = QueuePages THEN 0 ELSE p + 1
        /\ (p + 1) % QueuePages \in 0..(QueuePages - 1)
    BY <1>1, <2>1, WrapNext
  <2>3. (p + 1) % QueuePages # p
    BY <1>1, <2>1, <2>2
  <2> QED BY <2>2, <2>3 DEF NextPage, QueueIndices
<1> QED BY <1>1, <1>2, <1>3, Zenon

\* What the invariant says of the queue.
LEMMA QueueFacts ==
  ASSUME MemberTypes, QueueExact
  PROVE  /\ head \in QueueIndices /\ tail \in QueueIndices
         /\ queuePageIndices = <<head, tail>>
         /\ DOMAIN onboardingQueue \subseteq QueueIndices
         /\ \A p \in DOMAIN onboardingQueue :
              Ahead(p, head, QueuePages) <= Ahead(tail, head, QueuePages)
         /\ \A p : Queued(p) \in Seq(Keys) /\ IsInjective(Queued(p))
         /\ \A p : p \notin DOMAIN onboardingQueue => Queued(p) = <<>>
         /\ \A k \in Keys, p \in QueueIndices :
              k \in Range(Queued(p)) <=> members[k] = Onboarding(p)
<1>1. /\ queuePageIndices \in QueueIndices \X QueueIndices
      /\ DOMAIN onboardingQueue \subseteq QueueIndices
      /\ \A p \in DOMAIN onboardingQueue : onboardingQueue[p] \in Seq(Keys)
  BY DEF MemberTypes, IsPartialFunction
<1>2. /\ head \in QueueIndices /\ tail \in QueueIndices
      /\ queuePageIndices = <<head, tail>>
  BY <1>1 DEF head, tail
<1>3. \A p \in DOMAIN onboardingQueue :
        Ahead(p, head, QueuePages) <= Ahead(tail, head, QueuePages)
  BY <1>1, <1>2, WindowAhead DEF QueueExact
<1>4. \A p : Queued(p) \in Seq(Keys) /\ IsInjective(Queued(p))
  <2>1. IsInjective(<<>>)
    BY DEF IsInjective
  <2> QED BY <1>1, <2>1 DEF QueueExact, Queued
<1> QED BY <1>1, <1>2, <1>3, <1>4 DEF QueueExact, QueueIndices, Queued

\* What has to be shown of the queue after a step.
LEMMA QueueIntro ==
  ASSUME NEW h \in QueueIndices, NEW t \in QueueIndices, queuePageIndices' = <<h, t>>,
         DOMAIN onboardingQueue' \subseteq QueueIndices,
         \A p \in DOMAIN onboardingQueue' :
           Ahead(p, h, QueuePages) <= Ahead(t, h, QueuePages),
         \A p \in DOMAIN onboardingQueue' : IsInjective(Queued(p)'),
         \A k \in Keys, p \in QueueIndices :
           k \in Range(Queued(p)') <=> members'[k] = Onboarding(p)
  PROVE  QueueExact'
<1>1. head' = h /\ tail' = t
  BY DEF head, tail
<1>2. \A p \in DOMAIN onboardingQueue' :
        /\ (p - head') % QueuePages <= (tail' - head') % QueuePages
        /\ IsInjective(onboardingQueue'[p])
  <2>1. \A p \in DOMAIN onboardingQueue' : Queued(p)' = onboardingQueue'[p]
    BY DEF Queued
  <2> QED BY <1>1, <2>1, WindowAhead
<1>3. \A k \in Keys, p \in 0..(QueuePages - 1) :
        k \in Range(Queued(p)') <=> members'[k] = Onboarding(p)
  BY DEF QueueIndices
<1> QED BY <1>2, <1>3 DEF QueueExact

\* The pages of the queue after one is stored or removed.
LEMMA QueuedAfter ==
  /\ \A p, v : onboardingQueue' = Insert(onboardingQueue, p, v)
       => /\ DOMAIN onboardingQueue' = DOMAIN onboardingQueue \cup {p}
          /\ \A q : Queued(q)' = IF q = p THEN v ELSE Queued(q)
  /\ \A p : onboardingQueue' = Without(onboardingQueue, p)
       => /\ DOMAIN onboardingQueue' = DOMAIN onboardingQueue \ {p}
          /\ \A q : Queued(q)' = IF q = p THEN <<>> ELSE Queued(q)
BY DEF Queued, Insert, Without

\* A key that is not waiting yet is put on the last page, or on a new one.
LEMMA PushQueue ==
  ASSUME MemberTypes, QueueExact, NEW k \in Keys, members[k] \in {NotMember, Suspended},
         push_to_onboarding_queue(k)
  PROVE  /\ QueueExact' /\ queuePageIndices' \in QueueIndices \X QueueIndices
         /\ IsPartialFunction(onboardingQueue', QueueIndices, Seq(Keys))
         /\ \E p \in QueueIndices : members' = [members EXCEPT ![k] = Onboarding(p)]
<1> DEFINE n == QueuePages
<1>1. /\ head \in QueueIndices /\ tail \in QueueIndices
      /\ DOMAIN onboardingQueue \subseteq QueueIndices
      /\ \A p \in DOMAIN onboardingQueue : Ahead(p, head, n) <= Ahead(tail, head, n)
      /\ \A p : Queued(p) \in Seq(Keys) /\ IsInjective(Queued(p))
      /\ \A p : p \notin DOMAIN onboardingQueue => Queued(p) = <<>>
      /\ \A j \in Keys, p \in QueueIndices :
           j \in Range(Queued(p)) <=> members[j] = Onboarding(p)
  BY QueueFacts
\* The page the key is put on, and that it is the last one.
<1>2. PICK page \in QueueIndices :
        /\ queuePageIndices' = <<head, page>>
        /\ onboardingQueue' = Insert(onboardingQueue, page, Append(Queued(page), k))
        /\ members' = [members EXCEPT ![k] = Onboarding(page)]
        /\ Ahead(tail, head, n) <= Ahead(page, head, n)
  <2>1. CASE PageFull(tail)
    <3>1. /\ NextPage(tail) # head /\ NextPage(tail) \in QueueIndices
          /\ queuePageIndices' = <<head, NextPage(tail)>>
          /\ onboardingQueue' = Insert(onboardingQueue, NextPage(tail), <<k>>)
          /\ members' = [members EXCEPT ![k] = Onboarding(NextPage(tail))]
      BY <1>1, <2>1, WindowAhead DEF push_to_onboarding_queue
    <3>2. Ahead(NextPage(tail), head, n) = Ahead(tail, head, n) + 1
      BY <1>1, <3>1, WindowAhead, WrapGrows DEF NextPage, QueueIndices
    <3>3. Ahead(tail, head, n) \in Int
      BY <1>1, WindowAhead
    <3>4. NextPage(tail) \notin DOMAIN onboardingQueue
      BY <1>1, <3>2, <3>3
    <3>5. <<k>> = Append(Queued(NextPage(tail)), k)
      BY <1>1, <3>4
    <3>6. Ahead(tail, head, n) <= Ahead(NextPage(tail), head, n)
      BY <3>2, <3>3
    <3> QED BY <3>1, <3>5, <3>6
  <2>2. CASE ~PageFull(tail)
    <3>1. Ahead(tail, head, n) <= Ahead(tail, head, n)
      BY <1>1, WindowAhead
    <3> QED BY <1>1, <2>2, <3>1 DEF push_to_onboarding_queue
  <2> QED BY <2>1, <2>2
<1>3. k \notin Range(Queued(page))
  BY <1>1, PositionFacts
<1>4. PICK added \in Seq(Keys) : /\ added = Append(Queued(page), k) /\ IsInjective(added)
                                 /\ Range(added) = Range(Queued(page)) \cup {k}
  <2>1. PICK s \in Seq(Keys) : s = Queued(page)
    BY <1>1
  <2>2. IsInjective(s) /\ k \notin Range(s)
    BY <1>1, <1>3, <2>1
  <2>3. /\ Append(s, k) \in Seq(Keys) /\ IsInjective(Append(s, k))
        /\ Range(Append(s, k)) = Range(s) \cup {k}
    BY ONLY k \in Keys, s \in Seq(Keys), <2>2, AppendRange
  <2> QED BY <2>1, <2>3, Zenon
<1>5. /\ DOMAIN onboardingQueue' = DOMAIN onboardingQueue \cup {page}
      /\ \A q : Queued(q)' = IF q = page THEN added ELSE Queued(q)
  <2>1. onboardingQueue' = Insert(onboardingQueue, page, added)
    BY <1>2, <1>4, Zenon
  <2> QED BY <2>1, QueuedAfter, Zenon
<1>6. \A q \in DOMAIN onboardingQueue' :
        Ahead(q, head, n) <= Ahead(page, head, n) /\ IsInjective(Queued(q)')
  <2>1. \A q \in QueueIndices : Ahead(q, head, n) \in Int
    BY <1>1, WindowAhead
  <2>2. \A q \in DOMAIN onboardingQueue' : Ahead(q, head, n) <= Ahead(page, head, n)
    BY <1>1, <1>2, <1>5, <2>1
  <2> QED BY <1>1, <1>4, <1>5, <2>2
<1>7. \A j \in Keys, q \in QueueIndices :
        j \in Range(Queued(q)') <=> members'[j] = Onboarding(q)
  <2> TAKE j \in Keys, q \in QueueIndices
  <2>1. members'[j] = IF j = k THEN Onboarding(page) ELSE members[j]
    BY <1>2 DEF MemberTypes
  <2>2. Range(Queued(q)') = Range(Queued(q)) \cup (IF q = page THEN {k} ELSE {})
    BY <1>4, <1>5
  <2>3. k \notin Range(Queued(q))
    BY <1>1, PositionFacts
  <2>4. Onboarding(page) = Onboarding(q) => page = q
    BY PositionFacts
  <2> QED BY <1>1, <2>1, <2>2, <2>3, <2>4
<1>8. IsPartialFunction(onboardingQueue', QueueIndices, Seq(Keys))
  BY <1>2, <1>4, InsertType DEF MemberTypes
<1>9. QueueExact'
  <2>1. DOMAIN onboardingQueue' \subseteq QueueIndices
    BY <1>1, <1>5
  <2> QED BY <1>1, <1>2, <1>6, <1>7, <2>1, QueueIntro
<1> QED BY <1>1, <1>2, <1>8, <1>9

\* The positions of members who wait in the queue neither before nor after
\* the step do not concern it.
LEMMA QueueSame ==
  ASSUME QueueExact, UNCHANGED queueVars,
         \A k \in Keys : members'[k] = members[k]
                           \/ (members[k].at # "Onboarding" /\ members'[k].at # "Onboarding")
  PROVE  QueueExact'
<1>1. \A k \in Keys : \A p : members'[k] = Onboarding(p) <=> members[k] = Onboarding(p)
  BY PositionFacts
<1>2. head' = head /\ tail' = tail /\ onboardingQueue' = onboardingQueue
      /\ \A p : Queued(p)' = Queued(p)
  BY DEF queueVars, head, tail, Queued
<1> QED BY <1>1, <1>2 DEF QueueExact

\* Nor do those of members who occupy a slot neither before nor after it
\* concern the slots.
LEMMA SlotsSame ==
  ASSUME SlotsInv, MemberTypes, UNCHANGED <<ringKeys, pendingSuspensions>>,
         \A k \in Keys : members'[k] = members[k]
                           \/ (members[k].at # "Included" /\ members'[k].at # "Included")
  PROVE  SlotsInv'
<1>1. \A k \in Keys : \A r, p, s :
        members'[k] = Included(r, p, s) <=> members[k] = Included(r, p, s)
  BY PositionFacts
<1>2. \A k \in Keys : members'[k].at = "Included" => members'[k] = members[k]
  OBVIOUS
<1>3. \A r \in Rings, p \in RingPages : \A i \in DOMAIN ringKeys[r][p] :
        ringKeys[r][p][i] \in Keys
  BY DEF MemberTypes
<1> QED BY <1>1, <1>2, <1>3 DEF SlotsInv, SlotsExact

\* `add_members`.
LEMMA AddStep ==
  ASSUME MembersInv, NEW k \in Keys, add_members(k)
  PROVE  MembersInv'
<1> USE DEF queueVars, ringVars, configVars, rootVars
<1>1. /\ Live /\ members[k] \in {NotMember, Suspended} /\ push_to_onboarding_queue(k)
      /\ UNCHANGED <<configVars, ringVars, pendingSuspensions, staleRings,
                     ringDeletionQueue, rootVars>>
  BY DEF add_members
<1>2. PICK page \in QueueIndices :
        /\ QueueExact' /\ queuePageIndices' \in QueueIndices \X QueueIndices
        /\ IsPartialFunction(onboardingQueue', QueueIndices, Seq(Keys))
        /\ members' = [members EXCEPT ![k] = Onboarding(page)]
  BY <1>1, PushQueue DEF MembersInv
<1>3. members \in [Keys -> Positions]
  BY DEF MembersInv, MemberTypes
<1>4. MemberTypes'
  <2>1. members' \in [Keys -> Positions]
    BY <1>2, <1>3, PositionType
  <2> QED BY <1>1, <1>2, <2>1 DEF MembersInv, MemberTypes
<1>5. SlotsInv'
  <2>1. \A j \in Keys : members'[j] = members[j]
                          \/ (members[j].at # "Included" /\ members'[j].at # "Included")
    BY <1>1, <1>2, <1>3, PositionFacts
  <2> QED BY <1>1, <2>1, SlotsSame DEF MembersInv
<1>6. ModeInv' /\ NoneInv'
  BY <1>1 DEF MembersInv, ModeInv, NoneInv, Live
<1>7. RingsInv' /\ ActiveInv' /\ RootsInv' /\ StaleInv'
  BY <1>1, RingsFrame, ActiveFrame, RootsFrame, StaleFrame DEF MembersInv
<1> QED BY <1>2, <1>4, <1>5, <1>6, <1>7 DEF MembersInv

\* `remove_members`: the slot of a member is marked, or its key is taken out
\* of the queue.
LEMMA SuspendStep ==
  ASSUME MembersInv, NEW k \in Keys, queue_member_suspensions(k)
  PROVE  MembersInv'
<1> USE DEF queueVars, ringVars, configVars, rootVars
<1>1. /\ sessions > 0 /\ members' = [members EXCEPT ![k] = Suspended]
      /\ UNCHANGED <<configVars, queuePageIndices, ringVars, staleRings,
                     ringDeletionQueue, rootVars>>
  BY DEF queue_member_suspensions
<1>2. members \in [Keys -> Positions] /\ members[k] \in Positions
  BY DEF MembersInv, MemberTypes
<1>3. members' \in [Keys -> Positions] /\ members'[k] = Suspended
      /\ \A j \in Keys : j # k => members'[j] = members[j]
  BY <1>1, <1>2, PositionType
<1>4. ~AppendOnly /\ RingPages = {0}
  BY <1>1, PagesOfRing DEF MembersInv, ModeInv
<1>5. RingsInv' /\ ActiveInv' /\ RootsInv' /\ StaleInv'
  BY <1>1, RingsFrame, ActiveFrame, RootsFrame, StaleFrame DEF MembersInv
<1>6. MemberTypes /\ QueueExact /\ SlotsInv /\ ModeInv /\ NoneInv
  BY DEF MembersInv
<1>7. CASE members[k].at = "Included"
  <2>1. PICK r \in Rings, s \in Nat :
          /\ members[k] = Included(r, 0, s) /\ s \notin pendingSuspensions[r]
          /\ pendingSuspensions' = [pendingSuspensions EXCEPT ![r] = @ \cup {s}]
          /\ UNCHANGED onboardingQueue
    <3>1. PICK r \in Rings, s \in Nat : members[k] = Included(r, 0, s)
      BY <1>2, <1>4, <1>7, PositionCases
    <3>2. members[k].ring = r /\ members[k].slot = s
      BY <3>1, PositionFacts
    <3> QED BY <1>7, <3>1, <3>2 DEF queue_member_suspensions
  <2>2. pendingSuspensions \in [Rings -> SUBSET Nat]
    BY <1>6 DEF MemberTypes
  <2>3. /\ pendingSuspensions' \in [Rings -> SUBSET Nat]
        /\ \A q \in Rings : \A i : i \in pendingSuspensions'[q]
             <=> i \in pendingSuspensions[q] \/ (q = r /\ i = s)
    BY <2>1, <2>2
  <2>4. MemberTypes'
    BY <1>1, <1>3, <1>6, <2>1, <2>3 DEF MemberTypes
  <2>5. QueueExact'
    <3>1. \A j \in Keys : members'[j] = members[j]
                            \/ (members[j].at # "Onboarding" /\ members'[j].at # "Onboarding")
      BY <1>3, <1>7, PositionFacts
    <3> QED BY <1>1, <1>6, <2>1, <3>1, QueueSame
  <2>6. ModeInv' /\ NoneInv'
    BY <1>1, <1>4, <1>6, <2>1 DEF ModeInv, NoneInv, head, tail
  <2>7. SlotsInv'
    <3>1. /\ s + 1 \in DOMAIN ringKeys[r][0] /\ ringKeys[r][0][s + 1] = k
      BY <1>6, <1>7, <2>1, PositionFacts DEF SlotsInv, SlotsExact
    <3>2. ringKeys[r][0] \in Seq(Keys)
      BY <1>4, <1>6 DEF MemberTypes
    <3>3. s < Len(ringKeys[r][0])
      BY <3>1, <3>2
    <3>4. \A q \in Rings : \A i \in pendingSuspensions'[q] : i < Len(ringKeys[q][0])
      BY <1>6, <2>3, <3>3 DEF SlotsInv
    <3>5. ASSUME NEW q \in Rings, NEW i \in DOMAIN ringKeys[q][0]
          PROVE  members'[ringKeys[q][0][i]] = Included(q, 0, i - 1)
                   <=> i - 1 \notin pendingSuspensions'[q]
      <4>1. ringKeys[q][0] \in Seq(Keys) /\ ringKeys[q][0][i] \in Keys /\ i \in Nat
        BY <1>4, <1>6 DEF MemberTypes
      <4>2. members[ringKeys[q][0][i]] = Included(q, 0, i - 1)
              <=> i - 1 \notin pendingSuspensions[q]
        BY <1>4, <1>6 DEF SlotsInv, SlotsExact
      <4>3. CASE ringKeys[q][0][i] = k
        <5>1. members'[ringKeys[q][0][i]] # Included(q, 0, i - 1)
          BY <1>3, <4>3, PositionFacts
        <5>2. i - 1 \in pendingSuspensions[q] \/ (q = r /\ i - 1 = s)
          BY <2>1, <4>2, <4>3, PositionFacts
        <5> QED BY <2>3, <5>1, <5>2
      <4>4. CASE ringKeys[q][0][i] # k
        <5>1. ~(q = r /\ i - 1 = s)
          BY <3>1, <4>1, <4>4
        <5> QED BY <1>3, <2>3, <4>1, <4>2, <4>4, <5>1
      <4> QED BY <4>3, <4>4
    <3>6. ASSUME NEW j \in Keys, members'[j].at = "Included"
          PROVE  LET page == ringKeys[members'[j].ring][members'[j].page]
                 IN members'[j].slot + 1 \in DOMAIN page /\ page[members'[j].slot + 1] = j
      <4>1. j # k
        BY <1>3, <3>6, PositionFacts
      <4>2. members'[j] = members[j]
        BY <1>3, <4>1
      <4> QED BY <1>6, <3>6, <4>2 DEF SlotsInv, SlotsExact
    <3> QED BY <1>1, <1>4, <3>4, <3>5, <3>6 DEF SlotsInv, SlotsExact
  <2> QED BY <1>5, <2>4, <2>5, <2>6, <2>7 DEF MembersInv
<1>8. CASE members[k].at # "Included"
  <2>1. PICK page \in QueueIndices :
          /\ members[k] = Onboarding(page)
          /\ onboardingQueue' = Insert(onboardingQueue, page, RemoveFirst(Queued(page), k))
          /\ UNCHANGED pendingSuspensions
    <3>1. members[k].at = "Onboarding"
      BY <1>8 DEF queue_member_suspensions
    <3>2. PICK page \in QueueIndices : members[k] = Onboarding(page) /\ members[k].page = page
      BY <1>2, <3>1, PositionCases
    <3> QED BY <1>8, <3>2 DEF queue_member_suspensions
  <2>2. /\ head \in QueueIndices /\ tail \in QueueIndices
        /\ queuePageIndices = <<head, tail>>
        /\ DOMAIN onboardingQueue \subseteq QueueIndices
        /\ \A p \in DOMAIN onboardingQueue :
             Ahead(p, head, QueuePages) <= Ahead(tail, head, QueuePages)
        /\ \A p : Queued(p) \in Seq(Keys) /\ IsInjective(Queued(p))
        /\ \A p : p \notin DOMAIN onboardingQueue => Queued(p) = <<>>
        /\ \A j \in Keys, p \in QueueIndices :
             j \in Range(Queued(p)) <=> members[j] = Onboarding(p)
    BY <1>6, QueueFacts
  <2>3. PICK left \in Seq(Keys) :
          /\ left = RemoveFirst(Queued(page), k) /\ IsInjective(left)
          /\ Range(left) = Range(Queued(page)) \ {k}
    <3>1. PICK s \in Seq(Keys) : s = Queued(page)
      BY <2>2
    <3>2. IsInjective(s) /\ k \in Range(s)
      BY <2>1, <2>2, <3>1
    <3>3. /\ RemoveFirst(s, k) \in Seq(Keys) /\ IsInjective(RemoveFirst(s, k))
          /\ Range(RemoveFirst(s, k)) = Range(s) \ {k}
      BY ONLY s \in Seq(Keys), <3>2, RemoveFirstRange
    <3> QED BY <3>1, <3>3, Zenon
  <2>4. page \in DOMAIN onboardingQueue
    <3>1. Range(<<>>) = {}
      BY DEF Range
    <3> QED BY <2>1, <2>2, <3>1
  <2>5. /\ DOMAIN onboardingQueue' = DOMAIN onboardingQueue
        /\ \A q : Queued(q)' = IF q = page THEN left ELSE Queued(q)
    <3>1. onboardingQueue' = Insert(onboardingQueue, page, left)
      BY <2>1, <2>3, Zenon
    <3> QED BY <2>4, <3>1, QueuedAfter
  <2>6. IsPartialFunction(onboardingQueue', QueueIndices, Seq(Keys))
    BY <1>6, <2>1, <2>3, InsertType DEF MemberTypes
  <2>7. QueueExact'
    <3>1. \A j \in Keys, q \in QueueIndices :
            j \in Range(Queued(q)') <=> members'[j] = Onboarding(q)
      <4> TAKE j \in Keys, q \in QueueIndices
      <4>1. CASE j = k
        <5>1. members'[j] # Onboarding(q)
          BY <1>3, <4>1, PositionFacts
        <5>2. Onboarding(page) = Onboarding(q) => page = q
          BY PositionFacts
        <5>3. j \notin Range(Queued(q)')
          BY <2>1, <2>2, <2>3, <2>5, <4>1, <5>2
        <5> QED BY <5>1, <5>3
      <4>2. CASE j # k
        BY <1>3, <2>2, <2>3, <2>5, <4>2
      <4> QED BY <4>1, <4>2
    <3>2. \A q \in DOMAIN onboardingQueue' : IsInjective(Queued(q)')
      BY <2>2, <2>3, <2>5
    <3>3. queuePageIndices' = <<head, tail>>
      BY <1>1, <2>2
    <3> QED BY <2>2, <2>5, <3>1, <3>2, <3>3, QueueIntro
  <2>8. MemberTypes'
    BY <1>1, <1>3, <1>6, <2>1, <2>6 DEF MemberTypes
  <2>9. SlotsInv'
    <3>1. \A j \in Keys : members'[j] = members[j]
                            \/ (members[j].at # "Included" /\ members'[j].at # "Included")
      BY <1>3, <1>8, PositionFacts
    <3> QED BY <1>1, <1>6, <2>1, <3>1, SlotsSame
  <2>10. ModeInv' /\ NoneInv'
    BY <1>1, <1>4, <1>6, <2>1, <2>5 DEF ModeInv, NoneInv, head, tail
  <2> QED BY <1>5, <2>7, <2>8, <2>9, <2>10 DEF MembersInv
<1> QED BY <1>7, <1>8

\* `merge_queue_pages`: the head page moves behind into the next one.
LEMMA MergePagesStep ==
  ASSUME MembersInv, MergeQueuePages
  PROVE  MembersInv'
<1> USE DEF queueVars, ringVars, configVars, rootVars
<1> DEFINE n == QueuePages
<1>1. /\ collection # "Suspended" /\ head # tail
      /\ members' = MovedTo(NextPage(head))
      /\ onboardingQueue' = Insert(Without(onboardingQueue, head), NextPage(head),
                                   Queued(head) \o Queued(NextPage(head)))
      /\ queuePageIndices' = <<NextPage(head), tail>>
      /\ UNCHANGED <<configVars, ringVars, pendingSuspensions, staleRings,
                     ringDeletionQueue, rootVars>>
  BY DEF MergeQueuePages, should_merge_queue_pages
<1>2. MemberTypes /\ QueueExact /\ SlotsInv /\ ModeInv /\ NoneInv
  BY DEF MembersInv
<1>3. /\ head \in QueueIndices /\ tail \in QueueIndices
      /\ DOMAIN onboardingQueue \subseteq QueueIndices
      /\ \A p \in DOMAIN onboardingQueue : Ahead(p, head, n) <= Ahead(tail, head, n)
      /\ \A p : Queued(p) \in Seq(Keys) /\ IsInjective(Queued(p))
      /\ \A p : p \notin DOMAIN onboardingQueue => Queued(p) = <<>>
      /\ \A j \in Keys, p \in QueueIndices :
           j \in Range(Queued(p)) <=> members[j] = Onboarding(p)
  BY <1>2, QueueFacts
<1>4. PICK second \in QueueIndices : second = NextPage(head) /\ second # head
  BY <1>3, WindowAhead
<1>5. PICK merged \in Seq(Keys) :
        /\ merged = Queued(head) \o Queued(second) /\ IsInjective(merged)
        /\ Range(merged) = Range(Queued(head)) \cup Range(Queued(second))
  <2>1. PICK a \in Seq(Keys), b \in Seq(Keys) : a = Queued(head) /\ b = Queued(second)
    BY <1>3
  <2>2. IsInjective(a) /\ IsInjective(b) /\ Range(a) \cap Range(b) = {}
    <3>1. IsInjective(a) /\ IsInjective(b)
      BY <1>3, <2>1
    <3>2. Range(a) \subseteq Keys
      BY <2>1, ListRange
    <3>3. \A j \in Range(a) : j \notin Range(b)
      BY <1>3, <1>4, <2>1, <3>2, PositionFacts
    <3> QED BY <3>1, <3>3
  <2>3. PICK c : c = a \o b
    OBVIOUS
  <2>4. IsConcat(Keys, a, b, c)
    BY <2>3, ConcatElements
  <2>5. c \in Seq(Keys)
    BY <2>4 DEF IsConcat
  <2>6. Range(c) = Range(a) \cup Range(b) /\ IsInjective(c)
    BY ONLY a \in Seq(Keys), b \in Seq(Keys), <2>2, <2>4, PartsRange
  <2> QED BY <2>1, <2>3, <2>5, <2>6, Zenon
<1>6. /\ onboardingQueue' = Insert(Without(onboardingQueue, head), second, merged)
      /\ queuePageIndices' = <<second, tail>>
      /\ members' = [k \in Keys |-> IF k \in Range(Queued(head)) THEN Onboarding(second)
                                                                 ELSE members[k]]
  <2>1. \A k \in Keys : k \in Range(Queued(head)) => members[k].at = "Onboarding"
    BY <1>3, PositionFacts
  <2>2. MovedTo(second) = [k \in Keys |-> IF k \in Range(Queued(head)) THEN Onboarding(second)
                                                                      ELSE members[k]]
    BY <2>1 DEF MovedTo
  <2> QED BY <1>1, <1>4, <1>5, <2>2, Zenon
<1>7. /\ DOMAIN onboardingQueue' = (DOMAIN onboardingQueue \ {head}) \cup {second}
      /\ \A q : Queued(q)' = IF q = second THEN merged
                             ELSE IF q = head THEN <<>> ELSE Queued(q)
  BY <1>6 DEF Queued, Insert, Without
<1>8. members \in [Keys -> Positions]
  BY <1>2 DEF MemberTypes
<1>9. MemberTypes'
  <2>1. members' \in [Keys -> Positions]
    BY <1>6, <1>8, PositionType
  <2>2. IsPartialFunction(onboardingQueue', QueueIndices, Seq(Keys))
    <3>1. IsPartialFunction(Without(onboardingQueue, head), QueueIndices, Seq(Keys))
      BY <1>2, WithoutType DEF MemberTypes
    <3> QED BY <1>6, <3>1, InsertType
  <2> QED BY <1>1, <1>2, <1>3, <1>6, <2>1, <2>2 DEF MemberTypes
<1>10. QueueExact'
  <2>1. \A p \in QueueIndices : p # head => Ahead(p, second, n) = Ahead(p, head, n) - 1
    <3> TAKE p \in QueueIndices
    <3> HAVE p # head
    <3>1. n \in Nat \ {0} /\ head \in 0..(n - 1) /\ p \in 0..(n - 1)
      BY <1>3, WindowAhead DEF QueueIndices
    <3>2. Ahead(p, (head + 1) % n, n) = Ahead(p, head, n) - 1
      BY <3>1, WrapShrinks
    <3> QED BY <1>4, <3>2 DEF NextPage
  <2>2. \A p, h \in QueueIndices : Ahead(p, h, n) \in Nat
    BY WindowAhead
  <2>3. Ahead(second, second, n) = 0
    <3>1. second \in Int
      BY WindowAhead DEF QueueIndices
    <3> QED BY <3>1 DEF Ahead
  <2>4. \A p \in DOMAIN onboardingQueue' : Ahead(p, second, n) <= Ahead(tail, second, n)
    <3> TAKE p \in DOMAIN onboardingQueue'
    <3>1. CASE p = second
      BY <1>3, <2>2, <2>3, <3>1
    <3>2. CASE p \in DOMAIN onboardingQueue /\ p # head
      <4>1. /\ Ahead(p, second, n) = Ahead(p, head, n) - 1
            /\ Ahead(tail, second, n) = Ahead(tail, head, n) - 1
            /\ Ahead(p, head, n) <= Ahead(tail, head, n)
            /\ Ahead(p, head, n) \in Nat /\ Ahead(tail, head, n) \in Nat
        BY <1>1, <1>3, <2>1, <2>2, <3>2
      <4> QED BY <4>1
    <3> QED BY <1>7, <3>1, <3>2
  <2>5. \A p \in DOMAIN onboardingQueue' : IsInjective(Queued(p)')
    BY <1>3, <1>5, <1>7
  <2>6. \A j \in Keys, p \in QueueIndices :
          j \in Range(Queued(p)') <=> members'[j] = Onboarding(p)
    <3> TAKE j \in Keys, p \in QueueIndices
    <3>1. members'[j] = IF j \in Range(Queued(head)) THEN Onboarding(second) ELSE members[j]
      BY <1>6
    <3>2. \A q \in QueueIndices : Onboarding(q) = Onboarding(p) <=> q = p
      BY PositionFacts
    <3>3. Range(<<>>) = {}
      BY DEF Range
    <3>4. CASE p = second
      BY <1>3, <1>5, <1>7, <3>1, <3>2, <3>4
    <3>5. CASE p = head
      BY <1>3, <1>4, <1>7, <3>1, <3>2, <3>3, <3>5
    <3>6. CASE p # second /\ p # head
      BY <1>3, <1>4, <1>7, <3>1, <3>2, <3>6
    <3> QED BY <3>4, <3>5, <3>6
  <2> QED BY <1>3, <1>6, <1>7, <2>4, <2>5, <2>6, QueueIntro
<1>11. SlotsInv'
  <2>1. \A j \in Keys : members'[j] = members[j]
                          \/ (members[j].at # "Included" /\ members'[j].at # "Included")
    BY <1>3, <1>6, PositionFacts
  <2> QED BY <1>1, <1>2, <2>1, SlotsSame
<1>12. ModeInv' /\ NoneInv'
  <2>1. collection # "None"
    BY <1>1, <1>2 DEF NoneInv
  <2> QED BY <1>1, <1>2, <2>1 DEF ModeInv, NoneInv
<1>13. RingsInv' /\ ActiveInv' /\ RootsInv' /\ StaleInv'
  BY <1>1, RingsFrame, ActiveFrame, RootsFrame, StaleFrame DEF MembersInv
<1> QED BY <1>9, <1>10, <1>11, <1>12, <1>13 DEF MembersInv

-----------------------------------------------------------------------------
(* Removing rings and collections.                                         *)

\* The pages that are queued for deletion: those of the ring that hold keys,
\* and none for a ring without a status.
LEMMA PagesQueued ==
  ASSUME NEW total \in 0..RingCapacity
  PROVE  /\ PagesOf(total) \subseteq RingPages
         /\ \A p \in Nat : PageFill(total, p) # 0 => p \in PagesOf(total)
         /\ PagesOf(0) = {}
<1>1. PICK n \in Nat \ {0}, c \in Nat \ {0} : n = PageSize /\ c = RingCapacity
  BY PagesOfRing
<1>2. \A a \in Nat : /\ a \div n \in Nat /\ a = n * (a \div n) + (a % n)
                     /\ a % n \in 0..(n - 1)
  BY <1>1
<1>3. PICK q \in Nat, r \in 0..(n - 1) : q = (total + n - 1) \div n /\ total + n - 1 = n * q + r
  <2>1. total + n - 1 \in Nat
    BY <1>1
  <2> QED BY <1>2, <2>1
<1>4. PICK d \in Nat, s \in 0..(n - 1) : d = (c + n - 1) \div n /\ c + n - 1 = n * d + s
  <2>1. c + n - 1 \in Nat
    BY <1>1
  <2> QED BY <1>2, <2>1
<1>5. PagesOf(total) = 0..(q - 1) /\ RingPages = 0..(d - 1)
  BY <1>1, <1>3, <1>4 DEF PagesOf, RingPages
<1>6. q <= d
  <2>1. SUFFICES ASSUME d < q PROVE FALSE
    OBVIOUS
  <2>2. d * n \in Nat /\ q * n \in Nat /\ d * n + n <= q * n
    BY <2>1, NextMultiple
  <2>3. n * q = q * n /\ n * d = d * n
    OBVIOUS
  <2>4. total <= c
    BY <1>1
  <2> QED BY <1>3, <1>4, <2>2, <2>3, <2>4
<1>7. ASSUME NEW p \in Nat, PageFill(total, p) # 0
      PROVE  p \in PagesOf(total)
  <2>1. p \in Nat
    OBVIOUS
  <2>2. p * n \in Nat /\ p * n < total
    BY <1>1, <1>7, <2>1, PageFillCases
  <2>3. p < q
    <3>1. SUFFICES ASSUME q <= p PROVE FALSE
      BY <2>1
    <3>2. q * n <= p * n /\ q * n \in Nat /\ n * q = q * n
      <4>1. CASE q = p
        BY <2>2, <4>1
      <4>2. CASE q < p
        <5>1. q * n + n <= p * n /\ q * n \in Nat
          BY <2>1, <4>2, NextMultiple
        <5> QED BY <2>2, <5>1
      <4> QED BY <2>1, <3>1, <4>1, <4>2
    <3> QED BY <1>3, <2>2, <3>2
  <2> QED BY <1>5, <2>1, <2>3
<1>8. PagesOf(0) = {}
  <2>1. (0 + n - 1) \div n = 0
    BY <1>1
  <2> QED BY <1>1, <2>1 DEF PagesOf
<1> QED BY <1>5, <1>6, <1>7, <1>8

\* What a lookup of a ring's status returns.
LEMMA StatusFacts ==
  ASSUME MemberTypes, NEW r \in Rings
  PROVE  /\ Status(r) \in StatusType /\ Status(r).total \in Nat /\ Status(r).included \in Nat
         /\ Status(r).total <= RingCapacity
         /\ r \in DOMAIN ringStatus => Status(r) = ringStatus[r]
         /\ r \notin DOMAIN ringStatus => Status(r).total = 0 /\ Status(r).included = 0
<1>1. NoStatus \in StatusType /\ NoStatus.total = 0 /\ NoStatus.included = 0
  BY PagesOfRing DEF NoStatus, StatusType
<1>2. r \in DOMAIN ringStatus => ringStatus[r] \in StatusType
  BY DEF MemberTypes, IsPartialFunction
<1>3. Status(r) \in StatusType
  BY <1>1, <1>2 DEF Status
<1>4. \A x \in StatusType : x.total \in Nat /\ x.included \in Nat /\ x.total <= RingCapacity
  BY PagesOfRing DEF StatusType
<1> QED BY <1>1, <1>3, <1>4 DEF Status

\* The sum of the totals when one of them is set, or goes.
LEMMA SumAfter ==
  ASSUME NEW f, IsPartialFunction(f, Rings, StatusType), NEW r \in Rings
  PROVE  LET old == IF r \in DOMAIN f THEN f[r].total ELSE 0 IN
         /\ SumOfTotals(f) \in Nat /\ old \in Nat /\ old <= SumOfTotals(f)
         /\ SumOfTotals(Without(f, r)) = SumOfTotals(f) - old
         /\ \A v \in StatusType :
              SumOfTotals(Insert(f, r, v)) = SumOfTotals(f) - old + v.total
<1> DEFINE D == DOMAIN f
           g == [x \in D |-> f[x].total]
           rest == Total(D \ {r}, g)
           old == IF r \in D THEN f[r].total ELSE 0
<1>1. IsFiniteSet(Rings)
  <2>1. Rings = 0..MaxRingIndex /\ MaxRingIndex \in Int
    BY MembersAssumption DEF Rings
  <2> QED BY <2>1, FS_Interval
<1>2. D \subseteq Rings /\ \A x \in D : f[x] \in StatusType
  BY DEF IsPartialFunction
<1>3. IsFiniteSet(D) /\ IsFiniteSet(D \ {r}) /\ IsFiniteSet(D \cup {r})
  BY <1>1, <1>2, FS_Subset
<1>4. \A x \in StatusType : x.total \in Nat
  BY PagesOfRing DEF StatusType
<1>5. \A x \in D : g[x] \in Nat
  BY <1>2, <1>4
<1>6. rest \in Nat /\ Total(D, g) \in Nat
  BY <1>3, <1>5, TotalType
<1>7. old \in Nat /\ Total(D, g) = rest + old
  <2>1. CASE r \in D
    <3>1. Total(D, g) = g[r] + rest
      BY <1>3, <1>5, <2>1, TotalStep
    <3>2. g[r] \in Nat /\ old = g[r]
      BY <1>5, <2>1
    <3> QED BY <1>6, <3>1, <3>2
  <2>2. CASE r \notin D
    <3>1. D \ {r} = D
      BY <2>2
    <3> QED BY <1>6, <2>2, <3>1
  <2> QED BY <2>1, <2>2
<1>8. SumOfTotals(Without(f, r)) = rest
  <2> DEFINE h == [x \in D \ {r} |-> Without(f, r)[x].total]
  <2>1. DOMAIN Without(f, r) = D \ {r} /\ \A x \in D \ {r} : Without(f, r)[x] = f[x]
    BY DEF Without
  <2>2. SumOfTotals(Without(f, r)) = Total(D \ {r}, h)
    BY <2>1 DEF SumOfTotals
  <2>3. \A x \in D \ {r} : h[x] = g[x]
    BY <2>1
  <2> HIDE DEF h, g, D
  <2>4. Total(D \ {r}, h) = Total(D \ {r}, g)
    BY <2>3, TotalSame
  <2> QED BY <2>2, <2>4
<1>9. ASSUME NEW v \in StatusType
      PROVE  SumOfTotals(Insert(f, r, v)) = rest + v.total
  <2> DEFINE h == [x \in D \cup {r} |-> Insert(f, r, v)[x].total]
  <2>1. /\ DOMAIN Insert(f, r, v) = D \cup {r}
        /\ \A x \in D \cup {r} : Insert(f, r, v)[x] = IF x = r THEN v ELSE f[x]
    BY DEF Insert
  <2>2. SumOfTotals(Insert(f, r, v)) = Total(D \cup {r}, h)
    BY <2>1 DEF SumOfTotals
  <2>3. /\ h[r] = v.total /\ v.total \in Nat /\ (\A x \in D \cup {r} : h[x] \in Nat)
        /\ \A x \in D \ {r} : h[x] = g[x]
    BY <1>2, <1>4, <2>1
  <2>4. (D \cup {r}) \ {r} = D \ {r}
    OBVIOUS
  <2> HIDE DEF h, g, D
  <2>5. Total(D \cup {r}, h) = h[r] + Total((D \cup {r}) \ {r}, h)
    BY <1>3, <2>3, TotalStep
  <2>6. Total(D \ {r}, h) = rest
    BY <2>3, TotalSame
  <2>7. Total((D \cup {r}) \ {r}, h) = rest
    BY <2>4, <2>6, Zenon
  <2>8. PICK m \in Nat, k \in Nat : m = rest /\ k = v.total /\ h[r] = k
    BY <1>6, <2>3
  <2> HIDE DEF rest
  <2>9. SumOfTotals(Insert(f, r, v)) = k + m
    BY <2>2, <2>5, <2>7, <2>8
  <2> QED BY <2>8, <2>9
<1>10. SumOfTotals(f) = rest + old
  BY <1>7 DEF SumOfTotals
<1>11. \A v \in StatusType : v.total \in Nat
  BY <1>4
<1> HIDE DEF D, g, rest
<1>12. SumOfTotals(f) \in Nat /\ old <= SumOfTotals(f) /\ rest = SumOfTotals(f) - old
  BY <1>6, <1>7, <1>10
<1>13. \A v \in StatusType : rest + v.total = SumOfTotals(f) - old + v.total
  BY <1>12
<1> QED BY <1>7, <1>8, <1>9, <1>12, <1>13 DEF D

\* The pages of a ring that is enqueued for deletion, and what goes at once.
LEMMA EnqueueStep ==
  ASSUME MembersInv, NEW ring \in Rings, Supported, Deletable,
         ring \in DOMAIN ringStatus /\ collection # "Suspended" => ring # currentRingIndex,
         collection # "None",
         enqueue_ring_for_deletion(ring)
  PROVE  MembersInv'
<1> USE DEF queueVars, ringVars, configVars, rootVars
<1> DEFINE total == Status(ring).total
<1>1. /\ root' = Without(root, ring)
      /\ staleRings' = staleRings \ {ring}
      /\ pendingSuspensions' = [pendingSuspensions EXCEPT ![ring] = {}]
      /\ ringStatus' = Without(ringStatus, ring)
      /\ activeMembers' = Max({0, activeMembers - total})
      /\ ringDeletionQueue' = ringDeletionQueue \cup ({ring} \X PagesOf(total))
      /\ UNCHANGED <<configVars, members, queueVars, currentRingIndex, ringKeys>>
  BY DEF enqueue_ring_for_deletion, DropRoot
<1>2. AppendOnly
  BY DEF Supported
<1>3. MemberTypes /\ QueueExact /\ SlotsInv /\ ModeInv /\ RingsInv
  BY DEF MembersInv
<1>4. /\ pendingSuspensions \in [Rings -> SUBSET Nat] /\ pendingSuspensions[ring] = {}
      /\ pendingSuspensions' = pendingSuspensions
  BY <1>1, <1>2, <1>3 DEF MemberTypes, ModeInv
<1>5. total \in 0..RingCapacity
  BY <1>3, StatusFacts, PagesOfRing
<1>6. /\ PagesOf(total) \subseteq RingPages /\ PagesOf(0) = {}
      /\ \A p \in RingPages : PageFill(total, p) # 0 => p \in PagesOf(total)
  BY <1>5, PagesQueued, PagesOfRing
<1> HIDE DEF total
<1>7. MemberTypes'
  <2>1. ringDeletionQueue' \subseteq Rings \X RingPages
    BY <1>1, <1>3, <1>6 DEF MemberTypes
  <2>2. /\ IsPartialFunction(ringStatus', Rings, StatusType)
        /\ IsPartialFunction(root', Rings, [revision : Nat, keys : SUBSET Keys])
    BY <1>1, <1>3, WithoutType DEF MemberTypes
  <2> QED BY <1>1, <1>3, <1>4, <2>1, <2>2 DEF MemberTypes
<1>8. ModeInv'
  BY <1>1, <1>3, <1>4 DEF ModeInv
<1>9. NoneInv'
  BY <1>1 DEF NoneInv
<1>10. QueueExact' /\ SlotsInv'
  BY <1>1, <1>3, <1>4, QueueFrame, SlotsFrame
<1>11. DOMAIN ringStatus' = DOMAIN ringStatus \ {ring}
       /\ \A r \in DOMAIN ringStatus' : ringStatus'[r] = ringStatus[r]
  BY <1>1 DEF Without
<1>12. RingsInv'
  <2>1. \A r \in DOMAIN ringStatus' :
          /\ ringStatus'[r].included <= ringStatus'[r].total
          /\ \A p \in RingPages : Len(ringKeys'[r][p]) = PageFill(ringStatus'[r].total, p)
          /\ AppendOnly => r <= currentRingIndex'
          /\ currentRingIndex' <= r => ringStatus'[r].total < RingCapacity
          /\ ringStatus'[r].immutable =>
               /\ AppendOnly
               /\ ringStatus'[r].included = RingCapacity
               /\ ringStatus'[r].total = RingCapacity
    BY <1>1, <1>3, <1>11 DEF RingsInv
  <2>2. ASSUME NEW r \in Rings \ DOMAIN ringStatus', NEW p \in RingPages,
               ringKeys'[r][p] # <<>>
        PROVE  <<r, p>> \in ringDeletionQueue'
    <3>1. CASE r \in DOMAIN ringStatus
      <4>1. r = ring /\ ringStatus[r].total = total /\ ringKeys[r][p] # <<>>
        BY <1>1, <1>11, <2>2, <3>1 DEF total, Status
      <4>2. Len(ringKeys[r][p]) = PageFill(total, p)
        BY <1>3, <3>1, <4>1 DEF RingsInv
      <4>3. ringKeys[r][p] \in Seq(Keys)
        BY <1>3 DEF MemberTypes
      <4>4. p \in PagesOf(total)
        BY <1>6, <4>1, <4>2, <4>3
      <4> QED BY <1>1, <4>1, <4>4
    <3>2. CASE r \notin DOMAIN ringStatus
      BY <1>1, <1>3, <2>2, <3>2 DEF RingsInv
    <3> QED BY <3>1, <3>2
  <2>3. ASSUME NEW x \in ringDeletionQueue'
        PROVE  /\ x[1] \notin DOMAIN ringStatus'
               /\ collection' # "Suspended" => x[1] < currentRingIndex'
    <3>1. CASE x \in ringDeletionQueue
      BY <1>1, <1>3, <1>11, <3>1 DEF RingsInv
    <3>2. CASE x \in {ring} \X PagesOf(total)
      <4>1. x[1] = ring /\ total # 0
        BY <1>6, <3>2
      <4>2. ring \in DOMAIN ringStatus
        BY <1>3, <4>1, StatusFacts DEF total
      <4>3. collection # "Suspended" => ring <= currentRingIndex /\ ring # currentRingIndex
        BY <1>2, <1>3, <4>2 DEF RingsInv
      <4>4. ring \in Int /\ currentRingIndex \in Int
        BY <1>3 DEF MemberTypes, Rings
      <4> QED BY <1>1, <1>11, <4>1, <4>3, <4>4
    <3> QED BY <1>1, <2>3, <3>1, <3>2
  <2> QED BY <2>1, <2>2, <2>3 DEF RingsInv
<1>13. ActiveInv'
  <2>1. /\ activeMembers = SumOfTotals(ringStatus)
        /\ IsPartialFunction(ringStatus, Rings, StatusType)
    BY <1>3 DEF MembersInv, MemberTypes, ActiveInv
  <2>2. total = IF ring \in DOMAIN ringStatus THEN ringStatus[ring].total ELSE 0
    BY DEF total, Status, NoStatus
  <2>3. /\ activeMembers \in Nat /\ total \in Nat /\ total <= activeMembers
        /\ SumOfTotals(ringStatus') = activeMembers - total
    BY <1>1, <2>1, <2>2, SumAfter
  <2>4. activeMembers' = activeMembers - total
    BY <1>1, <2>3, MaxOfTwo
  <2> QED BY <2>3, <2>4 DEF ActiveInv
<1>14. RootsInv'
  <2>1. RootsInv
    BY DEF MembersInv
  <2>2. DOMAIN root' = DOMAIN root \ {ring} /\ \A r \in DOMAIN root' : root'[r] = root[r]
    BY <1>1 DEF Without
  <2>3. \A r : Status(r)' = IF r = ring THEN NoStatus ELSE Status(r)
    BY <1>11 DEF Status
  <2>5. NoStatus.included = 0
    BY DEF NoStatus
  <2>6. RootCommits'
    <3> SUFFICES ASSUME NEW r \in Rings
                 PROVE  IF r \in DOMAIN root'
                          THEN root'[r].keys = KeysBetween(r, 0, Status(r).included)'
                          ELSE Status(r)'.included = 0
      BY DEF RootCommits
    <3>1. IF r \in DOMAIN root THEN root[r].keys = KeysBetween(r, 0, Status(r).included)
                               ELSE Status(r).included = 0
      BY <2>1 DEF RootsInv, RootCommits
    <3>2. CASE r = ring
      BY <2>2, <2>3, <2>5, <3>2
    <3>3. CASE r # ring
      <4>1. KeysBetween(r, 0, Status(r).included)' = KeysBetween(r, 0, Status(r).included)
        BY <1>1, <2>3, <3>3 DEF KeysBetween
      <4> QED BY <2>2, <2>3, <3>1, <3>3, <4>1
    <3> QED BY <3>2, <3>3
  <2> QED BY <1>11, <2>1, <2>2, <2>6 DEF RootsInv
<1>15. StaleInv'
  BY <1>1, <1>11 DEF MembersInv, StaleInv
<1> QED BY <1>7, <1>8, <1>9, <1>10, <1>12, <1>13, <1>14, <1>15 DEF MembersInv

\* `delete_ring_page`: the keys of a queued page and the records that point
\* into it.
LEMMA DeletePageStep ==
  ASSUME MembersInv, Supported, NEW ring \in Rings, NEW page \in RingPages,
         delete_ring_page(ring, page)
  PROVE  MembersInv'
<1> USE DEF queueVars, ringVars, configVars, rootVars
<1>1. /\ <<ring, page>> \in ringDeletionQueue
      /\ ringDeletionQueue' = ringDeletionQueue \ {<<ring, page>>}
      /\ members' = [k \in Keys |->
           IF \E i \in DOMAIN ringKeys[ring][page] :
                ringKeys[ring][page][i] = k /\ members[k] = Included(ring, page, i - 1)
             THEN NotMember ELSE members[k]]
      /\ ringKeys' = [ringKeys EXCEPT ![ring][page] = <<>>]
      /\ UNCHANGED <<configVars, queueVars, currentRingIndex, ringStatus,
                     activeMembers, pendingSuspensions, staleRings, rootVars>>
  BY DEF delete_ring_page, ensure_can_delete_ring_page
<1>2. MemberTypes /\ QueueExact /\ SlotsInv /\ ModeInv /\ RingsInv /\ NoneInv
      /\ ActiveInv /\ RootsInv /\ StaleInv
  BY DEF MembersInv
<1>3. \A r \in Rings : pendingSuspensions[r] = {}
  BY <1>1, <1>2 DEF Supported, ModeInv
<1>4. /\ ringKeys \in [Rings -> [RingPages -> Seq(Keys)]] /\ members \in [Keys -> Positions]
  BY <1>2 DEF MemberTypes
<1>5. /\ ringKeys' \in [Rings -> [RingPages -> Seq(Keys)]]
      /\ \A r \in Rings, p \in RingPages :
           ringKeys'[r][p] = IF r = ring /\ p = page THEN <<>> ELSE ringKeys[r][p]
  BY <1>1, <1>4
\* Every key of the page is recorded there, so exactly the records of the
\* page are dropped.
<1>6. /\ members' \in [Keys -> Positions]
      /\ \A k \in Keys :
           members'[k] = IF /\ members[k].at = "Included"
                            /\ members[k].ring = ring /\ members[k].page = page
                           THEN NotMember ELSE members[k]
  <2>1. members' \in [Keys -> Positions]
    BY <1>1, <1>4, PositionType
  <2>2. ASSUME NEW k \in Keys
        PROVE  (\E i \in DOMAIN ringKeys[ring][page] :
                  ringKeys[ring][page][i] = k /\ members[k] = Included(ring, page, i - 1))
               <=> /\ members[k].at = "Included"
                   /\ members[k].ring = ring /\ members[k].page = page
    <3>1. ASSUME members[k].at = "Included", members[k].ring = ring, members[k].page = page
          PROVE  \E i \in DOMAIN ringKeys[ring][page] :
                  ringKeys[ring][page][i] = k /\ members[k] = Included(ring, page, i - 1)
      <4>1. members[k].slot \in Nat /\ members[k] = Included(ring, page, members[k].slot)
        BY <1>4, <3>1, PositionCases
      <4>2. PICK i : i = members[k].slot + 1
        OBVIOUS
      <4>3. i \in DOMAIN ringKeys[ring][page] /\ ringKeys[ring][page][i] = k
        BY <1>2, <3>1, <4>2 DEF SlotsInv, SlotsExact
      <4>4. i - 1 = members[k].slot
        BY <4>1, <4>2
      <4> QED BY <4>1, <4>3, <4>4
    <3> QED BY <3>1, PositionFacts
  <2> QED BY <1>1, <2>1, <2>2
<1>7. MemberTypes'
  BY <1>1, <1>2, <1>5, <1>6 DEF MemberTypes
<1>8. ModeInv' /\ NoneInv' /\ StaleInv' /\ ActiveInv'
  BY <1>1, <1>2, StaleFrame, ActiveFrame DEF ModeInv, NoneInv
<1>9. QueueExact'
  <2>1. \A j \in Keys : members'[j] = members[j]
                          \/ (members[j].at # "Onboarding" /\ members'[j].at # "Onboarding")
    BY <1>6, PositionFacts
  <2> QED BY <1>1, <1>2, <2>1, QueueSame
<1>10. SlotsInv'
  <2>1. ASSUME NEW r \in Rings, NEW p \in RingPages, NEW i \in DOMAIN ringKeys'[r][p]
        PROVE  members'[ringKeys'[r][p][i]] = Included(r, p, i - 1)
    <3>1. ~(r = ring /\ p = page) /\ ringKeys'[r][p] = ringKeys[r][p]
      BY <1>5
    <3>2. ringKeys[r][p][i] \in Keys
      BY <1>4, <3>1
    <3>3. members[ringKeys[r][p][i]] = Included(r, p, i - 1)
      BY <1>2, <1>3, <3>1 DEF SlotsInv, SlotsExact
    <3> QED BY <1>6, <3>1, <3>2, <3>3, PositionFacts
  <2>2. ASSUME NEW k \in Keys, members'[k].at = "Included"
        PROVE  LET there == ringKeys'[members'[k].ring][members'[k].page]
               IN members'[k].slot + 1 \in DOMAIN there /\ there[members'[k].slot + 1] = k
    <3>1. members'[k] = members[k] /\ members[k].at = "Included"
          /\ ~(members[k].ring = ring /\ members[k].page = page)
      BY <1>6, <2>2, PositionFacts
    <3>2. members[k].ring \in Rings /\ members[k].page \in RingPages
      BY <1>4, <3>1, PositionCases
    <3>3. ringKeys'[members[k].ring][members[k].page] = ringKeys[members[k].ring][members[k].page]
      BY <1>5, <3>1, <3>2
    <3>4. LET there == ringKeys[members[k].ring][members[k].page]
          IN members[k].slot + 1 \in DOMAIN there /\ there[members[k].slot + 1] = k
      BY <1>2, <3>1 DEF SlotsInv, SlotsExact
    <3> QED BY <3>1, <3>3, <3>4
  <2>3. \A r \in Rings : pendingSuspensions'[r] = {}
    BY <1>1, <1>3
  <2> QED BY <2>1, <2>2, <2>3 DEF SlotsInv, SlotsExact
<1>11. ring \notin DOMAIN ringStatus
  BY <1>1, <1>2 DEF RingsInv
<1>12. DOMAIN ringStatus \subseteq Rings /\ DOMAIN root \subseteq DOMAIN ringStatus
  BY <1>2 DEF MemberTypes, IsPartialFunction, RootsInv
<1>13. RingsInv'
  <2>1. \A r \in DOMAIN ringStatus, p \in RingPages : ringKeys'[r][p] = ringKeys[r][p]
    BY <1>5, <1>11, <1>12
  <2>2. ASSUME NEW r \in Rings \ DOMAIN ringStatus, NEW p \in RingPages, ringKeys'[r][p] # <<>>
        PROVE  <<r, p>> \in ringDeletionQueue'
    <3>1. ~(r = ring /\ p = page) /\ ringKeys[r][p] # <<>>
      BY <1>5, <2>2
    <3>2. <<r, p>> \in ringDeletionQueue
      BY <1>2, <3>1 DEF RingsInv
    <3> QED BY <1>1, <3>1, <3>2
  <2> QED BY <1>1, <1>2, <2>1, <2>2 DEF RingsInv
<1>14. RootsInv'
  <2>2. \A r : Status(r)' = Status(r)
    BY <1>1 DEF Status
  <2>3. RootCommits'
    <3> SUFFICES ASSUME NEW r \in Rings
                 PROVE  IF r \in DOMAIN root'
                          THEN root'[r].keys = KeysBetween(r, 0, Status(r).included)'
                          ELSE Status(r)'.included = 0
      BY DEF RootCommits
    <3>1. IF r \in DOMAIN root THEN root[r].keys = KeysBetween(r, 0, Status(r).included)
                               ELSE Status(r).included = 0
      BY <1>2 DEF RootsInv, RootCommits
    <3>2. CASE r \in DOMAIN root
      <4>1. ringKeys'[r] = ringKeys[r]
        BY <1>1, <1>4, <1>11, <1>12, <3>2
      <4>2. KeysBetween(r, 0, Status(r).included)' = KeysBetween(r, 0, Status(r).included)
        BY <2>2, <4>1 DEF KeysBetween
      <4> QED BY <1>1, <3>1, <3>2, <4>2
    <3>3. CASE r \notin DOMAIN root
      BY <1>1, <2>2, <3>1, <3>3
    <3> QED BY <3>2, <3>3
  <2> QED BY <1>1, <1>2, <2>3 DEF RootsInv
<1> QED BY <1>7, <1>8, <1>9, <1>10, <1>13, <1>14 DEF MembersInv

\* `delete_onboarding_queue_page`, once the rings are gone.
LEMMA DeleteQueuePageStep ==
  ASSUME MembersInv, NEW page \in QueueIndices, delete_onboarding_queue_page(page)
  PROVE  MembersInv'
<1> USE DEF queueVars, ringVars, configVars, rootVars
<1>1. /\ collection = "Suspended"
      /\ members' = [k \in Keys |-> IF k \in Range(Queued(page)) THEN NotMember ELSE members[k]]
      /\ onboardingQueue' = Without(onboardingQueue, page)
      /\ UNCHANGED <<configVars, queuePageIndices, ringVars, pendingSuspensions,
                     staleRings, ringDeletionQueue, rootVars>>
  BY DEF delete_onboarding_queue_page, ensure_can_delete_onboarding_queue_page, RingsGone
<1>2. MemberTypes /\ QueueExact /\ SlotsInv /\ ModeInv
  BY DEF MembersInv
<1>3. /\ head \in QueueIndices /\ tail \in QueueIndices
      /\ queuePageIndices = <<head, tail>>
      /\ DOMAIN onboardingQueue \subseteq QueueIndices
      /\ \A p \in DOMAIN onboardingQueue :
           Ahead(p, head, QueuePages) <= Ahead(tail, head, QueuePages)
      /\ \A p : Queued(p) \in Seq(Keys) /\ IsInjective(Queued(p))
      /\ \A j \in Keys, p \in QueueIndices :
           j \in Range(Queued(p)) <=> members[j] = Onboarding(p)
  BY <1>2, QueueFacts
<1>4. /\ DOMAIN onboardingQueue' = DOMAIN onboardingQueue \ {page}
      /\ \A q : Queued(q)' = IF q = page THEN <<>> ELSE Queued(q)
  BY <1>1, QueuedAfter
<1>5. members \in [Keys -> Positions]
  BY <1>2 DEF MemberTypes
<1>6. \A k \in Keys : members'[k] = IF members[k] = Onboarding(page) THEN NotMember
                                                                    ELSE members[k]
  BY <1>1, <1>3
<1>7. QueueExact'
  <2>1. \A j \in Keys, p \in QueueIndices :
          j \in Range(Queued(p)') <=> members'[j] = Onboarding(p)
    <3> TAKE j \in Keys, p \in QueueIndices
    <3>1. Range(<<>>) = {}
      BY DEF Range
    <3>2. NotMember # Onboarding(p) /\ (Onboarding(page) = Onboarding(p) => page = p)
      BY PositionFacts
    <3> QED BY <1>3, <1>4, <1>6, <3>1, <3>2
  <2>2. \A p \in DOMAIN onboardingQueue' : IsInjective(Queued(p)')
    BY <1>3, <1>4
  <2> QED BY <1>1, <1>3, <1>4, <2>1, <2>2, QueueIntro
<1>8. SlotsInv'
  <2>1. \A j \in Keys : members'[j] = members[j]
                          \/ (members[j].at # "Included" /\ members'[j].at # "Included")
    BY <1>6, PositionFacts
  <2> QED BY <1>1, <1>2, <2>1, SlotsSame
<1>9. MemberTypes'
  <2>1. members' \in [Keys -> Positions]
    BY <1>1, <1>5, PositionType
  <2>2. IsPartialFunction(onboardingQueue', QueueIndices, Seq(Keys))
    BY <1>1, <1>2, WithoutType DEF MemberTypes
  <2> QED BY <1>1, <1>2, <2>1, <2>2 DEF MemberTypes
<1>10. ModeInv' /\ NoneInv'
  BY <1>1, <1>2 DEF ModeInv, NoneInv
<1>11. RingsInv' /\ ActiveInv' /\ RootsInv' /\ StaleInv'
  BY <1>1, RingsFrame, ActiveFrame, RootsFrame, StaleFrame DEF MembersInv
<1> QED BY <1>7, <1>8, <1>9, <1>10, <1>11 DEF MembersInv

\* `finalize_collection_deletion`: nothing is left but the records of the past.
LEMMA FinalizeStep ==
  ASSUME MembersInv, finalize_collection_deletion
  PROVE  MembersInv'
<1> USE DEF queueVars, ringVars, configVars, rootVars
<1>1. /\ DOMAIN ringStatus = {} /\ ringDeletionQueue = {} /\ DOMAIN onboardingQueue = {}
      /\ collection' = "None" /\ currentRingIndex' = 0 /\ activeMembers' = 0
      /\ sessions' = 0 /\ queuePageIndices' = <<0, 0>>
      /\ UNCHANGED <<members, onboardingQueue, ringKeys, ringStatus,
                     pendingSuspensions, staleRings, ringDeletionQueue, rootVars>>
  BY DEF finalize_collection_deletion, ensure_can_finalize_collection_deletion, RingsGone
<1>2. 0 \in QueueIndices /\ 0 \in Rings
  BY MembersAssumption DEF QueueIndices, Rings
<1>3. MemberTypes /\ QueueExact /\ SlotsInv /\ ModeInv /\ RootsInv /\ StaleInv /\ RingsInv
  BY DEF MembersInv
<1>4. MemberTypes' /\ ModeInv' /\ NoneInv'
  BY <1>1, <1>2, <1>3 DEF MemberTypes, ModeInv, NoneInv, head, tail
<1>5. QueueExact'
  <2>1. \A j \in Keys, p \in QueueIndices :
          j \in Range(Queued(p)') <=> members'[j] = Onboarding(p)
    <3>1. \A p : Queued(p)' = Queued(p)
      BY <1>1 DEF Queued
    <3> QED BY <1>1, <1>3, <3>1, QueueFacts
  <2> QED BY <1>1, <1>2, <2>1, QueueIntro
<1>6. SlotsInv'
  BY <1>1, <1>3, SlotsFrame
<1>7. RingsInv'
  BY <1>1, <1>3 DEF RingsInv
<1>8. ActiveInv'
  BY <1>1, TotalStep DEF ActiveInv, SumOfTotals
<1>9. RootsInv' /\ StaleInv'
  BY <1>1, <1>3, RootsFrame, StaleFrame
<1> QED BY <1>4, <1>5, <1>6, <1>7, <1>8, <1>9 DEF MembersInv

-----------------------------------------------------------------------------
(* From the queue into a ring.                                             *)

\* n keys are pushed onto the ring behind the `total` it has: the page of the
\* slots from q on grows from `old` to `new` by m of them, the a-th to the b-th.
PushesOnto(q, w, n, total, old, new, a, b, m) ==
  /\ old = IF total <= q THEN 0 ELSE IF total <= q + w THEN total - q ELSE w
  /\ new = IF total + n <= q THEN 0
           ELSE IF total + n <= q + w THEN total + n - q ELSE w
  /\ a = IF total >= q THEN 1 ELSE q - total + 1
  /\ b = IF n <= q + w - total THEN n ELSE q + w - total
  /\ m = IF a <= b THEN b - a + 1 ELSE 0

\* The numbers fit together.
LEMMA PushedSlots ==
  ASSUME NEW q \in Nat, NEW w \in Nat \ {0}, NEW n \in Nat, NEW total \in Nat,
         NEW old \in Nat, NEW new \in Nat, NEW a \in Int, NEW b \in Int, NEW m \in Nat,
         PushesOnto(q, w, n, total, old, new, a, b, m)
  PROVE  /\ new = old + m /\ new <= w
         /\ \A j \in 1..m : a + j - 1 = q + old + j - total /\ a + j - 1 \in 1..n
<1> USE DEF PushesOnto
<1>1. new = old + m /\ new <= w
  <2>1. CASE total >= q + w
    BY <2>1
  <2>2. CASE q <= total /\ total < q + w
    BY <2>2
  <2>3. CASE total < q
    BY <2>3
  <2> QED BY <2>1, <2>2, <2>3
<1>2. ASSUME NEW j \in 1..m
      PROVE  a + j - 1 = q + old + j - total /\ a + j - 1 \in 1..n
  <2>1. a <= b /\ m = b - a + 1
    OBVIOUS
  <2>2. CASE total >= q
    BY <2>1, <2>2
  <2>3. CASE total < q
    BY <2>1, <2>3
  <2> QED BY <2>2, <2>3
<1> QED BY <1>1, <1>2

\* What is pushed onto page p when the list s enters a ring of `total` keys.
PushedPart(s, total, p) ==
  SubSeq(s, Max({1, p * PageSize - total + 1}), Min({Len(s), (p + 1) * PageSize - total}))

\* t is as much of s as page p has room for, from where the page before ended.
FillsPage(s, total, p, t) ==
  /\ t \in Seq(Keys) /\ PageFill(total, p) \in Nat
  /\ PageFill(total + Len(s), p) <= PageSize
  /\ PageFill(total + Len(s), p) = PageFill(total, p) + Len(t)
  /\ \A j \in 1..Len(t) :
       /\ p * PageSize + PageFill(total, p) + j - total \in 1..Len(s)
       /\ t[j] = s[p * PageSize + PageFill(total, p) + j - total]

\* The slots of a list that enters a ring.
LEMMA Pushed ==
  ASSUME NEW s \in Seq(Keys), NEW total \in Nat, NEW p \in Nat
  PROVE  FillsPage(s, total, p, PushedPart(s, total, p))
<1>0. PICK a \in Int, b \in Int :
        /\ a = Max({1, p * PageSize - total + 1})
        /\ b = Min({Len(s), (p + 1) * PageSize - total})
        /\ PushedPart(s, total, p) = SubSeq(s, a, b)
  <2>1. PICK x \in Int : x = p * PageSize - total + 1
    BY PagesOfRing
  <2>2. PICK y \in Int : y = (p + 1) * PageSize - total
    BY PagesOfRing
  <2>3. Max({1, x}) \in Int /\ Min({Len(s), y}) \in Int
    BY MaxOfTwo, MinOfTwo
  <2> QED BY <2>1, <2>2, <2>3 DEF PushedPart
<1>1. PICK q \in Nat, w \in Nat \ {0}, n \in Nat :
        /\ q = p * PageSize /\ w = PageSize /\ n = Len(s)
        /\ (p + 1) * PageSize = q + w
  <2>1. p * PageSize \in Nat /\ (p + 1) * PageSize = p * PageSize + PageSize
    BY PagesOfRing
  <2>2. Len(s) \in Nat /\ PageSize \in Nat \ {0}
    BY PagesOfRing
  <2> QED BY ONLY <2>1, <2>2
<1>2. PICK old \in Nat, new \in Nat :
        /\ old = PageFill(total, p) /\ new = PageFill(total + n, p)
        /\ old = IF total <= q THEN 0 ELSE IF total <= q + w THEN total - q ELSE w
        /\ new = IF total + n <= q THEN 0
                 ELSE IF total + n <= q + w THEN total + n - q ELSE w
  <2>1. /\ PageFill(total, p) = IF total <= q THEN 0
                                ELSE IF total <= q + w THEN total - q ELSE w
        /\ PageFill(total + n, p) = IF total + n <= q THEN 0
                                    ELSE IF total + n <= q + w THEN total + n - q ELSE w
    <3>1. total + n \in Nat
      BY <1>1
    <3> QED BY <1>1, <3>1, PageFillCases
  <2>2. PageFill(total, p) \in Nat /\ PageFill(total + n, p) \in Nat
    BY <2>1
  <2> QED BY <2>1, <2>2
<1>3. a = IF total >= q THEN 1 ELSE q - total + 1
  <2>1. Max({1, q - total + 1}) = IF 1 >= q - total + 1 THEN 1 ELSE q - total + 1
    BY MaxOfTwo
  <2>2. Max({1, q - total + 1}) = IF total >= q THEN 1 ELSE q - total + 1
    BY ONLY q \in Nat, total \in Nat, <2>1
  <2> QED BY <1>0, <1>1, <2>2, Zenon
<1>4. b = IF n <= q + w - total THEN n ELSE q + w - total
  <2>1. Min({n, q + w - total}) = IF n <= q + w - total THEN n ELSE q + w - total
    BY MinOfTwo
  <2>2. b = Min({n, q + w - total})
    <3>1. PICK y : y = (p + 1) * PageSize /\ y = q + w
      BY <1>1
    <3>2. b = Min({n, y - total})
      BY <1>0, <1>1, <3>1
    <3> QED BY <3>1, <3>2
  <2> QED BY <2>1, <2>2, Zenon
<1>5. a >= 1 /\ b <= Len(s)
  BY <1>1, <1>3, <1>4
<1>6. PICK t \in Seq(Keys), m \in Nat :
        /\ t = SubSeq(s, a, b) /\ m = Len(t)
        /\ m = IF a <= b THEN b - a + 1 ELSE 0
        /\ \A j \in 1..m : t[j] = s[a + j - 1]
  <2>1. \A x \in Int, y \in Int : x >= 1 /\ y <= Len(s) =>
          /\ SubSeq(s, x, y) \in Seq(Keys)
          /\ Len(SubSeq(s, x, y)) = IF x <= y THEN y - x + 1 ELSE 0
          /\ \A j \in 1..Len(SubSeq(s, x, y)) : SubSeq(s, x, y)[j] = s[x + j - 1]
    BY ONLY s \in Seq(Keys)
  <2>2. /\ SubSeq(s, a, b) \in Seq(Keys)
        /\ Len(SubSeq(s, a, b)) = IF a <= b THEN b - a + 1 ELSE 0
        /\ \A j \in 1..Len(SubSeq(s, a, b)) : SubSeq(s, a, b)[j] = s[a + j - 1]
    BY <1>5, <2>1, Zenon
  <2>3. PICK t \in Seq(Keys) : t = SubSeq(s, a, b)
    BY <2>2
  <2>4. Len(t) \in Nat
    BY <2>3
  <2>5. Len(t) = (IF a <= b THEN b - a + 1 ELSE 0) /\ \A j \in 1..Len(t) : t[j] = s[a + j - 1]
    BY <2>2, <2>3, Zenon
  <2> QED BY <2>3, <2>4, <2>5, Zenon
<1>7. /\ new = old + m /\ new <= w
      /\ \A j \in 1..m : a + j - 1 = q + old + j - total /\ a + j - 1 \in 1..n
  <2>1. PushesOnto(q, w, n, total, old, new, a, b, m)
    BY <1>2, <1>3, <1>4, <1>6, Zenon DEF PushesOnto
  <2> QED
  BY ONLY q \in Nat, w \in Nat \ {0}, n \in Nat, total \in Nat, old \in Nat, new \in Nat,
          a \in Int, b \in Int, m \in Nat, <2>1, PushedSlots
<1>8. \A j \in 1..m : q + old + j - total \in 1..n /\ t[j] = s[q + old + j - total]
  BY <1>6, <1>7
<1>9. /\ PushedPart(s, total, p) = t /\ Len(t) = m /\ PageFill(total, p) = old
      /\ PageFill(total + Len(s), p) = new /\ p * PageSize = q /\ Len(s) = n
      /\ PageSize = w
  BY <1>0, <1>1, <1>2, <1>6
<1> QED BY <1>6, <1>7, <1>8, <1>9, Zenon DEF FillsPage

\* The current ring has room; its pages are filled in order.
LEMMA CurrentRing ==
  ASSUME MembersInv, Live
  PROVE  /\ currentRingIndex \in Rings
         /\ Status(currentRingIndex).total < RingCapacity
         /\ ~Status(currentRingIndex).immutable
         /\ available_ring = currentRingIndex
         /\ \A p \in RingPages : Len(ringKeys[currentRingIndex][p])
                                   = PageFill(Status(currentRingIndex).total, p)
         /\ \A x \in ringDeletionQueue : x[1] # currentRingIndex
<1> DEFINE ring == currentRingIndex
<1>1. MemberTypes /\ RingsInv /\ collection = "Live"
  BY DEF MembersInv, Live
<1>2. ring \in Rings /\ ring \in Int
  BY <1>1 DEF MemberTypes, Rings
<1>3. \A x \in ringDeletionQueue : x[1] # ring
  BY <1>1, <1>2 DEF RingsInv
<1>4. CASE ring \in DOMAIN ringStatus
  <2>1. Status(ring) = ringStatus[ring] /\ Status(ring).total \in Nat
    BY <1>1, <1>2, <1>4, StatusFacts
  <2>2. ring <= ring
    BY <1>2
  <2>3. /\ Status(ring).total < RingCapacity
        /\ (Status(ring).immutable => Status(ring).total = RingCapacity)
        /\ \A p \in RingPages : Len(ringKeys[ring][p]) = PageFill(Status(ring).total, p)
    BY <1>1, <1>4, <2>1, <2>2 DEF RingsInv
  <2> QED BY <1>2, <1>3, <2>1, <2>3, PagesOfRing DEF available_ring, Full
<1>5. CASE ring \notin DOMAIN ringStatus
  <2>1. Status(ring).total = 0 /\ Status(ring).immutable = FALSE
    BY <1>5 DEF Status, NoStatus
  <2>2. ASSUME NEW p \in RingPages PROVE ringKeys[ring][p] = <<>>
    <3>1. <<ring, p>>[1] = ring
      OBVIOUS
    <3>2. <<ring, p>> \notin ringDeletionQueue
      BY <1>3, <3>1
    <3> QED BY <1>1, <1>2, <1>5, <3>2 DEF RingsInv
  <2>3. \A p \in RingPages : PageFill(0, p) = 0
    <3>1. \A p \in Nat : p * PageSize \in Nat
      BY PagesOfRing
    <3> QED BY <3>1, PageFillCases, PagesOfRing
  <2> QED BY <1>2, <1>3, <2>1, <2>2, <2>3, PagesOfRing DEF available_ring, Full
<1> QED BY <1>4, <1>5

\* A list of keys takes the slots of a ring behind those of its keys.
LEMMA Entered ==
  ASSUME MembersInv, Live, NEW entering \in Seq(Keys), IsInjective(entering),
         EnterRing(currentRingIndex, entering)
  PROVE  LET ring == currentRingIndex
             old == Status(ring).total
             n == Len(entering)
         IN /\ ringKeys' \in [Rings -> [RingPages -> Seq(Keys)]]
            /\ \A r \in Rings \ {ring} : ringKeys'[r] = ringKeys[r]
            /\ \A p \in RingPages :
                 /\ PageFill(old, p) \in Nat
                 /\ PageFill(old, p) <= PageFill(old + n, p)
                 /\ PageFill(old + n, p) <= PageSize
                 /\ Len(ringKeys'[ring][p]) = PageFill(old + n, p)
                 /\ \A i \in 1..PageFill(old, p) : ringKeys'[ring][p][i] = ringKeys[ring][p][i]
                 /\ \A i \in (PageFill(old, p) + 1)..PageFill(old + n, p) :
                      /\ p * PageSize + i - old \in 1..n
                      /\ ringKeys'[ring][p][i] = entering[p * PageSize + i - old]
            /\ \A m \in 1..n : members'[entering[m]]
                 = Included(ring, (old + m - 1) \div PageSize, (old + m - 1) % PageSize)
            /\ \A k \in Keys \ Range(entering) : members'[k] = members[k]
            /\ members' = [k \in Keys |-> members'[k]]
<1> DEFINE ring == currentRingIndex
           old == Status(ring).total
           n == Len(entering)
           pushed(p) == PushedPart(entering, old, p)
<1>1. /\ ring \in Rings /\ old \in Nat
      /\ \A p \in RingPages : Len(ringKeys[ring][p]) = PageFill(old, p)
      /\ ringKeys \in [Rings -> [RingPages -> Seq(Keys)]]
  BY CurrentRing, StatusFacts DEF MembersInv, MemberTypes
<1>2. /\ ringKeys' = [ringKeys EXCEPT ![ring] = [p \in RingPages |-> @[p] \o pushed(p)]]
      /\ members' = [k \in Keys |->
           IF k \in Range(entering)
             THEN LET i == CHOOSE j \in DOMAIN entering : entering[j] = k
                  IN Included(ring, (old + i - 1) \div PageSize, (old + i - 1) % PageSize)
             ELSE members[k]]
  BY DEF EnterRing, PushedPart
<1> HIDE DEF old, ring
<1>3. ASSUME NEW p \in RingPages
      PROVE  /\ pushed(p) \in Seq(Keys) /\ PageFill(old, p) \in Nat
             /\ PageFill(old + n, p) <= PageSize
             /\ PageFill(old + n, p) = PageFill(old, p) + Len(pushed(p))
             /\ \A j \in 1..Len(pushed(p)) :
                  /\ p * PageSize + PageFill(old, p) + j - old \in 1..n
                  /\ pushed(p)[j] = entering[p * PageSize + PageFill(old, p) + j - old]
  <2>1. p \in Nat
    BY PagesOfRing
  <2>2. FillsPage(entering, old, p, PushedPart(entering, old, p))
    BY ONLY entering \in Seq(Keys), <1>1, <2>1, Pushed
  <2> QED BY <2>2, Zenon DEF FillsPage
<1> HIDE DEF pushed
<1>4. ASSUME NEW p \in RingPages
      PROVE  /\ ringKeys'[ring][p] \in Seq(Keys)
             /\ Len(ringKeys'[ring][p]) = PageFill(old + n, p)
             /\ \A i \in 1..PageFill(old, p) : ringKeys'[ring][p][i] = ringKeys[ring][p][i]
             /\ \A i \in (PageFill(old, p) + 1)..PageFill(old + n, p) :
                  /\ p * PageSize + i - old \in 1..n
                  /\ ringKeys'[ring][p][i] = entering[p * PageSize + i - old]
  <2>0. PICK s \in Seq(Keys), t \in Seq(Keys) :
          s = ringKeys[ring][p] /\ t = pushed(p) /\ ringKeys'[ring][p] = s \o t
    BY <1>1, <1>2, <1>3
  <2>1. PICK u \in Seq(Keys) :
          s = ringKeys[ring][p] /\ t = pushed(p) /\ u = ringKeys'[ring][p] /\ u = s \o t
    BY <2>0, s \o t \in Seq(Keys), Zenon
  <2>2. IsConcat(Keys, s, t, u)
    BY <2>1, ConcatElements
  <2>3. PICK f \in Nat, g \in Nat : /\ f = PageFill(old, p) /\ g = Len(t)
                                    /\ PageFill(old + n, p) = f + g /\ Len(s) = f
    BY <1>1, <1>3, <2>1
  <2>4. /\ u \in Seq(Keys) /\ Len(u) = f + g
        /\ \A i \in 1..f : u[i] = s[i]
        /\ \A i \in 1..g : u[f + i] = t[i]
    BY <2>2, <2>3 DEF IsConcat
  <2>5. PICK q \in Nat : q = p * PageSize
    BY PagesOfRing
  <2>6. \A j \in 1..g : q + f + j - old \in 1..n /\ t[j] = entering[q + f + j - old]
    BY <1>3, <2>1, <2>3, <2>5
  <2>7. ASSUME NEW i \in (f + 1)..(f + g)
        PROVE  q + i - old \in 1..n /\ u[i] = entering[q + i - old]
    <3>1. PICK j \in 1..g : i = f + j
      <4>1. i - f \in 1..g /\ i = f + (i - f)
        OBVIOUS
      <4> QED BY <4>1
    <3>2. q + f + j - old = q + i - old
      BY <1>1, <3>1
    <3> QED BY <2>4, <2>6, <3>1, <3>2
  <2> QED BY <2>1, <2>3, <2>4, <2>5, <2>7
<1>5. /\ ringKeys' \in [Rings -> [RingPages -> Seq(Keys)]]
      /\ \A r \in Rings \ {ring} : ringKeys'[r] = ringKeys[r]
  <2>1. [p \in RingPages |-> ringKeys[ring][p] \o pushed(p)] \in [RingPages -> Seq(Keys)]
    BY <1>1, <1>3
  <2> QED BY <1>1, <1>2, <2>1
<1>6. ASSUME NEW m \in 1..n
      PROVE  members'[entering[m]]
               = Included(ring, (old + m - 1) \div PageSize, (old + m - 1) % PageSize)
  <2>1. entering[m] \in Keys /\ entering[m] \in Range(entering) /\ m \in DOMAIN entering
    BY ListRange
  <2>2. \A j \in DOMAIN entering : entering[j] = entering[m] => j = m
    BY ListRange
  <2>3. (CHOOSE j \in DOMAIN entering : entering[j] = entering[m]) = m
    BY <2>1, <2>2
  <2> QED BY <1>2, <2>1, <2>3
<1>7. /\ \A k \in Keys \ Range(entering) : members'[k] = members[k]
      /\ members' = [k \in Keys |-> members'[k]]
  BY <1>2
<1>8. \A p \in RingPages : PageFill(old, p) <= PageFill(old + n, p)
  BY <1>3
<1> QED BY <1>3, <1>4, <1>5, <1>6, <1>7, <1>8 DEF old, ring

\* A position names one slot.
LEMMA SameSlot ==
  \A r, p, s, r2, p2, s2 :
    Included(r, p, s) = Included(r2, p2, s2) => r = r2 /\ p = p2 /\ s = s2
BY DEF Included

\* A root commits to the same keys as long as the slots it covers hold the
\* same keys.
LEMMA SameKeysBetween ==
  ASSUME NEW r, NEW to,
         \A g \in 0..(to - 1) :
           /\ g % PageSize < Len(ringKeys'[r][g \div PageSize])
                <=> g % PageSize < Len(ringKeys[r][g \div PageSize])
           /\ g % PageSize < Len(ringKeys[r][g \div PageSize])
                => ringKeys'[r][g \div PageSize][(g % PageSize) + 1]
                     = ringKeys[r][g \div PageSize][(g % PageSize) + 1]
  PROVE  {ringKeys'[r][g \div PageSize][(g % PageSize) + 1] :
            g \in {h \in 0..(to - 1) : h % PageSize < Len(ringKeys'[r][h \div PageSize])}}
           = KeysBetween(r, 0, to)
BY DEF KeysBetween

\* What has to be shown of the roots after a step.
LEMMA RootsIntro ==
  ASSUME DOMAIN root' \subseteq DOMAIN ringStatus',
         \A r \in Rings :
           IF r \in DOMAIN root'
             THEN root'[r].keys =
                    {ringKeys'[r][g \div PageSize][(g % PageSize) + 1] :
                       g \in {h \in 0..(Status(r)'.included - 1) :
                                h % PageSize < Len(ringKeys'[r][h \div PageSize])}}
             ELSE Status(r)'.included = 0
  PROVE  RootsInv'
BY DEF RootsInv, RootCommits, KeysBetween

\* A list of keys that waited enters the current ring: what becomes of the
\* members, the rings, the counters and the roots.
LEMMA EnterStep ==
  ASSUME MembersInv, Live, NEW entering \in Seq(Keys), IsInjective(entering),
         \A k \in Range(entering) : members[k].at = "Onboarding",
         Status(currentRingIndex).total + Len(entering) <= RingCapacity,
         EnterRing(currentRingIndex, entering),
         UNCHANGED <<collection, pendingSuspensions, ringDeletionQueue, root>>
  PROVE  /\ members' \in [Keys -> Positions]
         /\ \A k \in Range(entering) : members'[k].at = "Included"
         /\ \A k \in Keys \ Range(entering) : members'[k] = members[k]
         /\ ringKeys' \in [Rings -> [RingPages -> Seq(Keys)]]
         /\ IsPartialFunction(ringStatus', Rings, StatusType)
         /\ currentRingIndex' \in Rings /\ staleRings' \subseteq Rings
         /\ SlotsInv' /\ RingsInv' /\ ActiveInv' /\ RootsInv' /\ StaleInv'
<1> DEFINE ring == currentRingIndex
           old == Status(ring).total
           n == Len(entering)
           gdiv(g) == g \div PageSize
           gmod(g) == g % PageSize
<1>1. MemberTypes /\ SlotsInv /\ RingsInv /\ ActiveInv /\ RootsInv /\ StaleInv
      /\ collection = "Live" /\ collection' = "Live"
  BY DEF MembersInv, Live
<1>2. /\ ring \in Rings /\ ring \in Int /\ old \in Nat /\ n \in Nat /\ old + n <= RingCapacity
      /\ old < RingCapacity /\ ~Status(ring).immutable /\ Status(ring) \in StatusType
      /\ \A p \in RingPages : Len(ringKeys[ring][p]) = PageFill(old, p)
      /\ \A x \in ringDeletionQueue : x[1] # ring
      /\ members \in [Keys -> Positions] /\ ringKeys \in [Rings -> [RingPages -> Seq(Keys)]]
  BY <1>1, CurrentRing, StatusFacts DEF MemberTypes, Rings
<1>3. /\ ringKeys' \in [Rings -> [RingPages -> Seq(Keys)]]
      /\ \A r \in Rings \ {ring} : ringKeys'[r] = ringKeys[r]
      /\ \A p \in RingPages :
           /\ PageFill(old, p) \in Nat
           /\ PageFill(old, p) <= PageFill(old + n, p)
           /\ PageFill(old + n, p) <= PageSize
           /\ Len(ringKeys'[ring][p]) = PageFill(old + n, p)
           /\ \A i \in 1..PageFill(old, p) : ringKeys'[ring][p][i] = ringKeys[ring][p][i]
           /\ \A i \in (PageFill(old, p) + 1)..PageFill(old + n, p) :
                /\ p * PageSize + i - old \in 1..n
                /\ ringKeys'[ring][p][i] = entering[p * PageSize + i - old]
      /\ \A m \in 1..n : members'[entering[m]] = Included(ring, gdiv(old + m - 1), gmod(old + m - 1))
      /\ \A k \in Keys \ Range(entering) : members'[k] = members[k]
      /\ members' = [k \in Keys |-> members'[k]]
  BY Entered
<1>4. LET filled == Full(old + n) IN
      /\ filled => ring < MaxRingIndex
      /\ ringStatus' = Insert(ringStatus, ring, [Status(ring) EXCEPT !.total = old + n])
      /\ activeMembers' = activeMembers + n
      /\ staleRings' = staleRings \cup {ring}
      /\ currentRingIndex' = IF filled THEN ring + 1 ELSE ring
  BY DEF EnterRing
<1> HIDE DEF old
<1>5. PICK v : /\ v = [Status(ring) EXCEPT !.total = old + n] /\ v \in StatusType
               /\ v.total = old + n /\ v.included = Status(ring).included
               /\ v.immutable = FALSE
  <2>1. PICK t \in 0..RingCapacity : t = old + n
    BY <1>2, PagesOfRing
  <2>2. PICK s \in StatusType : s = Status(ring) /\ ~s.immutable
    BY <1>2
  <2>3. /\ [s EXCEPT !.total = t] \in StatusType
        /\ [s EXCEPT !.total = t].total = t /\ [s EXCEPT !.total = t].included = s.included
        /\ [s EXCEPT !.total = t].immutable = FALSE
    BY ONLY s \in StatusType, t \in 0..RingCapacity, <2>2 DEF StatusType
  <2> QED BY <2>1, <2>2, <2>3, Zenon
<1>6. /\ DOMAIN ringStatus' = DOMAIN ringStatus \cup {ring} /\ ringStatus'[ring] = v
      /\ \A r \in DOMAIN ringStatus \ {ring} : ringStatus'[r] = ringStatus[r]
  BY <1>4, <1>5 DEF Insert
<1>7. Status(ring).included <= old /\ Status(ring).included \in Nat
  <2>1. CASE ring \in DOMAIN ringStatus
    BY <1>1, <1>2, <2>1, StatusFacts DEF RingsInv, old
  <2>2. CASE ring \notin DOMAIN ringStatus
    BY <1>1, <1>2, <2>2, StatusFacts DEF old
  <2> QED BY <2>1, <2>2
\* The slots of the new keys.
<1>8. ASSUME NEW m \in 1..n
      PROVE  LET g == old + m - 1 IN
             /\ gdiv(g) \in RingPages /\ gmod(g) \in Nat
             /\ gmod(g) + 1 \in (PageFill(old, gdiv(g)) + 1)..PageFill(old + n, gdiv(g))
             /\ ringKeys'[ring][gdiv(g)][gmod(g) + 1] = entering[m]
  <2>1. PICK g \in Nat : g = old + m - 1 /\ g < old + n /\ ~(g < old) /\ g + 1 - old = m
    BY <1>2
  <2>2. PICK p \in Nat, s \in 0..(PageSize - 1) : p = gdiv(g) /\ s = gmod(g) /\ g = p * PageSize + s
    BY SlotPage
  <2>3. s < PageFill(old + n, p) /\ ~(s < PageFill(old, p))
    BY <1>2, <2>1, <2>2, SlotFilled
  <2>4. p \in RingPages
    <3>1. old + n \in 0..RingCapacity
      BY <1>2, PagesOfRing
    <3>2. PageFill(old + n, p) # 0
      <4>1. p * PageSize \in Nat /\ PageFill(old + n, p) \in Int
        BY <1>2, PageFillCases, PagesOfRing
      <4> QED BY <2>2, <2>3, <4>1
    <3> QED BY <3>1, <3>2, PagesQueued
  <2>5. PICK f \in Nat, h \in Nat : f = PageFill(old, p) /\ h = PageFill(old + n, p)
    <3>1. PageFill(old, p) \in Nat /\ Len(ringKeys'[ring][p]) \in Nat
      BY <1>2, <1>3, <2>4
    <3> QED BY <1>3, <2>4, <3>1
  <2>6. s + 1 \in (f + 1)..h
    BY <2>3, <2>5
  <2>7. p * PageSize + (s + 1) - old = m
    <3>1. PICK q \in Nat : q = p * PageSize
      BY PagesOfRing
    <3>2. old \in Nat /\ g = q + s /\ g + 1 - old = m
      BY <1>2, <2>1, <2>2, <3>1
    <3>3. q + (s + 1) - old = m
      BY ONLY q \in Nat, s \in 0..(PageSize - 1), <3>2, g \in Nat
    <3> QED BY <3>1, <3>3
  <2>8. ringKeys'[ring][p][s + 1] = entering[m]
    BY <1>3, <2>4, <2>5, <2>6, <2>7
  <2> QED BY <2>1, <2>2, <2>4, <2>5, <2>6, <2>8
<1>9. members' \in [Keys -> Positions] /\ \A k \in Range(entering) : members'[k].at = "Included"
  <2>1. ASSUME NEW k \in Range(entering)
        PROVE  members'[k] \in Positions /\ members'[k].at = "Included"
    <3>1. PICK m \in 1..n : entering[m] = k
      BY ListRange
    <3>2. PICK p \in RingPages, s \in Nat : members'[k] = Included(ring, p, s)
      BY <1>3, <1>8, <3>1
    <3> QED BY <1>2, <3>2, PositionType, PositionFacts
  <2>2. \A k \in Keys : members'[k] \in Positions
    BY <1>2, <1>3, <2>1
  <2>3. members' = [k \in Keys |-> members'[k]]
    BY <1>3
  <2>4. members' \in [Keys -> Positions]
    BY ONLY <2>2, <2>3
  <2> QED BY <2>1, <2>4
<1>10. currentRingIndex' \in Rings /\ currentRingIndex <= currentRingIndex'
       /\ staleRings' \subseteq Rings /\ IsPartialFunction(ringStatus', Rings, StatusType)
  <2>1. currentRingIndex' \in Rings /\ currentRingIndex <= currentRingIndex'
    BY <1>2, <1>4, MembersAssumption DEF Rings
  <2>2. IsPartialFunction(ringStatus', Rings, StatusType)
    BY <1>1, <1>2, <1>4, <1>5, InsertType DEF MemberTypes
  <2> QED BY <1>1, <1>2, <1>4, <2>1, <2>2 DEF MemberTypes
\* Where a new key is, and what is found there.
<1>11. ASSUME NEW k \in Range(entering)
       PROVE  \E p \in RingPages, s \in Nat :
                /\ members'[k] = Included(ring, p, s)
                /\ s + 1 \in (PageFill(old, p) + 1)..PageFill(old + n, p)
                /\ ringKeys'[ring][p][s + 1] = k
  <2>1. PICK m \in 1..n : entering[m] = k
    BY ListRange
  <2>2. PICK p, s : p = gdiv(old + m - 1) /\ s = gmod(old + m - 1)
    OBVIOUS
  <2>3. members'[k] = Included(ring, p, s)
    BY <1>3, <2>1, <2>2
  <2>4. /\ p \in RingPages /\ s \in Nat
        /\ s + 1 \in (PageFill(old, p) + 1)..PageFill(old + n, p)
        /\ ringKeys'[ring][p][s + 1] = k
    BY <1>8, <2>1, <2>2
  <2> QED BY <2>3, <2>4
\* What is found on a page after the step.
<1>12. ASSUME NEW p \in RingPages, NEW i \in DOMAIN ringKeys'[ring][p]
       PROVE  /\ i \in 1..PageFill(old + n, p)
              /\ i \in 1..PageFill(old, p) \/ i \in (PageFill(old, p) + 1)..PageFill(old + n, p)
              /\ i \in 1..PageFill(old, p) =>
                   i \in DOMAIN ringKeys[ring][p] /\ ringKeys'[ring][p][i] = ringKeys[ring][p][i]
              /\ i \in (PageFill(old, p) + 1)..PageFill(old + n, p) =>
                   /\ ringKeys'[ring][p][i] \in Range(entering)
                   /\ members'[ringKeys'[ring][p][i]] = Included(ring, p, i - 1)
  <2>1. PICK f \in Nat, h \in Nat : /\ f = PageFill(old, p) /\ h = PageFill(old + n, p)
                                    /\ f <= h /\ h <= PageSize
    <3>1. Len(ringKeys'[ring][p]) \in Nat
      BY <1>2, <1>3
    <3> QED BY <1>3, <3>1
  <2>2. ringKeys[ring][p] \in Seq(Keys) /\ ringKeys'[ring][p] \in Seq(Keys)
    BY <1>2, <1>3
  <2>3. DOMAIN ringKeys'[ring][p] = 1..h /\ DOMAIN ringKeys[ring][p] = 1..f
    BY <1>2, <1>3, <2>1, <2>2
  <2>4. i \in 1..h /\ (i \in 1..f \/ i \in (f + 1)..h)
    BY <2>1, <2>3
  <2>5. i \in 1..f => ringKeys'[ring][p][i] = ringKeys[ring][p][i]
    BY <1>3, <2>1
  <2>6. ASSUME i \in (f + 1)..h
        PROVE  /\ ringKeys'[ring][p][i] \in Range(entering)
               /\ members'[ringKeys'[ring][p][i]] = Included(ring, p, i - 1)
    <3>1. PICK m \in 1..n : m = p * PageSize + i - old /\ ringKeys'[ring][p][i] = entering[m]
      BY <1>3, <2>1, <2>6
    <3>2. PICK q \in Nat : q = p * PageSize
      BY PagesOfRing
    <3>3. old \in Nat /\ i \in Int /\ m = q + i - old
      BY <1>2, <2>4, <3>1, <3>2
    <3>4. old + m - 1 = q + (i - 1)
      BY ONLY q \in Nat, m \in 1..n, <3>3
    <3>5. i - 1 \in 0..(PageSize - 1) /\ p \in Nat
      BY <2>1, <2>4, PagesOfRing
    <3>6. gdiv(p * PageSize + (i - 1)) = p /\ gmod(p * PageSize + (i - 1)) = i - 1
      BY <3>5, SlotUnique
    <3>7. gdiv(old + m - 1) = p /\ gmod(old + m - 1) = i - 1
      BY <3>2, <3>4, <3>6, Zenon
    <3>8. members'[entering[m]] = Included(ring, p, i - 1)
      BY <1>3, <3>7
    <3>9. entering[m] \in Range(entering)
      BY ListRange
    <3> QED BY <3>1, <3>8, <3>9
  <2> QED BY <2>1, <2>3, <2>4, <2>5, <2>6
<1> HIDE DEF gdiv, gmod
<1>13. SlotsInv'
  <2>1. ASSUME NEW r \in Rings, NEW p \in RingPages, NEW i \in DOMAIN ringKeys'[r][p]
        PROVE  members'[ringKeys'[r][p][i]] = Included(r, p, i - 1)
                 <=> ~(p = 0 /\ i - 1 \in pendingSuspensions'[r])
    <3> DEFINE x == ringKeys'[r][p][i]
    <3>1. CASE ringKeys'[r][p][i] = ringKeys[r][p][i] /\ i \in DOMAIN ringKeys[r][p]
               /\ (r = ring => i \in 1..PageFill(old, p))
      <4>1. x \in Keys /\ i \in Nat
        BY <1>2, <3>1
      <4>2. members[x] = Included(r, p, i - 1) <=> ~(p = 0 /\ i - 1 \in pendingSuspensions[r])
        BY <1>1, <3>1 DEF SlotsInv, SlotsExact
      <4>3. members'[x] = Included(r, p, i - 1) <=> members[x] = Included(r, p, i - 1)
        <5>1. CASE x \in Range(entering)
          <6>1. members[x] # Included(r, p, i - 1)
            BY <5>1, PositionFacts
          <6>2. PICK q \in RingPages, s \in Nat :
                  /\ members'[x] = Included(ring, q, s)
                  /\ s + 1 \in (PageFill(old, q) + 1)..PageFill(old + n, q)
            BY <1>11, <5>1
          <6>3. SUFFICES ASSUME members'[x] = Included(r, p, i - 1) PROVE FALSE
            BY <6>1
          <6>4. r = ring /\ q = p /\ s = i - 1
            <7>1. PICK j : j = i - 1 /\ Included(ring, q, s) = Included(r, p, j)
              BY <6>2, <6>3
            <7>2. ring = r /\ q = p /\ s = j
              BY ONLY <7>1 DEF Included
            <7> QED BY <7>1, <7>2
          <6>5. PageFill(old, p) \in Nat /\ s + 1 >= PageFill(old, p) + 1 /\ i <= PageFill(old, p)
            BY <1>3, <3>1, <6>2, <6>4
          <6> QED BY <4>1, <6>4, <6>5
        <5>2. CASE x \notin Range(entering)
          BY <1>3, <4>1, <5>2
        <5> QED BY <5>1, <5>2
      <4> QED BY <4>2, <4>3
    <3>2. CASE r = ring /\ i \in (PageFill(old, p) + 1)..PageFill(old + n, p)
      <4>1. members'[x] = Included(r, p, i - 1)
        BY <1>12, <3>2
      <4>2. ASSUME p = 0, i - 1 \in pendingSuspensions[ring] PROVE FALSE
        <5>1. i - 1 < PageFill(old, 0)
          BY <1>1, <1>2, <4>2, PagesOfRing DEF SlotsInv
        <5>2. PageFill(old, 0) \in Nat /\ i \in Int /\ i >= PageFill(old, 0) + 1
          BY <1>3, <3>2, <4>2
        <5> QED BY <5>1, <5>2
      <4> QED BY <3>2, <4>1, <4>2
    <3>3. CASE r # ring
      BY <1>3, <3>1, <3>3
    <3> QED BY <1>12, <3>1, <3>2, <3>3
  <2>2. ASSUME NEW k \in Keys, members'[k].at = "Included"
        PROVE  LET page == ringKeys'[members'[k].ring][members'[k].page]
               IN members'[k].slot + 1 \in DOMAIN page /\ page[members'[k].slot + 1] = k
    <3>1. CASE k \in Range(entering)
      <4>1. PICK p \in RingPages, s \in Nat :
              /\ members'[k] = Included(ring, p, s)
              /\ s + 1 \in (PageFill(old, p) + 1)..PageFill(old + n, p)
              /\ ringKeys'[ring][p][s + 1] = k
        BY <1>11, <3>1
      <4>2. members'[k].ring = ring /\ members'[k].page = p /\ members'[k].slot = s
        BY <4>1, PositionFacts
      <4>3. DOMAIN ringKeys'[ring][p] = 1..PageFill(old + n, p)
        BY <1>2, <1>3
      <4>4. s + 1 \in 1..PageFill(old + n, p)
        BY <1>3, <4>1
      <4> QED BY <4>1, <4>2, <4>3, <4>4
    <3>2. CASE k \notin Range(entering)
      <4>1. members'[k] = members[k] /\ members[k].at = "Included"
        BY <1>3, <2>2, <3>2
      <4>2. PICK r \in Rings, p \in RingPages, s \in Nat :
              r = members[k].ring /\ p = members[k].page /\ s = members[k].slot
        BY <1>2, <4>1, PositionCases
      <4>3. s + 1 \in DOMAIN ringKeys[r][p] /\ ringKeys[r][p][s + 1] = k
        BY <1>1, <4>1, <4>2 DEF SlotsInv, SlotsExact
      <4>4. CASE r = ring
        <5>1. ringKeys[ring][p] \in Seq(Keys) /\ ringKeys'[ring][p] \in Seq(Keys)
          BY <1>2, <1>3
        <5>2. PICK f \in Nat, h \in Int : /\ f = PageFill(old, p) /\ h = PageFill(old + n, p)
                                          /\ f <= h
          <6>1. Len(ringKeys'[ring][p]) \in Nat
            BY <5>1
          <6> QED BY <1>3, <6>1
        <5>3. s + 1 \in 1..f
          BY <1>2, <4>3, <4>4, <5>1, <5>2
        <5>4. s + 1 \in 1..h /\ DOMAIN ringKeys'[ring][p] = 1..h
          BY <1>3, <5>1, <5>2, <5>3
        <5>5. ringKeys'[ring][p][s + 1] = k
          BY <1>3, <4>3, <4>4, <5>2, <5>3
        <5> QED BY <4>1, <4>2, <4>4, <5>4, <5>5
      <4>5. CASE r # ring
        BY <1>3, <4>1, <4>2, <4>3, <4>5
      <4> QED BY <4>4, <4>5
    <3> QED BY <3>1, <3>2
  <2>3. ASSUME NEW r \in Rings, NEW s \in pendingSuspensions'[r]
        PROVE  s < Len(ringKeys'[r][0])
    <3>1. s < Len(ringKeys[r][0]) /\ s \in Nat
      BY <1>1, <2>3 DEF SlotsInv, MemberTypes
    <3>2. CASE r = ring
      <4>1. /\ Len(ringKeys[r][0]) = PageFill(old, 0) /\ PageFill(old, 0) \in Nat
            /\ Len(ringKeys'[r][0]) = PageFill(old + n, 0)
            /\ PageFill(old, 0) <= PageFill(old + n, 0)
        BY <1>2, <1>3, <3>2, PagesOfRing
      <4>2. Len(ringKeys'[r][0]) \in Nat
        BY <1>3, PagesOfRing
      <4> QED BY <3>1, <4>1, <4>2
    <3>3. CASE r # ring
      BY <1>3, <3>1, <3>3
    <3> QED BY <3>2, <3>3
  <2> QED BY <2>1, <2>2, <2>3 DEF SlotsInv, SlotsExact
<1>14. RingsInv'
  <2>1. ASSUME NEW r \in DOMAIN ringStatus'
        PROVE  /\ ringStatus'[r].included <= ringStatus'[r].total
               /\ \A p \in RingPages : Len(ringKeys'[r][p]) = PageFill(ringStatus'[r].total, p)
               /\ AppendOnly => r <= currentRingIndex'
               /\ currentRingIndex' <= r => ringStatus'[r].total < RingCapacity
               /\ ringStatus'[r].immutable =>
                    /\ AppendOnly
                    /\ ringStatus'[r].included = RingCapacity
                    /\ ringStatus'[r].total = RingCapacity
    <3>1. CASE r = ring
      <4>1. ringStatus'[r].included <= ringStatus'[r].total
        <5>1. PICK a \in Nat, b \in Nat, c \in Nat : a = Status(ring).included /\ b = old /\ c = n
          BY <1>2, <1>7
        <5>2. v.included = a /\ v.total = b + c /\ a <= b
          BY <1>5, <1>7, <5>1
        <5>3. v.included <= v.total
          BY ONLY a \in Nat, b \in Nat, c \in Nat, <5>2
        <5> QED BY <1>6, <3>1, <5>3
      <4>2. r <= currentRingIndex'
        BY <1>10, <3>1
      <4>3. currentRingIndex' <= r => ringStatus'[r].total < RingCapacity
        <5>1. old + n >= RingCapacity \/ old + n < RingCapacity
          BY <1>2, PagesOfRing
        <5>2. ringStatus'[r].total = old + n
          BY <1>5, <1>6, <3>1
        <5>3. old + n >= RingCapacity => currentRingIndex' = ring + 1
          BY <1>4 DEF Full
        <5>4. ~(ring + 1 <= ring)
          BY <1>2
        <5> QED BY <3>1, <5>1, <5>2, <5>3, <5>4, Zenon
      <4> QED BY <1>3, <1>5, <1>6, <3>1, <4>1, <4>2, <4>3
    <3>2. CASE r # ring
      <4>1. r \in DOMAIN ringStatus /\ ringStatus'[r] = ringStatus[r] /\ r \in Rings
            /\ ringKeys'[r] = ringKeys[r]
        BY <1>1, <1>3, <1>6, <3>2 DEF MemberTypes, IsPartialFunction
      <4>2. r \in Int /\ currentRingIndex' \in Int
        BY <1>10, <4>1 DEF Rings
      <4>3. AppendOnly => r <= currentRingIndex'
        BY <1>1, <1>2, <1>10, <4>1, <4>2 DEF RingsInv
      <4>4. currentRingIndex' <= r => ringStatus'[r].total < RingCapacity
        BY <1>1, <1>2, <1>10, <4>1, <4>2 DEF RingsInv
      <4> QED BY <1>1, <4>1, <4>3, <4>4 DEF RingsInv
    <3> QED BY <3>1, <3>2
  <2>2. ASSUME NEW r \in Rings \ DOMAIN ringStatus', NEW p \in RingPages,
               ringKeys'[r][p] # <<>>
        PROVE  <<r, p>> \in ringDeletionQueue'
    <3>1. r # ring /\ r \notin DOMAIN ringStatus /\ ringKeys'[r] = ringKeys[r]
      BY <1>3, <1>6
    <3> QED BY <1>1, <2>2, <3>1 DEF RingsInv
  <2>3. ASSUME NEW x \in ringDeletionQueue'
        PROVE  x[1] \notin DOMAIN ringStatus' /\ x[1] < currentRingIndex'
    <3>1. /\ x \in ringDeletionQueue /\ x[1] # ring /\ x[1] \notin DOMAIN ringStatus
          /\ x[1] < ring
      BY <1>1, <1>2 DEF RingsInv
    <3>2. x[1] \in Int /\ currentRingIndex' \in Int
      BY <1>1, <1>10, <3>1 DEF MemberTypes, Rings
    <3> QED BY <1>2, <1>6, <1>10, <3>1, <3>2
  <2> QED BY <2>1, <2>2, <2>3 DEF RingsInv
<1>15. ActiveInv'
  <2>1. old = IF ring \in DOMAIN ringStatus THEN ringStatus[ring].total ELSE 0
    BY DEF old, Status, NoStatus
  <2>2. /\ activeMembers = SumOfTotals(ringStatus)
        /\ IsPartialFunction(ringStatus, Rings, StatusType)
        /\ ringStatus' = Insert(ringStatus, ring, v)
    BY <1>1, <1>4, <1>5 DEF MemberTypes, ActiveInv
  <2>3. /\ activeMembers \in Nat
        /\ SumOfTotals(ringStatus') = activeMembers - old + v.total
    <3>1. activeMembers \in Nat
          /\ \A w \in StatusType : SumOfTotals(Insert(ringStatus, ring, w)) = activeMembers - old + w.total
      BY <1>2, <2>1, <2>2, SumAfter
    <3> QED BY <1>5, <2>2, <3>1, Zenon
  <2> QED BY <1>2, <1>4, <1>5, <2>3 DEF ActiveInv
<1>16. RootsInv'
  <2>1. \A r : Status(r)' = IF r = ring THEN v ELSE Status(r)
    BY <1>6 DEF Status
  <2>2. ASSUME NEW r \in Rings
        PROVE  IF r \in DOMAIN root'
                 THEN root'[r].keys =
                        {ringKeys'[r][g \div PageSize][(g % PageSize) + 1] :
                           g \in {h \in 0..(Status(r)'.included - 1) :
                                    h % PageSize < Len(ringKeys'[r][h \div PageSize])}}
                 ELSE Status(r)'.included = 0
    <3>1. Status(r)'.included = Status(r).included
      BY <1>5, <2>1
    <3>2. PICK to : to = Status(r).included
      OBVIOUS
    <3>3. IF r \in DOMAIN root THEN root[r].keys = KeysBetween(r, 0, to) ELSE to = 0
      BY <1>1, <3>2 DEF RootsInv, RootCommits
    <3>4. {ringKeys'[r][g \div PageSize][(g % PageSize) + 1] :
             g \in {h \in 0..(to - 1) : h % PageSize < Len(ringKeys'[r][h \div PageSize])}}
            = KeysBetween(r, 0, to)
      <4>1. CASE r = ring
        <5>1. to \in Nat /\ to <= old
          BY <1>7, <3>2, <4>1
        <5>2. ASSUME NEW g \in 0..(to - 1)
              PROVE  /\ g % PageSize < Len(ringKeys'[r][g \div PageSize])
                           <=> g % PageSize < Len(ringKeys[r][g \div PageSize])
                     /\ g % PageSize < Len(ringKeys[r][g \div PageSize])
                           => ringKeys'[r][g \div PageSize][(g % PageSize) + 1]
                                = ringKeys[r][g \div PageSize][(g % PageSize) + 1]
          <6>1. g \in Nat /\ g < old
            BY <1>2, <5>1
          <6>2. PICK p \in Nat, s \in 0..(PageSize - 1) :
                  p = g \div PageSize /\ s = g % PageSize /\ g = p * PageSize + s
            BY <6>1, SlotPage
          <6>3. s < PageFill(old, p)
            BY <1>2, <6>1, <6>2, SlotFilled
          <6>4. p \in RingPages
            <7>1. old \in 0..RingCapacity
              BY <1>2, PagesOfRing
            <7>2. PageFill(old, p) # 0
              <8>1. PageFill(old, p) \in Int /\ s \in Nat
                <9>1. p * PageSize \in Nat
                  BY PagesOfRing
                <9> QED BY <1>2, <9>1, PageFillCases, PagesOfRing
              <8> QED BY <6>3, <8>1
            <7> QED BY <7>1, <7>2, PagesQueued
          <6>5. PICK f \in Nat, h \in Nat : f = PageFill(old, p) /\ h = PageFill(old + n, p) /\ f <= h
            <7>1. Len(ringKeys'[ring][p]) \in Nat
              BY <1>3, <6>4
            <7> QED BY <1>3, <6>4, <7>1
          <6>6. Len(ringKeys[r][p]) = f /\ Len(ringKeys'[r][p]) = h /\ s < f /\ s < h
            BY <1>2, <1>3, <4>1, <6>3, <6>4, <6>5
          <6>7. s + 1 \in 1..f
            BY <6>6
          <6>8. ringKeys'[r][p][s + 1] = ringKeys[r][p][s + 1]
            BY <1>3, <4>1, <6>4, <6>5, <6>7
          <6> QED BY <6>2, <6>6, <6>8
        <5> QED BY <5>2, SameKeysBetween
      <4>2. CASE r # ring
        BY <1>3, <4>2 DEF KeysBetween
      <4> QED BY <4>1, <4>2
    <3> QED BY <3>1, <3>2, <3>3, <3>4
  <2>3. DOMAIN root' \subseteq DOMAIN ringStatus'
    BY <1>1, <1>6 DEF RootsInv
  <2> QED BY <2>2, <2>3, RootsIntro
<1>17. StaleInv'
  BY <1>1, <1>4, <1>6 DEF StaleInv
<1> QED BY <1>3, <1>9, <1>10, <1>13, <1>14, <1>15, <1>16, <1>17

\* The queue's window keeps its pages when its head moves one page on.
LEMMA WindowAdvance ==
  ASSUME NEW h \in QueueIndices, NEW t \in QueueIndices, NEW p \in QueueIndices,
         h # t, p # h, Ahead(p, h, QueuePages) <= Ahead(t, h, QueuePages)
  PROVE  Ahead(p, NextPage(h), QueuePages) <= Ahead(t, NextPage(h), QueuePages)
<1> DEFINE n == QueuePages
<1>1. n \in Nat \ {0} /\ h \in 0..(n - 1) /\ p \in 0..(n - 1) /\ t \in 0..(n - 1)
  BY WindowAhead DEF QueueIndices
<1>2. /\ Ahead(p, NextPage(h), n) = Ahead(p, h, n) - 1
      /\ Ahead(t, NextPage(h), n) = Ahead(t, h, n) - 1
  BY <1>1, WrapShrinks DEF NextPage
<1>3. Ahead(p, h, n) \in Nat /\ Ahead(t, h, n) \in Nat
  BY WindowAhead
<1> QED BY <1>2, <1>3

\* What has to be shown of the queue when keys that waited enter the current
\* ring.
LEMMA LeaveQueue ==
  ASSUME MembersInv, Live, NEW entering \in Seq(Keys), IsInjective(entering),
         \A k \in Range(entering) : members[k].at = "Onboarding",
         Status(currentRingIndex).total + Len(entering) <= RingCapacity,
         EnterRing(currentRingIndex, entering),
         UNCHANGED <<configVars, pendingSuspensions, ringDeletionQueue, rootVars>>,
         IsPartialFunction(onboardingQueue', QueueIndices, Seq(Keys)),
         NEW h \in QueueIndices, NEW t \in QueueIndices, queuePageIndices' = <<h, t>>,
         \A p \in DOMAIN onboardingQueue' :
           Ahead(p, h, QueuePages) <= Ahead(t, h, QueuePages),
         \A p \in DOMAIN onboardingQueue' : IsInjective(Queued(p)'),
         \A k \in Keys, p \in QueueIndices :
           k \in Range(Queued(p)') <=> k \in Range(Queued(p)) /\ k \notin Range(entering)
  PROVE  MembersInv'
<1>1. UNCHANGED <<collection, sessions, pendingSuspensions, ringDeletionQueue, root>>
  BY DEF configVars, rootVars
<1>2. /\ members' \in [Keys -> Positions]
      /\ \A k \in Range(entering) : members'[k].at = "Included"
      /\ \A k \in Keys \ Range(entering) : members'[k] = members[k]
      /\ ringKeys' \in [Rings -> [RingPages -> Seq(Keys)]]
      /\ IsPartialFunction(ringStatus', Rings, StatusType)
      /\ currentRingIndex' \in Rings /\ staleRings' \subseteq Rings
      /\ SlotsInv' /\ RingsInv' /\ ActiveInv' /\ RootsInv' /\ StaleInv'
  BY <1>1, EnterStep
<1>3. MemberTypes /\ ModeInv /\ QueueExact /\ collection = "Live"
  BY DEF MembersInv, Live
<1>4. MemberTypes'
  BY <1>1, <1>2, <1>3 DEF MemberTypes
<1>5. ModeInv' /\ NoneInv'
  BY <1>1, <1>3 DEF ModeInv, NoneInv
<1>6. QueueExact'
  <2>1. ASSUME NEW k \in Keys, NEW p \in QueueIndices
        PROVE  k \in Range(Queued(p)') <=> members'[k] = Onboarding(p)
    <3>1. k \in Range(Queued(p)) <=> members[k] = Onboarding(p)
      BY <1>3, QueueFacts
    <3>2. CASE k \in Range(entering)
      BY <1>2, <3>2, PositionFacts
    <3>3. CASE k \notin Range(entering)
      BY <1>2, <3>1, <3>3
    <3> QED BY <3>2, <3>3
  <2>2. DOMAIN onboardingQueue' \subseteq QueueIndices
    BY DEF IsPartialFunction
  <2> QED BY <2>1, <2>2, QueueIntro
<1> QED BY <1>2, <1>4, <1>5, <1>6 DEF MembersInv

\* `self_include`.
LEMMA SelfIncludeStep ==
  ASSUME MembersInv, NEW k \in Keys, self_include(k)
  PROVE  MembersInv'
<1> DEFINE page == members[k].page
           left == RemoveFirst(Queued(page), k)
           n == QueuePages
           h == IF left = <<>> /\ head = page /\ head # tail THEN NextPage(page) ELSE head
<1>1. /\ Live /\ members[k].at = "Onboarding" /\ k \in Range(Queued(page))
      /\ onboardingQueue' = IF left = <<>> THEN Without(onboardingQueue, page)
                                           ELSE Insert(onboardingQueue, page, left)
      /\ queuePageIndices' = <<h, tail>>
      /\ EnterRing(available_ring, <<k>>)
      /\ UNCHANGED <<configVars, pendingSuspensions, ringDeletionQueue, rootVars>>
  BY DEF self_include
<1>2. MemberTypes /\ QueueExact
  BY DEF MembersInv
<1>3. /\ head \in QueueIndices /\ tail \in QueueIndices
      /\ DOMAIN onboardingQueue \subseteq QueueIndices
      /\ \A p \in DOMAIN onboardingQueue : Ahead(p, head, n) <= Ahead(tail, head, n)
      /\ \A p : Queued(p) \in Seq(Keys) /\ IsInjective(Queued(p))
      /\ \A p : p \notin DOMAIN onboardingQueue => Queued(p) = <<>>
      /\ \A j \in Keys, p \in QueueIndices :
           j \in Range(Queued(p)) <=> members[j] = Onboarding(p)
  BY <1>2, QueueFacts
<1>4. page \in DOMAIN onboardingQueue /\ page \in QueueIndices
  <2>1. Range(<<>>) = {}
    BY DEF Range
  <2> QED BY <1>1, <1>3, <2>1
<1>5. left \in Seq(Keys) /\ IsInjective(left) /\ Range(left) = Range(Queued(page)) \ {k}
  BY <1>1, <1>3, RemoveFirstRange
<1> HIDE DEF page, left, h
<1>6. /\ DOMAIN onboardingQueue' \subseteq DOMAIN onboardingQueue
      /\ left = <<>> => page \notin DOMAIN onboardingQueue'
      /\ \A q : Queued(q)' = IF q = page THEN left ELSE Queued(q)
  <2>1. CASE left = <<>>
    BY <1>1, <2>1, QueuedAfter
  <2>2. CASE left # <<>>
    BY <1>1, <1>4, <2>2, QueuedAfter
  <2> QED BY <2>1, <2>2
<1>7. IsPartialFunction(onboardingQueue', QueueIndices, Seq(Keys))
  <2>1. IsPartialFunction(onboardingQueue, QueueIndices, Seq(Keys))
    BY <1>2 DEF MemberTypes
  <2> QED BY <1>1, <1>4, <1>5, <2>1, InsertType, WithoutType
<1>8. h \in QueueIndices
  BY <1>3, <1>4, WindowAhead DEF h
<1>9. \A p \in DOMAIN onboardingQueue' : Ahead(p, h, n) <= Ahead(tail, h, n)
  <2> TAKE p \in DOMAIN onboardingQueue'
  <2>1. p \in DOMAIN onboardingQueue /\ p \in QueueIndices
    BY <1>3, <1>6
  <2>2. CASE h = head
    BY <1>3, <2>1, <2>2
  <2>3. CASE h # head
    <3>1. left = <<>> /\ head = page /\ head # tail /\ h = NextPage(head)
      BY <2>3 DEF h
    <3>2. p # head
      BY <1>6, <3>1
    <3> QED BY <1>3, <2>1, <3>1, <3>2, WindowAdvance
  <2> QED BY <2>2, <2>3
<1>10. \A p \in DOMAIN onboardingQueue' : IsInjective(Queued(p)')
  BY <1>3, <1>5, <1>6
<1>11. PICK entering \in Seq(Keys) : /\ entering = <<k>> /\ IsInjective(entering)
                                     /\ Range(entering) = {k} /\ Len(entering) = 1
  <2>1. /\ <<k>> \in Seq(Keys) /\ Len(<<k>>) = 1 /\ Range(<<k>>) = {k} /\ IsInjective(<<k>>)
    BY DEF Range, IsInjective
  <2> QED BY <2>1
<1>12. \A j \in Keys, p \in QueueIndices :
         j \in Range(Queued(p)') <=> j \in Range(Queued(p)) /\ j \notin Range(entering)
  <2> TAKE j \in Keys, p \in QueueIndices
  <2>1. CASE p = page
    BY <1>5, <1>6, <1>11, <2>1
  <2>2. CASE p # page
    <3>1. k \notin Range(Queued(p))
      <4>1. members[k] = Onboarding(page) /\ Onboarding(page).page = page
        BY <1>1, <1>3, <1>4, PositionFacts
      <4>2. members[k] = Onboarding(p) => p = page
        BY <4>1, PositionFacts
      <4> QED BY <1>3, <2>2, <4>2
    <3> QED BY <1>6, <1>11, <2>2, <3>1
  <2> QED BY <2>1, <2>2
<1>13. /\ EnterRing(currentRingIndex, entering)
       /\ Status(currentRingIndex).total + Len(entering) <= RingCapacity
  <2>1. /\ available_ring = currentRingIndex /\ currentRingIndex \in Rings
        /\ Status(currentRingIndex).total < RingCapacity
    BY <1>1, CurrentRing
  <2>2. Status(currentRingIndex).total \in Nat
    BY <1>2, <2>1, StatusFacts
  <2> QED BY <1>1, <1>11, <2>1, <2>2, PagesOfRing
<1>14. \A j \in Range(entering) : members[j].at = "Onboarding"
  BY <1>1, <1>11
<1> QED
  BY <1>1, <1>3, <1>7, <1>8, <1>9, <1>10, <1>11, <1>12, <1>13, <1>14, LeaveQueue

\* A key waits on one page only.
LEMMA OnePage ==
  ASSUME MemberTypes, QueueExact, NEW k \in Keys,
         NEW p \in QueueIndices, k \in Range(Queued(p)),
         NEW q \in QueueIndices, k \in Range(Queued(q))
  PROVE  p = q
<1>1. members[k] = Onboarding(p) /\ members[k] = Onboarding(q)
  BY QueueFacts
<1>2. Onboarding(p).page = p /\ Onboarding(q).page = q
  BY PositionFacts
<1> QED BY <1>1, <1>2

\* The front of the queue is its head page, followed by the page behind it
\* when two are read.
LEMMA FrontParts ==
  ASSUME MemberTypes, QueueExact, NEW open \in Nat
  PROVE  LET second == IF ReadsTwoPages(open) THEN Queued(NextPage(head)) ELSE <<>> IN
         /\ second \in Seq(Keys) /\ FrontKeys(open) = Queued(head) \o second
         /\ IsConcat(Keys, Queued(head), second, FrontKeys(open))
         /\ FrontKeys(open) \in Seq(Keys) /\ IsInjective(FrontKeys(open))
         /\ Range(FrontKeys(open)) = Range(Queued(head)) \cup Range(second)
         /\ Range(Queued(head)) \cap Range(second) = {}
         /\ ReadsTwoPages(open) => /\ head # tail /\ Len(Queued(head)) < open
                                   /\ NextPage(head) \in QueueIndices /\ NextPage(head) # head
<1> DEFINE second == IF ReadsTwoPages(open) THEN Queued(NextPage(head)) ELSE <<>>
<1>1. /\ head \in QueueIndices
      /\ \A p : Queued(p) \in Seq(Keys) /\ IsInjective(Queued(p))
      /\ \A j \in Keys, p \in QueueIndices :
           j \in Range(Queued(p)) <=> members[j] = Onboarding(p)
  BY QueueFacts
<1>2. NextPage(head) \in QueueIndices /\ NextPage(head) # head
  BY <1>1, WindowAhead
<1>3. PICK a \in Seq(Keys), b \in Seq(Keys) :
        a = Queued(head) /\ b = second /\ IsInjective(a) /\ IsInjective(b)
  <2>1. <<>> \in Seq(Keys) /\ IsInjective(<<>>)
    BY DEF IsInjective
  <2> QED BY <1>1, <2>1
<1>4. Range(a) \cap Range(b) = {}
  <2>1. CASE ReadsTwoPages(open)
    <3>1. \A j \in Range(a) : j \in Keys
      BY ListRange
    <3>2. \A j \in Range(a) : members[j] = Onboarding(head) /\ j \in Keys
      BY <1>1, <1>3, <3>1
    <3>3. \A j \in Range(b) : j \in Keys
      BY ListRange
    <3>4. \A j \in Range(b) : members[j] = Onboarding(NextPage(head))
      BY <1>1, <1>2, <1>3, <2>1, <3>3
    <3>5. Onboarding(head) # Onboarding(NextPage(head))
      BY <1>2, PositionFacts
    <3> QED BY <3>2, <3>4, <3>5
  <2>2. CASE ~ReadsTwoPages(open)
    BY <1>3, <2>2 DEF Range
  <2> QED BY <2>1, <2>2
<1>5. PICK c : c = a \o b
  OBVIOUS
<1>6. IsConcat(Keys, a, b, c) /\ c \in Seq(Keys)
  BY <1>5, ConcatElements DEF IsConcat
<1>7. Range(c) = Range(a) \cup Range(b) /\ IsInjective(c)
  <2>1. IsInjective(a) /\ IsInjective(b) /\ IsConcat(Keys, a, b, c)
    BY <1>3, <1>6
  <2> QED BY ONLY a \in Seq(Keys), b \in Seq(Keys), <1>4, <2>1, PartsRange
<1>8. FrontKeys(open) = c
  BY <1>3, <1>5 DEF FrontKeys
<1>9. ReadsTwoPages(open) => head # tail /\ Len(Queued(head)) < open
  BY DEF ReadsTwoPages
<1> QED BY <1>2, <1>3, <1>4, <1>5, <1>6, <1>7, <1>8, <1>9

\* `onboard_members`.
LEMMA OnboardStep ==
  ASSUME MembersInv, OnboardMembers
  PROVE  MembersInv'
<1> DEFINE ring == currentRingIndex
           open == RingCapacity - Status(ring).total
           two == ReadsTwoPages(open)
           front == FrontKeys(open)
           toInclude == Min({Len(front), open})
           entering == SubSeq(front, 1, toInclude)
           remaining == SubSeq(front, toInclude + 1, Len(front))
           last == IF two THEN NextPage(head) ELSE head
           popped == Without(Without(onboardingQueue, head), last)
           n == QueuePages
           h == IF remaining = <<>> /\ last # tail THEN NextPage(last) ELSE last
           second == IF two THEN Queued(NextPage(head)) ELSE <<>>
<1>1. /\ Live /\ EnterRing(ring, entering)
      /\ onboardingQueue' = IF remaining # <<>> THEN Insert(popped, last, remaining)
                                                ELSE popped
      /\ queuePageIndices' = <<h, tail>>
      /\ UNCHANGED <<configVars, pendingSuspensions, ringDeletionQueue, rootVars>>
  BY DEF OnboardMembers
<1>2. MemberTypes /\ QueueExact
  BY DEF MembersInv
<1>3. /\ head \in QueueIndices /\ tail \in QueueIndices
      /\ DOMAIN onboardingQueue \subseteq QueueIndices
      /\ \A p \in DOMAIN onboardingQueue : Ahead(p, head, n) <= Ahead(tail, head, n)
      /\ \A p : Queued(p) \in Seq(Keys) /\ IsInjective(Queued(p))
      /\ \A p : p \notin DOMAIN onboardingQueue => Queued(p) = <<>>
      /\ \A j \in Keys, p \in QueueIndices :
           j \in Range(Queued(p)) <=> members[j] = Onboarding(p)
  BY <1>2, QueueFacts
<1>4. open \in Nat /\ Status(ring).total \in Nat /\ Status(ring).total + open = RingCapacity
  <2>1. ring \in Rings
    BY <1>2 DEF MemberTypes
  <2> QED BY <1>2, <2>1, StatusFacts, PagesOfRing
<1>5. /\ second \in Seq(Keys)
      /\ IsConcat(Keys, Queued(head), second, front)
      /\ front \in Seq(Keys) /\ IsInjective(front)
      /\ Range(front) = Range(Queued(head)) \cup Range(second)
      /\ Range(Queued(head)) \cap Range(second) = {}
      /\ two => /\ head # tail /\ Len(Queued(head)) < open
                /\ NextPage(head) \in QueueIndices /\ NextPage(head) # head
  BY <1>2, <1>4, FrontParts
<1> HIDE DEF open, front
<1>6. PICK m \in 0..Len(front) : /\ m = toInclude /\ m <= open
                                 /\ m = Len(front) \/ m = open
  <2>1. Len(front) \in Nat
    BY <1>5
  <2>2. toInclude = IF Len(front) <= open THEN Len(front) ELSE open
    BY <1>4, <2>1, MinOfTwo
  <2> QED BY <1>4, <2>1, <2>2
<1>7. /\ entering \in Seq(Keys) /\ Len(entering) = m
      /\ remaining \in Seq(Keys)
      /\ IsConcat(Keys, entering, remaining, front)
  <2>1. PICK s \in Seq(Keys) : s = front
    BY <1>5
  <2>2. /\ SubSeq(s, 1, m) \in Seq(Keys) /\ Len(SubSeq(s, 1, m)) = m
        /\ SubSeq(s, m + 1, Len(s)) \in Seq(Keys)
        /\ IsConcat(Keys, SubSeq(s, 1, m), SubSeq(s, m + 1, Len(s)), s)
    BY <2>1, CutElements
  <2>3. entering = SubSeq(s, 1, m) /\ remaining = SubSeq(s, m + 1, Len(s))
    BY <1>6, <2>1, Zenon
  <2> QED BY <2>1, <2>2, <2>3, Zenon
<1> HIDE DEF toInclude, entering, remaining, last, h, second, two
<1>8. /\ IsInjective(entering) /\ IsInjective(remaining)
      /\ Range(front) = Range(entering) \cup Range(remaining)
      /\ Range(entering) \cap Range(remaining) = {}
  BY ONLY <1>5, <1>7, PartsRange
\* Two pages are read only when the first one enters as a whole.
<1>9. two => Range(Queued(head)) \subseteq Range(entering)
  <2> SUFFICES ASSUME two, NEW k \in Range(Queued(head)) PROVE k \in Range(entering)
    OBVIOUS
  <2>1. PICK a \in Seq(Keys), w \in Nat : a = Queued(head) /\ w = Len(a)
    BY <1>3
  <2>2. w <= m
    <3>1. w < open
      BY <1>5, <2>1
    <3>2. Len(front) = w + Len(second) /\ Len(second) \in Nat
      BY <1>5, <2>1 DEF IsConcat
    <3> QED BY <1>4, <1>6, <3>1, <3>2
  <2>3. PICK i \in 1..w : a[i] = k
    BY <2>1, ListRange
  <2>4. i \in 1..m
    BY <2>2
  <2>5. front[i] = a[i] /\ front[i] = entering[i]
    BY <1>5, <1>7, <2>1, <2>4 DEF IsConcat
  <2> QED BY <1>7, <2>3, <2>4, <2>5, ListRange
<1>10. last \in QueueIndices /\ h \in QueueIndices
  BY <1>3, <1>5, WindowAhead DEF last, h
<1>11. /\ DOMAIN onboardingQueue' =
            (DOMAIN onboardingQueue \ {head, last})
              \cup (IF remaining # <<>> THEN {last} ELSE {})
       /\ \A q : Queued(q)' = IF q = last THEN remaining
                              ELSE IF q = head THEN <<>> ELSE Queued(q)
       /\ IsPartialFunction(onboardingQueue', QueueIndices, Seq(Keys))
  <2>1. /\ DOMAIN popped = DOMAIN onboardingQueue \ {head, last}
        /\ \A q \in DOMAIN popped : popped[q] = onboardingQueue[q]
        /\ IsPartialFunction(popped, QueueIndices, Seq(Keys))
    <3>1. /\ DOMAIN popped = DOMAIN onboardingQueue \ {head, last}
          /\ \A q \in DOMAIN popped : popped[q] = onboardingQueue[q]
      BY DEF Without
    <3>2. IsPartialFunction(Without(onboardingQueue, head), QueueIndices, Seq(Keys))
      BY <1>2, WithoutType DEF MemberTypes
    <3> QED BY <3>1, <3>2, WithoutType
  <2> HIDE DEF popped
  <2>2. CASE remaining # <<>>
    <3>1. onboardingQueue' = Insert(popped, last, remaining)
      BY <1>1, <2>2
    <3>2. IsPartialFunction(onboardingQueue', QueueIndices, Seq(Keys))
      BY <1>7, <1>10, <2>1, <3>1, InsertType
    <3>3. /\ DOMAIN onboardingQueue' = DOMAIN popped \cup {last}
          /\ onboardingQueue'[last] = remaining
          /\ \A q \in DOMAIN popped \ {last} : onboardingQueue'[q] = popped[q]
      BY <3>1 DEF Insert
    <3> QED BY <2>1, <2>2, <3>2, <3>3 DEF Queued
  <2>3. CASE remaining = <<>>
    <3>1. onboardingQueue' = popped
      BY <1>1, <2>3
    <3> QED BY <2>1, <2>3, <3>1 DEF Queued
  <2> QED BY <2>2, <2>3
<1>12. \A p \in DOMAIN onboardingQueue' : Ahead(p, h, n) <= Ahead(tail, h, n)
  <2> TAKE p \in DOMAIN onboardingQueue'
  <2>1. p \in QueueIndices
    BY <1>3, <1>10, <1>11
  <2>2. Ahead(p, last, n) <= Ahead(tail, last, n)
    <3>1. CASE p = last
      <4>1. last \in Int /\ Ahead(tail, last, n) \in Nat
        <5>1. Ahead(tail, last, n) \in 0..(n - 1)
          BY <1>3, <1>10, WindowAhead
        <5> QED BY <1>10, <5>1, WindowAhead DEF QueueIndices
      <4>2. Ahead(last, last, n) = 0
        BY <4>1 DEF Ahead
      <4> QED BY <3>1, <4>1, <4>2
    <3>2. CASE p # last
      <4>1. p \in DOMAIN onboardingQueue /\ p # head
        BY <1>11, <3>2
      <4>2. Ahead(p, head, n) <= Ahead(tail, head, n)
        BY <1>3, <4>1
      <4>3. CASE two
        BY <1>3, <1>5, <2>1, <4>1, <4>2, <4>3, WindowAdvance DEF last
      <4>4. CASE ~two
        BY <4>2, <4>4 DEF last
      <4> QED BY <4>3, <4>4
    <3> QED BY <3>1, <3>2
  <2>3. CASE h = last
    BY <2>2, <2>3
  <2>4. CASE h # last
    <3>1. remaining = <<>> /\ last # tail /\ h = NextPage(last)
      BY <2>4 DEF h
    <3>2. p # last
      BY <1>11, <3>1
    <3> QED BY <1>3, <1>10, <2>1, <2>2, <3>1, <3>2, WindowAdvance
  <2> QED BY <2>3, <2>4
<1>13. \A p \in DOMAIN onboardingQueue' : IsInjective(Queued(p)')
  <2>1. IsInjective(<<>>)
    BY DEF IsInjective
  <2> QED BY <1>3, <1>8, <1>11, <2>1
<1>14. \A j \in Range(front) : j \in Keys /\ members[j].at = "Onboarding"
  <2> TAKE j \in Range(front)
  <2>1. j \in Keys
    BY <1>5, ListRange
  <2>2. \E p \in QueueIndices : j \in Range(Queued(p))
    <3>1. Range(<<>>) = {}
      BY DEF Range
    <3> QED BY <1>3, <1>5, <3>1 DEF second
  <2> QED BY <1>3, <2>1, <2>2, PositionFacts
<1>15. \A k \in Keys, p \in QueueIndices :
         k \in Range(Queued(p)') <=> k \in Range(Queued(p)) /\ k \notin Range(entering)
  <2> TAKE k \in Keys, p \in QueueIndices
  <2>1. Range(<<>>) = {}
    BY DEF Range
  <2>2. CASE two
    <3>1. last = NextPage(head) /\ last # head /\ second = Queued(last)
      BY <1>5, <2>2 DEF last, second
    <3>2. CASE p = last
      <4>1. k \in Range(remaining) <=> k \in Range(second) /\ k \notin Range(entering)
        BY <1>5, <1>8, <1>9, <2>2
      <4> QED BY <1>11, <3>1, <3>2, <4>1
    <3>3. CASE p = head
      BY <1>9, <1>11, <2>1, <2>2, <3>1, <3>3
    <3>4. CASE p # last /\ p # head
      <4>1. k \in Range(entering) => k \in Range(Queued(head)) \/ k \in Range(Queued(last))
        BY <1>5, <1>8, <3>1
      <4>2. /\ k \in Range(Queued(head)) => k \notin Range(Queued(p))
            /\ k \in Range(Queued(last)) => k \notin Range(Queued(p))
        BY <1>2, <1>3, <1>10, <3>4, OnePage
      <4> QED BY <1>11, <3>4, <4>1, <4>2
    <3> QED BY <3>2, <3>3, <3>4
  <2>3. CASE ~two
    <3>1. last = head /\ Range(front) = Range(Queued(head))
      BY <1>5, <2>1, <2>3 DEF last, second
    <3>2. CASE p = head
      BY <1>8, <1>11, <3>1, <3>2
    <3>3. CASE p # head
      <4>1. k \in Range(entering) => k \in Range(Queued(head))
        BY <1>8, <3>1
      <4>2. k \in Range(Queued(head)) => k \notin Range(Queued(p))
        BY <1>2, <1>3, <3>3, OnePage
      <4> QED BY <1>11, <3>1, <3>3, <4>1, <4>2
    <3> QED BY <3>2, <3>3
  <2> QED BY <2>2, <2>3
<1>16. /\ \A j \in Range(entering) : members[j].at = "Onboarding"
       /\ Status(currentRingIndex).total + Len(entering) <= RingCapacity
  <2>1. \A j \in Range(entering) : members[j].at = "Onboarding"
    BY <1>8, <1>14
  <2>2. Status(ring).total + m <= RingCapacity
    BY <1>4, <1>6
  <2> QED BY <1>7, <2>1, <2>2
<1> HIDE DEF ring, popped
<1>17. EnterRing(currentRingIndex, entering)
  BY <1>1 DEF ring
<1> QED
  BY <1>1, <1>3, <1>7, <1>8, <1>10, <1>11, <1>12, <1>13, <1>15, <1>16, <1>17, LeaveQueue

-----------------------------------------------------------------------------
(* Ring roots.                                                             *)

\* The slot of a key of a ring lies on one of its pages.
LEMMA PageOfSlot ==
  ASSUME NEW total \in Nat, total <= RingCapacity, NEW g \in Nat, g < total
  PROVE  /\ g \div PageSize \in RingPages
         /\ PageFill(total, g \div PageSize) \in Nat
         /\ g % PageSize < PageFill(total, g \div PageSize)
<1>1. PICK p \in Nat, s \in 0..(PageSize - 1) : p = g \div PageSize /\ s = g % PageSize
  BY SlotPage
<1>2. s < PageFill(total, p)
  BY <1>1, SlotFilled
<1>3. PageFill(total, p) \in Nat
  <2>1. p * PageSize \in Nat
    BY PagesOfRing
  <2> QED BY <2>1, PageFillCases, PagesOfRing
<1>4. total \in 0..RingCapacity /\ PageFill(total, p) # 0
  BY <1>2, <1>3, PagesOfRing
<1>5. p \in RingPages
  BY <1>4, PagesQueued
<1> QED BY <1>1, <1>2, <1>3, <1>5

\* The keys of consecutive slots of a ring.
LEMMA KeysJoin ==
  ASSUME NEW r, NEW a \in Nat, NEW b \in Nat, a <= b
  PROVE  KeysBetween(r, 0, b) = KeysBetween(r, 0, a) \cup KeysBetween(r, a, b)
<1>1. \A g : g \in 0..(b - 1) <=> g \in 0..(a - 1) \/ g \in a..(b - 1)
  OBVIOUS
<1> DEFINE Held(g) == g % PageSize < Len(ringKeys[r][g \div PageSize])
           Key(g) == ringKeys[r][g \div PageSize][(g % PageSize) + 1]
<1>2. \A from, to : KeysBetween(r, from, to) = {Key(g) : g \in {h \in from..(to - 1) : Held(h)}}
  BY DEF KeysBetween
<1> HIDE DEF Held, Key
<1> QED BY <1>1, <1>2

\* They are keys.
LEMMA KeysType ==
  ASSUME MemberTypes, RingsInv, NEW r \in Rings, NEW a \in Nat, NEW b \in Nat,
         b <= Status(r).total
  PROVE  KeysBetween(r, a, b) \subseteq Keys
<1> SUFFICES ASSUME NEW g \in a..(b - 1),
                    g % PageSize < Len(ringKeys[r][g \div PageSize])
             PROVE  ringKeys[r][g \div PageSize][(g % PageSize) + 1] \in Keys
  BY DEF KeysBetween
<1>1. PICK total \in Nat : total = Status(r).total /\ total <= RingCapacity
  BY StatusFacts
<1>2. g \in Nat /\ g < total
  BY <1>1
<1>3. PICK p \in RingPages, s \in 0..(PageSize - 1) : p = g \div PageSize /\ s = g % PageSize
  BY <1>1, <1>2, PageOfSlot, SlotPage
<1>4. ringKeys[r][p] \in Seq(Keys) /\ s < Len(ringKeys[r][p])
  BY <1>3 DEF MemberTypes
<1>5. s + 1 \in 1..Len(ringKeys[r][p])
  BY <1>4, PagesOfRing
<1> QED BY <1>3, <1>4, <1>5

\* `build_ring`.
LEMMA BuildStep ==
  ASSUME MembersInv, NEW ring \in Rings, NEW toInclude \in 1..RingBuildingMemberLimit,
         BuildRing(ring, toInclude)
  PROVE  MembersInv'
<1> USE DEF configVars, queueVars
<1> DEFINE old == Status(ring)
           included == old.included + toInclude
           complete == included = old.total
           added == KeysBetween(ring, old.included, included)
           revision == IF ring \notin DOMAIN root THEN 0 ELSE root[ring].revision + 1
           v == [old EXCEPT !.included = included,
                            !.immutable = @ \/ BecomesImmutable(old.total, complete)]
<1>1. /\ Live /\ toInclude \in 1..ToBuild(ring)
      /\ root' = Insert(root, ring, [revision |-> revision, keys |-> Intermediate(ring) \cup added])
      /\ ringStatus' = Insert(ringStatus, ring, v)
      /\ staleRings' = StaleAfterBuild(ring, complete)
      /\ UNCHANGED <<collection, sessions, members, onboardingQueue, queuePageIndices,
                     currentRingIndex, ringKeys, activeMembers, pendingSuspensions,
                     ringDeletionQueue>>
  BY DEF BuildRing, ensure_can_build_ring
<1>2. MemberTypes /\ RingsInv /\ ActiveInv /\ RootsInv /\ StaleInv /\ ModeInv /\ collection = "Live"
  BY <1>1 DEF MembersInv, Live
<1>3. PICK total \in 0..RingCapacity, before \in Nat, status \in StatusType :
        /\ total = old.total /\ before = old.included /\ status = old
  BY <1>2, StatusFacts, PagesOfRing
<1>4. PICK n \in Nat \ {0} : n = toInclude /\ before + n <= total
  <2>1. toInclude \in Int /\ toInclude >= 1
    BY MembersAssumption
  <2>2. ToBuild(ring) # 0 /\ ToBuild(ring) \in Int /\ toInclude <= ToBuild(ring)
    <3>1. 0 \in Int /\ total - before \in Int /\ RingBuildingMemberLimit \in Int
      BY <1>3, MembersAssumption
    <3>2. Min({total - before, RingBuildingMemberLimit}) \in Int
      BY <3>1, MinOfTwo
    <3>3. ToBuild(ring) \in Int
      BY <1>3, <3>2 DEF ToBuild
    <3> QED BY <1>1, <2>1, <3>3
  <2>3. ToBuild(ring) = Min({total - before, RingBuildingMemberLimit})
    BY <1>3, <2>2 DEF ToBuild
  <2>4. ToBuild(ring) <= total - before
    <3>1. total - before \in Int /\ RingBuildingMemberLimit \in Int
      BY <1>3, MembersAssumption
    <3> QED BY <2>3, <3>1, MinOfTwo
  <2> QED BY <1>3, <2>1, <2>2, <2>4
<1>5. ring \in DOMAIN ringStatus /\ old = ringStatus[ring]
  BY <1>2, <1>3, <1>4, StatusFacts
<1>6. ~status.immutable
  <2>1. status.immutable => status.included = RingCapacity /\ status.total = RingCapacity
    BY <1>2, <1>3, <1>5 DEF RingsInv
  <2> QED BY <1>3, <1>4, <2>1
<1>7. PICK w \in StatusType :
        /\ w = v /\ w.total = total /\ w.included = before + n
        /\ w.immutable => AppendOnly /\ before + n = RingCapacity /\ total = RingCapacity
  <2>1. PICK frozen \in BOOLEAN : frozen = BecomesImmutable(total, before + n = total)
    BY MembersAssumption DEF BecomesImmutable
  <2>2. frozen => AppendOnly /\ before + n = RingCapacity /\ total = RingCapacity
    BY <2>1 DEF BecomesImmutable
  <2>3. status.immutable = FALSE
    BY <1>3, <1>6 DEF StatusType
  <2>4. PICK m \in Nat : m = before + n
    BY <1>3, <1>4
  <2>5. /\ [status EXCEPT !.included = m, !.immutable = frozen] \in StatusType
        /\ [status EXCEPT !.included = m, !.immutable = frozen].total = status.total
        /\ [status EXCEPT !.included = m, !.immutable = frozen].included = m
        /\ [status EXCEPT !.included = m, !.immutable = frozen].immutable = frozen
    BY ONLY status \in StatusType, m \in Nat, frozen \in BOOLEAN DEF StatusType
  <2>6. v = [status EXCEPT !.included = m, !.immutable = frozen]
    <3>1. (status.immutable \/ frozen) = frozen
      BY <2>1, <2>3
    <3>2. included = m /\ complete = (before + n = total)
      BY <1>3, <1>4, <2>4
    <3> QED BY <1>3, <2>1, <3>1, <3>2, Zenon
  <2> QED BY <1>3, <2>2, <2>4, <2>5, <2>6
<1>8. /\ DOMAIN ringStatus' = DOMAIN ringStatus /\ ringStatus'[ring] = w
      /\ \A r \in DOMAIN ringStatus \ {ring} : ringStatus'[r] = ringStatus[r]
  BY <1>1, <1>5, <1>7 DEF Insert
<1>9. PICK joined \in SUBSET Keys :
        /\ joined = KeysBetween(ring, 0, before + n)
        /\ root' = Insert(root, ring, [revision |-> revision, keys |-> joined])
  <2>1. Intermediate(ring) = KeysBetween(ring, 0, before)
    <3>1. CASE ring \in DOMAIN root
      BY <1>2, <1>3, <3>1 DEF RootsInv, RootCommits, Intermediate
    <3>2. CASE ring \notin DOMAIN root
      <4>1. before = 0
        BY <1>2, <1>3, <3>2 DEF RootsInv, RootCommits
      <4>2. KeysBetween(ring, 0, 0) = {}
        BY DEF KeysBetween
      <4> QED BY <3>2, <4>1, <4>2 DEF Intermediate
    <3> QED BY <3>1, <3>2
  <2>2. KeysBetween(ring, 0, before + n) = KeysBetween(ring, 0, before) \cup KeysBetween(ring, before, before + n)
    BY <1>3, <1>4, KeysJoin
  <2>3. KeysBetween(ring, 0, before + n) \subseteq Keys
    BY <1>2, <1>3, <1>4, KeysType
  <2>4. added = KeysBetween(ring, before, before + n)
    BY <1>3, <1>4
  <2>5. Intermediate(ring) \cup added = KeysBetween(ring, 0, before + n)
    BY <2>1, <2>2, <2>4
  <2> QED BY <1>1, <2>3, <2>5, Zenon
<1> HIDE DEF v, added, included, complete
<1>10. MemberTypes'
  <2>1. IsPartialFunction(ringStatus', Rings, StatusType)
    BY <1>1, <1>2, <1>7, InsertType DEF MemberTypes
  <2>2. IsPartialFunction(root', Rings, [revision : Nat, keys : SUBSET Keys])
    <3>1. IsPartialFunction(root, Rings, [revision : Nat, keys : SUBSET Keys])
      BY <1>2 DEF MemberTypes
    <3>2. revision \in Nat
      BY <3>1 DEF IsPartialFunction
    <3> HIDE DEF revision
    <3>3. [revision |-> revision, keys |-> joined] \in [revision : Nat, keys : SUBSET Keys]
      BY <3>2
    <3> QED BY <1>9, <3>1, <3>3, InsertType
  <2>3. staleRings' \subseteq Rings
    BY <1>1, <1>2 DEF MemberTypes, StaleAfterBuild
  <2> QED BY <1>1, <1>2, <2>1, <2>2, <2>3 DEF MemberTypes
<1>11. QueueExact' /\ SlotsInv'
  BY <1>1, QueueFrame, SlotsFrame DEF MembersInv
<1>12. ModeInv' /\ NoneInv'
  BY <1>1, <1>2 DEF ModeInv, NoneInv
<1>13. RingsInv'
  <2>1. ASSUME NEW r \in DOMAIN ringStatus'
        PROVE  /\ ringStatus'[r].included <= ringStatus'[r].total
               /\ \A p \in RingPages : Len(ringKeys'[r][p]) = PageFill(ringStatus'[r].total, p)
               /\ AppendOnly => r <= currentRingIndex'
               /\ currentRingIndex' <= r => ringStatus'[r].total < RingCapacity
               /\ ringStatus'[r].immutable =>
                    /\ AppendOnly
                    /\ ringStatus'[r].included = RingCapacity
                    /\ ringStatus'[r].total = RingCapacity
    <3>1. CASE r = ring
      <4>1. ringStatus'[r].total = total /\ ringStatus[r].total = total
        BY <1>3, <1>5, <1>7, <1>8, <3>1
      <4> QED BY <1>1, <1>2, <1>4, <1>5, <1>7, <1>8, <3>1, <4>1 DEF RingsInv
    <3>2. CASE r # ring
      BY <1>1, <1>2, <1>8, <3>2 DEF RingsInv
    <3> QED BY <3>1, <3>2
  <2>2. ASSUME NEW r \in Rings \ DOMAIN ringStatus', NEW p \in RingPages,
               ringKeys'[r][p] # <<>>
        PROVE  <<r, p>> \in ringDeletionQueue'
    BY <1>1, <1>2, <1>8, <2>2 DEF RingsInv
  <2>3. ASSUME NEW x \in ringDeletionQueue'
        PROVE  x[1] \notin DOMAIN ringStatus' /\ x[1] < currentRingIndex'
    BY <1>1, <1>2, <1>8 DEF RingsInv
  <2> QED BY <2>1, <2>2, <2>3 DEF RingsInv
<1>14. ActiveInv'
  <2>1. /\ activeMembers = SumOfTotals(ringStatus) /\ SumOfTotals(ringStatus) \in Nat
        /\ SumOfTotals(ringStatus') = SumOfTotals(ringStatus) - total + total
    <3>1. total = IF ring \in DOMAIN ringStatus THEN ringStatus[ring].total ELSE 0
      BY <1>3, <1>5
    <3>2. IsPartialFunction(ringStatus, Rings, StatusType) /\ ringStatus' = Insert(ringStatus, ring, w)
      BY <1>1, <1>2, <1>7 DEF MemberTypes
    <3>3. /\ SumOfTotals(ringStatus) \in Nat
          /\ SumOfTotals(Insert(ringStatus, ring, w)) = SumOfTotals(ringStatus) - total + w.total
      BY <3>1, <3>2, SumAfter
    <3> QED BY <1>2, <1>7, <3>2, <3>3 DEF ActiveInv
  <2>2. SumOfTotals(ringStatus') = SumOfTotals(ringStatus)
    BY <1>3, <2>1
  <2> QED BY <1>1, <2>1, <2>2 DEF ActiveInv
<1>15. RootsInv'
  <2>1. /\ DOMAIN root' = DOMAIN root \cup {ring} /\ root'[ring].keys = joined
        /\ \A r \in DOMAIN root \ {ring} : root'[r] = root[r]
    BY <1>9 DEF Insert
  <2>2. \A r : Status(r)' = IF r = ring THEN w ELSE Status(r)
    BY <1>5, <1>8 DEF Status
  <2>3. ASSUME NEW r \in Rings
        PROVE  IF r \in DOMAIN root'
                 THEN root'[r].keys = KeysBetween(r, 0, Status(r)'.included)
                 ELSE Status(r)'.included = 0
    <3>1. CASE r = ring
      BY <1>7, <1>9, <2>1, <2>2, <3>1
    <3>2. CASE r # ring
      BY <1>2, <2>1, <2>2, <3>2 DEF RootsInv, RootCommits
    <3> QED BY <3>1, <3>2
  <2>4. \A r, b : {ringKeys'[r][g \div PageSize][(g % PageSize) + 1] :
                     g \in {h \in 0..(b - 1) : h % PageSize < Len(ringKeys'[r][h \div PageSize])}}
                    = KeysBetween(r, 0, b)
    BY <1>1 DEF KeysBetween
  <2>5. DOMAIN root' \subseteq DOMAIN ringStatus'
    BY <1>2, <1>5, <1>8, <2>1 DEF RootsInv
  <2> QED BY <2>3, <2>4, <2>5, RootsIntro
<1>16. StaleInv'
  <2>1. ASSUME NEW r \in DOMAIN ringStatus', r \notin staleRings'
        PROVE  ringStatus'[r].total <= ringStatus'[r].included
    <3>1. CASE r = ring
      <4>1. ring \in staleRings
        <5>1. ring \notin staleRings => total <= before
          BY <1>2, <1>3, <1>5 DEF StaleInv
        <5> QED BY <1>3, <1>4, <5>1
      <4>2. complete
        BY <1>1, <2>1, <3>1, <4>1 DEF StaleAfterBuild
      <4>3. before + n = total
        BY <1>3, <1>4, <4>2 DEF complete, included
      <4> QED BY <1>3, <1>7, <1>8, <3>1, <4>3
    <3>2. CASE r # ring
      <4>1. r \in DOMAIN ringStatus \ staleRings
        BY <1>1, <1>8, <2>1, <3>2 DEF StaleAfterBuild
      <4> QED BY <1>2, <1>8, <3>2, <4>1 DEF StaleInv
    <3> QED BY <3>1, <3>2
  <2>2. staleRings' \subseteq DOMAIN ringStatus'
    BY <1>1, <1>2, <1>8 DEF StaleInv, StaleAfterBuild
  <2> QED BY <2>1, <2>2 DEF StaleInv
<1> QED BY <1>10, <1>11, <1>12, <1>13, <1>14, <1>15, <1>16 DEF MembersInv

-----------------------------------------------------------------------------
(* Removing suspended keys.                                                *)

\* The keys that stay keep their order and move up.
LEMMA KeptFacts ==
  ASSUME MemberTypes, NEW ring \in Rings
  PROVE  LET kept == KeptSlots(ring)
             m == Cardinality(kept)
         IN /\ kept \subseteq Nat /\ m \in Nat /\ m <= Len(ringKeys[ring][0])
            /\ kept = {} => m = 0
            /\ \A i \in kept : NewSlot(ring, i) \in 0..(m - 1)
            /\ \A n \in 1..m : \E i \in kept : NewSlot(ring, i) = n - 1
            /\ KeptKeys(ring) \in Seq(Keys) /\ Len(KeptKeys(ring)) = m
            /\ \A i \in kept : KeptKeys(ring)[NewSlot(ring, i) + 1] = ringKeys[ring][0][i + 1]
<1> DEFINE kept == KeptSlots(ring)
           m == Cardinality(kept)
           slotAt(n) == CHOOSE i \in kept : NewSlot(ring, i) = n - 1
<1>1. PICK page \in Seq(Keys) : page = ringKeys[ring][0]
  BY PagesOfRing DEF MemberTypes
<1>2. PICK L \in Nat : L = Len(page)
  BY <1>1
<1>3. /\ kept \in SUBSET (0..(L - 1)) /\ kept \in SUBSET Nat
      /\ IsFiniteSet(kept) /\ m <= L
  <2>1. kept \in SUBSET (0..(L - 1))
    BY <1>1, <1>2 DEF KeptSlots
  <2>2. kept \in SUBSET Nat
    BY <2>1
  <2>3. IsFiniteSet(0..(L - 1)) /\ Cardinality(0..(L - 1)) = L
    <3>1. /\ IsFiniteSet(0..(L - 1))
          /\ Cardinality(0..(L - 1)) = IF 0 > L - 1 THEN 0 ELSE (L - 1) - 0 + 1
      BY FS_Interval
    <3> QED BY <3>1
  <2> HIDE DEF kept
  <2>4. IsFiniteSet(kept) /\ Cardinality(kept) <= Cardinality(0..(L - 1))
    BY <2>1, <2>3, FS_Subset
  <2> QED BY <2>1, <2>2, <2>3, <2>4
<1>4. \A i : NewSlot(ring, i) = Rank(kept, i)
  BY DEF NewSlot, Rank
<1>5. kept = {} => m = 0
  BY FS_EmptySet
<1>6. KeptKeys(ring) = [n \in 1..m |-> page[slotAt(n) + 1]]
  BY <1>1 DEF KeptKeys
<1> HIDE DEF kept
<1>7. /\ m \in Nat
      /\ \A i \in kept : NewSlot(ring, i) \in 0..(m - 1)
      /\ \A i, j \in kept : NewSlot(ring, i) = NewSlot(ring, j) => i = j
      /\ \A n \in 1..m : \E i \in kept : NewSlot(ring, i) = n - 1
  BY <1>3, <1>4, RankFacts
<1>8. \A n \in 1..m : slotAt(n) \in kept /\ NewSlot(ring, slotAt(n)) = n - 1
  <2> TAKE n \in 1..m
  <2>1. PICK i \in kept : NewSlot(ring, i) = n - 1
    BY <1>7
  <2> QED BY <2>1
<1>9. \A i \in kept : i + 1 \in 1..L
  BY <1>3
<1> HIDE DEF slotAt, m
<1>10. KeptKeys(ring) \in Seq(Keys) /\ Len(KeptKeys(ring)) = m
       /\ \A n \in 1..m : KeptKeys(ring)[n] = page[slotAt(n) + 1]
  <2>1. \A n \in 1..m : page[slotAt(n) + 1] \in Keys
    BY <1>2, <1>8, <1>9
  <2> QED BY <1>6, <1>7, <2>1
<1>11. ASSUME NEW i \in kept
       PROVE  KeptKeys(ring)[NewSlot(ring, i) + 1] = page[i + 1]
  <2>1. PICK n \in 1..m : n = NewSlot(ring, i) + 1 /\ n - 1 = NewSlot(ring, i)
    <3>1. NewSlot(ring, i) \in 0..(m - 1)
      BY <1>7
    <3>2. NewSlot(ring, i) + 1 \in 1..m /\ (NewSlot(ring, i) + 1) - 1 = NewSlot(ring, i)
      BY <1>7, <3>1
    <3> QED BY <3>2
  <2>2. slotAt(n) = i
    BY <1>7, <1>8, <2>1
  <2> QED BY <1>10, <2>1, <2>2
<1> QED BY <1>1, <1>2, <1>3, <1>5, <1>7, <1>10, <1>11 DEF m, kept

\* Who moves, and where to.
LEMMA CompactedFacts ==
  ASSUME MemberTypes, SlotsInv, RingPages = {0}, NEW ring \in Rings, NEW k \in Keys
  PROVE  IF members[k].at = "Included" /\ members[k].ring = ring
           THEN /\ members[k].slot \in KeptSlots(ring)
                /\ members[k] = Included(ring, 0, members[k].slot)
                /\ ringKeys[ring][0][members[k].slot + 1] = k
                /\ CompactedPositions(ring)[k] =
                     Included(ring, 0, NewSlot(ring, members[k].slot))
           ELSE CompactedPositions(ring)[k] = members[k]
<1>1. CASE ~(members[k].at = "Included" /\ members[k].ring = ring)
  BY <1>1 DEF CompactedPositions
<1>2. CASE members[k].at = "Included" /\ members[k].ring = ring
  <2>1. PICK s \in Nat : s = members[k].slot /\ members[k] = Included(ring, 0, s) /\ members[k].page = 0
    <3>1. members[k] \in Positions
      BY DEF MemberTypes
    <3>2. /\ members[k].page = 0 /\ members[k].slot \in Nat
          /\ members[k] = Included(members[k].ring, members[k].page, members[k].slot)
      BY <1>2, <3>1, PositionCases
    <3> QED BY <1>2, <3>2
  <2>2. PICK page \in Seq(Keys) : page = ringKeys[ring][0]
    BY DEF MemberTypes
  <2>3. s + 1 \in DOMAIN page /\ page[s + 1] = k
    BY <1>2, <2>1, <2>2 DEF SlotsInv, SlotsExact
  <2>4. ASSUME NEW i \in DOMAIN page, page[i] = k
        PROVE  i - 1 \notin pendingSuspensions[ring] <=> i - 1 = s
    <3>1. members[k] = Included(ring, 0, i - 1) <=> i - 1 \notin pendingSuspensions[ring]
      BY <2>2, <2>4 DEF SlotsInv, SlotsExact
    <3>2. PICK j : j = i - 1
      OBVIOUS
    <3>3. Included(ring, 0, s) = Included(ring, 0, j) <=> s = j
      BY PositionFacts
    <3> QED BY <2>1, <3>1, <3>2, <3>3
  <2>5. s \in KeptSlots(ring)
    <3>1. (s + 1) - 1 = s /\ s \in 0..(Len(page) - 1)
      BY <2>3
    <3>2. s \notin pendingSuspensions[ring]
      BY <2>3, <2>4, <3>1
    <3> QED BY <2>2, <3>1, <3>2 DEF KeptSlots
  <2>6. \A i \in KeptSlots(ring) : page[i + 1] = k => i = s
    <3> TAKE i \in KeptSlots(ring)
    <3> HAVE page[i + 1] = k
    <3>1. i \in 0..(Len(page) - 1) /\ i \notin pendingSuspensions[ring]
      BY <2>2 DEF KeptSlots
    <3>2. i + 1 \in DOMAIN page /\ (i + 1) - 1 = i
      BY <3>1
    <3> QED BY <2>4, <3>1, <3>2
  <2>7. (CHOOSE i \in KeptSlots(ring) : ringKeys[ring][0][i + 1] = k) = s
    BY <2>2, <2>3, <2>5, <2>6
  <2>8. CompactedPositions(ring)[k] = [members[k] EXCEPT !.slot = NewSlot(ring, s)]
    BY <1>2, <2>2, <2>3, <2>5, <2>7 DEF CompactedPositions
  <2>9. [Included(ring, 0, s) EXCEPT !.slot = NewSlot(ring, s)] = Included(ring, 0, NewSlot(ring, s))
    BY DEF Included
  <2>10. CompactedPositions(ring)[k] = Included(ring, 0, NewSlot(ring, s))
    BY <2>1, <2>8, <2>9, Zenon
  <2> QED BY <1>2, <2>1, <2>2, <2>3, <2>5, <2>10
<1> QED BY <1>1, <1>2

\* `remove_suspended_keys`.
LEMMA RemoveStep ==
  ASSUME MembersInv, Supported, NEW ring \in Rings, RemoveSuspendedKeys(ring)
  PROVE  MembersInv'
<1> USE DEF configVars, queueVars
<1> DEFINE kept == KeptSlots(ring)
           m == Cardinality(kept)
           v == [Status(ring) EXCEPT !.total = Len(KeptKeys(ring)), !.included = 0]
\* What is left of a key's slot.
           moves(k) == members[k].at = "Included" /\ members[k].ring = ring
<1>1. /\ Live /\ append_only /\ pendingSuspensions[ring] # {}
      /\ ringKeys' = [ringKeys EXCEPT ![ring][0] = KeptKeys(ring)]
      /\ members' = CompactedPositions(ring)
      /\ ringStatus' = Insert(ringStatus, ring, v)
      /\ activeMembers' = Max({0, activeMembers - SuspendedCount(ring)})
      /\ root' = IF ring \in DOMAIN root THEN [root EXCEPT ![ring] = EmptiedRoot(ring)]
                                         ELSE root
      /\ staleRings' = IF kept # {} THEN staleRings \cup {ring} ELSE staleRings
      /\ pendingSuspensions' = [pendingSuspensions EXCEPT ![ring] = {}]
      /\ UNCHANGED <<collection, sessions, queueVars, currentRingIndex, ringDeletionQueue>>
  BY DEF RemoveSuspendedKeys, should_remove_suspended_keys
<1>2. /\ MemberTypes /\ ModeInv /\ QueueExact /\ SlotsInv /\ RingsInv /\ ActiveInv
      /\ RootsInv /\ StaleInv /\ collection = "Live"
  BY <1>1 DEF MembersInv, Live
<1>3. /\ ~AppendOnly /\ ringDeletionQueue = {} /\ RingPages = {0}
      /\ RingCapacity <= PageSize /\ RingCapacity \in Nat /\ PageSize \in Nat
  <2>1. ~AppendOnly
    BY <1>1, <1>2 DEF ModeInv
  <2> QED BY <1>2, <2>1, PagesOfRing DEF Supported, ModeInv
<1>4. /\ kept \subseteq Nat /\ m \in Nat /\ m <= Len(ringKeys[ring][0])
      /\ kept = {} => m = 0
      /\ \A i \in kept : NewSlot(ring, i) \in 0..(m - 1)
      /\ \A n \in 1..m : \E i \in kept : NewSlot(ring, i) = n - 1
      /\ KeptKeys(ring) \in Seq(Keys) /\ Len(KeptKeys(ring)) = m
      /\ \A i \in kept : KeptKeys(ring)[NewSlot(ring, i) + 1] = ringKeys[ring][0][i + 1]
  BY <1>2, KeptFacts
<1>5. \A k \in Keys :
        IF moves(k)
          THEN /\ members[k].slot \in kept
               /\ members[k] = Included(ring, 0, members[k].slot)
               /\ ringKeys[ring][0][members[k].slot + 1] = k
               /\ members'[k] = Included(ring, 0, NewSlot(ring, members[k].slot))
          ELSE members'[k] = members[k]
  BY <1>1, <1>2, <1>3, CompactedFacts
<1>6. members' \in [Keys -> Positions]
  <2>1. \A k \in Keys : members'[k] \in Positions
    <3> TAKE k \in Keys
    <3>1. CASE moves(k)
      <4>1. NewSlot(ring, members[k].slot) \in Nat
        BY <1>4, <1>5, <3>1
      <4> QED BY <1>3, <1>5, <3>1, <4>1, PositionType
    <3>2. CASE ~moves(k)
      BY <1>2, <1>5, <3>2 DEF MemberTypes
    <3> QED BY <3>1, <3>2
  <2>2. members' = [k \in Keys |-> members'[k]]
    BY <1>1 DEF CompactedPositions
  <2> QED BY <2>1, <2>2
<1>7. PICK L \in Nat : L = Len(ringKeys[ring][0]) /\ ringKeys[ring][0] \in Seq(Keys)
  BY <1>2, <1>3 DEF MemberTypes
\* A ring with pending slots holds keys, hence has a status.
<1>8. ring \in DOMAIN ringStatus
  <2>1. PICK s \in pendingSuspensions[ring] : s \in Nat /\ s < L
    BY <1>1, <1>2, <1>7 DEF SlotsInv, MemberTypes
  <2>2. ringKeys[ring][0] # <<>>
    BY <1>7, <2>1
  <2> QED BY <1>2, <1>3, <2>2 DEF RingsInv
<1>9. PICK total \in 0..RingCapacity, status \in StatusType :
        /\ status = ringStatus[ring] /\ status = Status(ring) /\ total = status.total
        /\ L = total /\ status.immutable = FALSE
        /\ currentRingIndex <= ring => total < RingCapacity
  <2>1. PICK status \in StatusType : status = ringStatus[ring] /\ status = Status(ring)
    BY <1>2, <1>8, StatusFacts
  <2>2. PICK total \in 0..RingCapacity : total = status.total
    BY DEF StatusType
  <2>3. PageFill(total, 0) = total
    <3>1. 0 * PageSize = 0 /\ 0 \in Nat /\ total \in Nat
      BY <1>3
    <3>2. PageFill(total, 0) = IF total <= 0 THEN 0
                               ELSE IF total <= 0 + PageSize THEN total - 0 ELSE PageSize
      BY <3>1, PageFillCases
    <3> QED BY <1>3, <3>2
  <2>4. L = PageFill(total, 0)
    BY <1>2, <1>3, <1>7, <1>8, <2>1, <2>2 DEF RingsInv
  <2>5. ~status.immutable
    BY <1>2, <1>3, <1>8, <2>1 DEF RingsInv
  <2>6. status.immutable = FALSE
    BY <2>5 DEF StatusType
  <2>7. currentRingIndex <= ring => total < RingCapacity
    BY <1>2, <1>8, <2>1, <2>2 DEF RingsInv
  <2> QED BY <2>1, <2>2, <2>3, <2>4, <2>6, <2>7
<1> HIDE DEF kept, m
<1>10. m \in 0..RingCapacity /\ m <= total
  BY <1>3, <1>4, <1>7, <1>9
<1>11. PICK w \in StatusType : /\ w = v /\ w.total = m /\ w.included = 0
                               /\ w.immutable = FALSE
  <2>1. PICK n \in 0..RingCapacity : n = m
    BY <1>10
  <2>2. /\ [status EXCEPT !.total = n, !.included = 0] \in StatusType
        /\ [status EXCEPT !.total = n, !.included = 0].total = n
        /\ [status EXCEPT !.total = n, !.included = 0].included = 0
        /\ [status EXCEPT !.total = n, !.included = 0].immutable = status.immutable
    BY ONLY status \in StatusType, n \in 0..RingCapacity DEF StatusType
  <2>3. v = [status EXCEPT !.total = n, !.included = 0]
    BY <1>4, <1>9, <2>1, Zenon
  <2> QED BY <1>9, <2>1, <2>2, <2>3
<1> HIDE DEF v
<1>12. /\ DOMAIN ringStatus' = DOMAIN ringStatus /\ ringStatus'[ring] = w
       /\ \A r \in DOMAIN ringStatus \ {ring} : ringStatus'[r] = ringStatus[r]
  BY <1>1, <1>8, <1>11 DEF Insert
<1>13. /\ ringKeys' \in [Rings -> [RingPages -> Seq(Keys)]]
       /\ \A r \in Rings \ {ring} : ringKeys'[r] = ringKeys[r]
       /\ ringKeys'[ring][0] = KeptKeys(ring)
  <2>1. ringKeys \in [Rings -> [RingPages -> Seq(Keys)]]
    BY <1>2 DEF MemberTypes
  <2> QED BY <1>1, <1>3, <1>4, <2>1
<1>14. /\ pendingSuspensions' \in [Rings -> SUBSET Nat] /\ pendingSuspensions'[ring] = {}
       /\ \A r \in Rings \ {ring} : pendingSuspensions'[r] = pendingSuspensions[r]
  BY <1>1, <1>2 DEF MemberTypes
<1>15. MemberTypes'
  <2>1. IsPartialFunction(ringStatus', Rings, StatusType)
    BY <1>1, <1>2, <1>11, InsertType DEF MemberTypes
  <2>2. IsPartialFunction(root', Rings, [revision : Nat, keys : SUBSET Keys])
    <3>1. IsPartialFunction(root, Rings, [revision : Nat, keys : SUBSET Keys])
      BY <1>2 DEF MemberTypes
    <3>2. ring \in DOMAIN root => EmptiedRoot(ring) \in [revision : Nat, keys : SUBSET Keys]
      BY <3>1 DEF IsPartialFunction, EmptiedRoot
    <3> QED BY <1>1, <3>1, <3>2 DEF IsPartialFunction
  <2>3. staleRings' \subseteq Rings
    BY <1>1, <1>2 DEF MemberTypes
  <2> QED BY <1>1, <1>2, <1>6, <1>13, <1>14, <2>1, <2>2, <2>3 DEF MemberTypes
<1>16. QueueExact'
  <2>1. \A k \in Keys : members'[k] = members[k]
                          \/ (members[k].at # "Onboarding" /\ members'[k].at # "Onboarding")
    BY <1>5, PositionFacts
  <2> QED BY <1>1, <1>2, <2>1, QueueSame
<1>17. SlotsInv'
  <2>1. ASSUME NEW r \in Rings, NEW p \in RingPages, NEW i \in DOMAIN ringKeys'[r][p]
        PROVE  members'[ringKeys'[r][p][i]] = Included(r, p, i - 1)
                 <=> ~(p = 0 /\ i - 1 \in pendingSuspensions'[r])
    <3>1. CASE r = ring
      <4>1. p = 0 /\ i \in 1..m /\ ringKeys'[r][p] = KeptKeys(ring)
        BY <1>3, <1>4, <1>13, <2>1, <3>1
      <4>2. PICK j \in kept : NewSlot(ring, j) = i - 1
        BY <1>4, <4>1
      <4>3. PICK k \in Keys : k = ringKeys'[r][p][i] /\ k = ringKeys[ring][0][j + 1]
        <5>1. (i - 1) + 1 = i
          BY <4>1
        <5>2. KeptKeys(ring)[i] = ringKeys[ring][0][j + 1]
          BY <1>4, <4>2, <5>1
        <5>3. KeptKeys(ring)[i] \in Keys
          BY <1>4, <4>1
        <5> QED BY <4>1, <5>2, <5>3
      <4>4. members[k] = Included(ring, 0, j)
        <5>1. j \in 0..(L - 1) /\ j \notin pendingSuspensions[ring]
          BY <1>7 DEF kept, KeptSlots
        <5>2. j + 1 \in DOMAIN ringKeys[ring][0] /\ (j + 1) - 1 = j
          BY <1>7, <5>1
        <5>3. members[ringKeys[ring][0][j + 1]] = Included(ring, 0, (j + 1) - 1)
                <=> ~(0 = 0 /\ (j + 1) - 1 \in pendingSuspensions[ring])
          BY <1>2, <1>3, <5>2 DEF SlotsInv, SlotsExact
        <5> QED BY <4>3, <5>1, <5>2, <5>3, Zenon
      <4>5. moves(k) /\ members[k].slot = j
        BY <4>4, PositionFacts
      <4>6. members'[k] = Included(ring, 0, i - 1)
        BY <1>5, <4>2, <4>5
      <4> QED BY <1>14, <3>1, <4>1, <4>3, <4>6
    <3>2. CASE r # ring
      <4>1. /\ ringKeys'[r][p] = ringKeys[r][p] /\ pendingSuspensions'[r] = pendingSuspensions[r]
            /\ ringKeys[r][p] \in Seq(Keys)
        BY <1>2, <1>13, <1>14, <3>2 DEF MemberTypes
      <4>2. PICK k \in Keys, s \in Int : k = ringKeys[r][p][i] /\ s = i - 1
        BY <2>1, <4>1
      <4>3. members[k] = Included(r, p, s) <=> ~(p = 0 /\ s \in pendingSuspensions[r])
        BY <1>2, <2>1, <4>1, <4>2 DEF SlotsInv, SlotsExact
      <4>4. members'[k] = Included(r, p, s) <=> members[k] = Included(r, p, s)
        <5>1. Included(r, p, s).ring = r /\ \A q, t : Included(ring, q, t).ring = ring
          BY PositionFacts
        <5>2. CASE moves(k)
          <6>1. members'[k].ring = ring /\ members[k].ring = ring
            BY <1>5, <5>1, <5>2
          <6> QED BY <3>2, <5>1, <6>1
        <5>3. CASE ~moves(k)
          BY <1>5, <5>3
        <5> QED BY <5>2, <5>3
      <4> QED BY <4>1, <4>2, <4>3, <4>4
    <3> QED BY <3>1, <3>2
  <2>2. ASSUME NEW k \in Keys, members'[k].at = "Included"
        PROVE  LET page == ringKeys'[members'[k].ring][members'[k].page]
               IN members'[k].slot + 1 \in DOMAIN page /\ page[members'[k].slot + 1] = k
    <3>1. CASE moves(k)
      <4>1. PICK s \in kept, t \in 0..(m - 1) :
              /\ s = members[k].slot /\ t = NewSlot(ring, s)
              /\ members'[k] = Included(ring, 0, t) /\ ringKeys[ring][0][s + 1] = k
        BY <1>4, <1>5, <3>1
      <4>2. members'[k].ring = ring /\ members'[k].page = 0 /\ members'[k].slot = t
        BY <4>1, PositionFacts
      <4>3. t + 1 \in DOMAIN KeptKeys(ring)
        BY <1>4
      <4>4. KeptKeys(ring)[t + 1] = k
        BY <1>4, <4>1, Zenon
      <4> QED BY <1>13, <4>2, <4>3, <4>4
    <3>2. CASE ~moves(k)
      <4>1. members'[k] = members[k] /\ members[k].at = "Included" /\ members[k].ring # ring
        BY <1>5, <2>2, <3>2
      <4>2. members[k].ring \in Rings
        BY <1>2, <4>1, PositionCases DEF MemberTypes
      <4>3. ringKeys'[members[k].ring] = ringKeys[members[k].ring]
        BY <1>13, <4>1, <4>2
      <4> QED BY <1>2, <4>1, <4>3 DEF SlotsInv, SlotsExact
    <3> QED BY <3>1, <3>2
  <2>3. ASSUME NEW r \in Rings, NEW s \in pendingSuspensions'[r]
        PROVE  s < Len(ringKeys'[r][0])
    <3>1. r # ring
      BY <1>14, <2>3
    <3> QED BY <1>2, <1>13, <1>14, <2>3, <3>1 DEF SlotsInv
  <2> QED BY <2>1, <2>2, <2>3 DEF SlotsInv, SlotsExact
<1>18. RingsInv'
  <2>1. PageFill(m, 0) = m
    <3>1. 0 * PageSize = 0 /\ 0 \in Nat /\ m \in Nat
      BY <1>3, <1>4
    <3>2. PageFill(m, 0) = IF m <= 0 THEN 0
                           ELSE IF m <= 0 + PageSize THEN m - 0 ELSE PageSize
      BY <3>1, PageFillCases
    <3> QED BY <1>3, <1>10, <3>2
  <2>2. ASSUME NEW r \in DOMAIN ringStatus'
        PROVE  /\ ringStatus'[r].included <= ringStatus'[r].total
               /\ \A p \in RingPages : Len(ringKeys'[r][p]) = PageFill(ringStatus'[r].total, p)
               /\ currentRingIndex' <= r => ringStatus'[r].total < RingCapacity
               /\ ~ringStatus'[r].immutable
    <3>1. CASE r = ring
      <4>1. currentRingIndex' <= r => m < RingCapacity
        BY <1>1, <1>3, <1>9, <1>10, <3>1
      <4> QED BY <1>3, <1>4, <1>11, <1>12, <1>13, <2>1, <3>1, <4>1
    <3>2. CASE r # ring
      <4>1. r \in DOMAIN ringStatus /\ ringStatus'[r] = ringStatus[r] /\ r \in Rings
            /\ ringKeys'[r] = ringKeys[r]
        BY <1>2, <1>12, <1>13, <3>2 DEF MemberTypes, IsPartialFunction
      <4> QED BY <1>1, <1>2, <1>3, <4>1 DEF RingsInv
    <3> QED BY <3>1, <3>2
  <2>3. ASSUME NEW r \in Rings \ DOMAIN ringStatus', NEW p \in RingPages,
               ringKeys'[r][p] # <<>>
        PROVE  <<r, p>> \in ringDeletionQueue'
    <3>1. r # ring /\ r \notin DOMAIN ringStatus /\ ringKeys'[r] = ringKeys[r]
      BY <1>8, <1>12, <1>13
    <3> QED BY <1>1, <1>2, <2>3, <3>1 DEF RingsInv
  <2>4. ringDeletionQueue' = {}
    BY <1>1, <1>3
  <2> QED BY <1>3, <2>2, <2>3, <2>4 DEF RingsInv
<1>19. ActiveInv'
  <2>1. SuspendedCount(ring) = total - m
    <3>1. SuspendedCount(ring) = Max({0, total - m})
      BY <1>4, <1>9 DEF SuspendedCount
    <3>2. total - m \in Int /\ total - m >= 0
      BY <1>4, <1>10
    <3>3. Max({0, total - m}) = IF 0 >= total - m THEN 0 ELSE total - m
      BY <3>2, MaxOfTwo
    <3> QED BY <3>1, <3>2, <3>3
  <2>2. PICK sum \in Nat :
          /\ sum = SumOfTotals(ringStatus) /\ total <= sum
          /\ SumOfTotals(ringStatus') = sum - total + m
    <3>1. total = IF ring \in DOMAIN ringStatus THEN ringStatus[ring].total ELSE 0
      BY <1>8, <1>9
    <3>2. IsPartialFunction(ringStatus, Rings, StatusType) /\ ringStatus' = Insert(ringStatus, ring, w)
      BY <1>1, <1>2, <1>11 DEF MemberTypes
    <3>3. /\ SumOfTotals(ringStatus) \in Nat /\ total <= SumOfTotals(ringStatus)
          /\ SumOfTotals(Insert(ringStatus, ring, w)) = SumOfTotals(ringStatus) - total + w.total
      BY <3>1, <3>2, SumAfter
    <3> QED BY <1>11, <3>2, <3>3
  <2>3. activeMembers' = Max({0, sum - (total - m)})
    BY <1>1, <1>2, <2>1, <2>2 DEF ActiveInv
  <2>4. sum - (total - m) \in Int /\ sum - (total - m) >= 0
    BY <1>4, <1>10, <2>2
  <2>5. Max({0, sum - (total - m)}) = IF 0 >= sum - (total - m) THEN 0 ELSE sum - (total - m)
    BY <2>4, MaxOfTwo
  <2>6. activeMembers' = sum - (total - m)
    BY <2>3, <2>4, <2>5
  <2>7. sum - (total - m) = sum - total + m
    BY <1>4
  <2> QED BY <2>2, <2>6, <2>7 DEF ActiveInv
<1>20. RootsInv'
  <2>1. /\ DOMAIN root' = DOMAIN root
        /\ ring \in DOMAIN root => root'[ring].keys = {}
        /\ \A r \in DOMAIN root \ {ring} : root'[r] = root[r]
    BY <1>1 DEF EmptiedRoot
  <2>2. \A r : Status(r)' = IF r = ring THEN w ELSE Status(r)
    BY <1>8, <1>12 DEF Status
  <2>3. ASSUME NEW r \in Rings
        PROVE  IF r \in DOMAIN root'
                 THEN root'[r].keys =
                        {ringKeys'[r][g \div PageSize][(g % PageSize) + 1] :
                           g \in {h \in 0..(Status(r)'.included - 1) :
                                    h % PageSize < Len(ringKeys'[r][h \div PageSize])}}
                 ELSE Status(r)'.included = 0
    <3>1. CASE r = ring
      <4>1. Status(r)'.included = 0 /\ 0..(0 - 1) = {}
        BY <1>11, <2>2, <3>1
      <4>2. 0..(Status(r)'.included - 1) = {}
        BY <4>1
      <4> QED BY <2>1, <3>1, <4>1, <4>2
    <3>2. CASE r # ring
      <4>1. ringKeys'[r] = ringKeys[r] /\ Status(r)' = Status(r)
        BY <1>13, <2>2, <3>2
      <4> QED BY <1>2, <2>1, <3>2, <4>1 DEF RootsInv, RootCommits, KeysBetween
    <3> QED BY <3>1, <3>2
  <2>4. DOMAIN root' \subseteq DOMAIN ringStatus'
    BY <1>2, <1>12, <2>1 DEF RootsInv
  <2> QED BY <2>3, <2>4, RootsIntro
<1>21. StaleInv'
  <2>1. ASSUME NEW r \in DOMAIN ringStatus', r \notin staleRings'
        PROVE  ringStatus'[r].total <= ringStatus'[r].included
    <3>1. CASE r = ring
      <4>1. m = 0
        BY <1>1, <1>4, <2>1, <3>1
      <4> QED BY <1>11, <1>12, <3>1, <4>1
    <3>2. CASE r # ring
      BY <1>1, <1>2, <1>12, <2>1, <3>2 DEF StaleInv
    <3> QED BY <3>1, <3>2
  <2>2. staleRings' \subseteq DOMAIN ringStatus'
    BY <1>1, <1>2, <1>8, <1>12 DEF StaleInv
  <2> QED BY <2>1, <2>2 DEF StaleInv
<1>22. ModeInv' /\ NoneInv'
  BY <1>1, <1>2, <1>3 DEF ModeInv, NoneInv
<1> QED BY <1>15, <1>16, <1>17, <1>18, <1>19, <1>20, <1>21, <1>22 DEF MembersInv

-----------------------------------------------------------------------------
(* Merging rings.                                                          *)

\* A ring of a flexible collection keeps its keys on one page.
LEMMA SinglePage ==
  ASSUME MemberTypes, RingsInv, ~AppendOnly, ringDeletionQueue = {}, NEW r \in Rings
  PROVE  /\ ringKeys[r][0] \in Seq(Keys)
         /\ Status(r).total = Len(ringKeys[r][0])
<1>1. RingPages = {0} /\ RingCapacity <= PageSize /\ RingCapacity \in Nat /\ PageSize \in Nat
  BY PagesOfRing
<1>2. ringKeys[r][0] \in Seq(Keys)
  BY <1>1 DEF MemberTypes
<1>3. CASE r \in DOMAIN ringStatus
  <2>1. PICK total \in 0..RingCapacity : total = Status(r).total /\ total = ringStatus[r].total
    BY <1>1, <1>3, StatusFacts
  <2>2. PageFill(total, 0) = total
    <3>1. 0 * PageSize = 0 /\ 0 \in Nat /\ total \in Nat
      BY <1>1
    <3>2. PageFill(total, 0) = IF total <= 0 THEN 0
                               ELSE IF total <= 0 + PageSize THEN total - 0 ELSE PageSize
      BY <3>1, PageFillCases
    <3> QED BY <1>1, <3>2
  <2> QED BY <1>1, <1>2, <1>3, <2>1, <2>2 DEF RingsInv
<1>4. CASE r \notin DOMAIN ringStatus
  <2>1. ringKeys[r][0] = <<>>
    BY <1>1, <1>4 DEF RingsInv
  <2> QED BY <1>2, <1>4, <2>1, StatusFacts
<1> QED BY <1>3, <1>4

\* The sum of the totals when one ring is added to another.
LEMMA SumMerged ==
  ASSUME NEW f, IsPartialFunction(f, Rings, StatusType), NEW base \in Rings,
         NEW target \in Rings, base # target, NEW v \in StatusType, NEW b \in Nat, NEW t \in Nat,
         b = (IF base \in DOMAIN f THEN f[base].total ELSE 0),
         t = (IF target \in DOMAIN f THEN f[target].total ELSE 0),
         v.total = b + t
  PROVE  SumOfTotals(Without(Insert(f, base, v), target)) = SumOfTotals(f)
<1>1. PICK g : g = Insert(f, base, v)
  OBVIOUS
<1>2. IsPartialFunction(g, Rings, StatusType)
  BY <1>1, InsertType
<1>3. /\ SumOfTotals(f) \in Nat
      /\ SumOfTotals(g) = SumOfTotals(f) - b + (b + t)
  <2>1. SumOfTotals(f) \in Nat /\ SumOfTotals(Insert(f, base, v)) = SumOfTotals(f) - b + v.total
    BY SumAfter
  <2> QED BY <1>1, <2>1
<1>4. t = IF target \in DOMAIN g THEN g[target].total ELSE 0
  BY <1>1 DEF Insert
<1>5. SumOfTotals(Without(g, target)) = SumOfTotals(g) - t
  BY <1>2, <1>4, SumAfter
<1>6. SumOfTotals(Without(g, target)) = SumOfTotals(f)
  BY <1>3, <1>5
<1> QED BY <1>1, <1>6

\* The keys of the target ring are found behind those of the base ring.
BehindBase(base, target) ==
  [k \in Keys |->
     IF k \in Range(ringKeys[target][0])
       THEN Included(base, 0, AppendedSlot(base,
              CHOOSE i \in DOMAIN ringKeys[target][0] : ringKeys[target][0][i] = k))
       ELSE members[k]]

\* A merged key is recorded where the merge puts it.
LEMMA MergedKeys ==
  ASSUME MemberTypes, SlotsInv, RingPages = {0}, NEW base \in Rings, NEW target \in Rings,
         base # target, pendingSuspensions[base] = {}, pendingSuspensions[target] = {},
         members' = BehindBase(base, target)
  PROVE  /\ \A i \in DOMAIN ringKeys[base][0] :
              members[ringKeys[base][0][i]] = Included(base, 0, i - 1)
         /\ \A j \in DOMAIN ringKeys[target][0] :
              LET k == ringKeys[target][0][j] IN
              /\ members[k] = Included(target, 0, j - 1)
              /\ members'[k] = Included(base, 0, Len(ringKeys[base][0]) + j - 1)
         /\ \A k \in Keys \ Range(ringKeys[target][0]) :
              /\ members'[k] = members[k]
              /\ members[k].at = "Included" => members[k].ring # target
<1> DEFINE tk == ringKeys[target][0]
<1>1. tk \in Seq(Keys) /\ ringKeys[base][0] \in Seq(Keys)
  BY DEF MemberTypes
<1>2. \A i \in DOMAIN ringKeys[base][0] :
        members[ringKeys[base][0][i]] = Included(base, 0, i - 1)
  BY DEF SlotsInv, SlotsExact
<1>3. \A j \in DOMAIN tk : members[tk[j]] = Included(target, 0, j - 1)
  BY DEF SlotsInv, SlotsExact
<1>4. ASSUME NEW j \in DOMAIN tk
      PROVE  members'[tk[j]] = Included(base, 0, Len(ringKeys[base][0]) + j - 1)
  <2>1. tk[j] \in Keys /\ tk[j] \in Range(tk)
    BY <1>1, ListRange
  <2>2. ASSUME NEW i \in DOMAIN tk, tk[i] = tk[j] PROVE i = j
    <3>1. PICK a, b : a = i - 1 /\ b = j - 1
      OBVIOUS
    <3>2. Included(target, 0, a) = Included(target, 0, b)
      BY <1>3, <2>2, <3>1
    <3>3. a = b
      BY ONLY <3>2 DEF Included
    <3>4. i \in Int /\ j \in Int
      BY <1>1
    <3> QED BY <3>1, <3>3, <3>4
  <2>3. (CHOOSE i \in DOMAIN tk : tk[i] = tk[j]) = j
    BY <2>2
  <2> QED BY <2>1, <2>3 DEF AppendedSlot, BehindBase
<1>5. ASSUME NEW k \in Keys \ Range(tk)
      PROVE  /\ members'[k] = members[k]
             /\ members[k].at = "Included" => members[k].ring # target
  <2>1. members'[k] = members[k]
    BY DEF BehindBase
  <2>2. ASSUME members[k].at = "Included", members[k].ring = target PROVE FALSE
    <3>1. members[k] \in Positions
      BY DEF MemberTypes
    <3>2. members[k].page = 0
      BY <2>2, <3>1, PositionCases
    <3>3. members[k].slot + 1 \in DOMAIN tk /\ tk[members[k].slot + 1] = k
      BY <2>2, <3>2 DEF SlotsInv, SlotsExact
    <3> QED BY <1>1, <3>3, ListRange
  <2> QED BY <2>1, <2>2
<1> QED BY <1>2, <1>3, <1>4, <1>5

\* `merge_rings`.
LEMMA MergeRingsStep ==
  ASSUME MembersInv, Supported, NEW base \in Rings, NEW target \in Rings,
         <<base, target>> \in MergePairs, merge_rings(base, target)
  PROVE  MembersInv'
<1> USE DEF configVars, queueVars
<1> DEFINE bk == ringKeys[base][0]
           tk == ringKeys[target][0]
           v == MergedStatus(base, target)
<1>1. /\ Live /\ base # target /\ currentRingIndex \notin {base, target}
      /\ \A r \in {base, target} :
           Len(ringKeys[r][0]) < RingCapacity \div 2 /\ pendingSuspensions[r] = {}
      /\ Len(bk \o tk) <= PageSize
      /\ members' = [k \in Keys |->
           IF k \in Range(tk)
             THEN Included(base, 0, AppendedSlot(base,
                    CHOOSE i \in DOMAIN tk : tk[i] = k))
             ELSE members[k]]
      /\ ringKeys' = [ringKeys EXCEPT ![base][0] = bk \o tk, ![target][0] = <<>>]
      /\ ringStatus' = Without(Insert(ringStatus, base, v), target)
      /\ root' = Without(root, target)
      /\ staleRings' = StaleAfterMerge(base, target)
      /\ UNCHANGED <<collection, sessions, queueVars, currentRingIndex, activeMembers,
                     pendingSuspensions, ringDeletionQueue>>
  BY DEF merge_rings, DropRoot
<1>2. /\ MemberTypes /\ ModeInv /\ QueueExact /\ SlotsInv /\ RingsInv /\ ActiveInv
      /\ RootsInv /\ StaleInv /\ collection = "Live"
  BY <1>1 DEF MembersInv, Live
<1>3. /\ ~AppendOnly /\ ringDeletionQueue = {} /\ RingPages = {0}
      /\ RingCapacity <= PageSize /\ RingCapacity \in Nat /\ PageSize \in Nat \ {0}
  <2>1. ~AppendOnly
    BY DEF Supported
  <2> QED BY <1>2, <2>1, PagesOfRing DEF Supported, ModeInv
<1>4. PICK b \in Nat, t \in Nat :
        /\ bk \in Seq(Keys) /\ tk \in Seq(Keys) /\ b = Len(bk) /\ t = Len(tk)
        /\ Status(base).total = b /\ Status(target).total = t
  BY <1>2, <1>3, SinglePage
<1>5. b + t < RingCapacity /\ b + t \in Nat
  <2>1. PICK half \in Nat : half = RingCapacity \div 2 /\ half + half <= RingCapacity
    <3>1. \A n \in Nat : n \div 2 \in Nat /\ (n \div 2) + (n \div 2) <= n
      OBVIOUS
    <3> QED BY <1>3, <3>1
  <2>2. b < half /\ t < half
    BY <1>1, <1>4, <2>1
  <2> QED BY <1>3, <2>1, <2>2
<1>6. PICK status \in StatusType :
        /\ status = Status(base) /\ status.total = b /\ status.immutable = FALSE
        /\ status.included \in Nat /\ status.included <= b
  <2>1. PICK status \in StatusType : status = Status(base) /\ status.total = b /\ status.included \in Nat
    BY <1>2, <1>4, StatusFacts
  <2>2. CASE base \in DOMAIN ringStatus
    <3>1. status = ringStatus[base]
      BY <2>1, <2>2 DEF Status
    <3>2. status.included <= status.total /\ ~status.immutable
      BY <1>2, <1>3, <2>2, <3>1 DEF RingsInv
    <3>3. status.immutable = FALSE
      BY <3>2 DEF StatusType
    <3> QED BY <2>1, <3>2, <3>3
  <2>3. CASE base \notin DOMAIN ringStatus
    <3>1. status = NoStatus
      BY <2>1, <2>3 DEF Status
    <3> QED BY <1>4, <2>1, <3>1 DEF NoStatus
  <2> QED BY <2>1, <2>2, <2>3
<1>7. PICK w \in StatusType : /\ w = v /\ w.total = b + t /\ w.included = status.included
                              /\ w.immutable = FALSE
  <2>1. PICK n \in 0..RingCapacity : n = b + t
    BY <1>3, <1>5
  <2>2. /\ [status EXCEPT !.total = n] \in StatusType
        /\ [status EXCEPT !.total = n].total = n
        /\ [status EXCEPT !.total = n].included = status.included
        /\ [status EXCEPT !.total = n].immutable = status.immutable
    BY ONLY status \in StatusType, n \in 0..RingCapacity DEF StatusType
  <2>3. v = [status EXCEPT !.total = n]
    <3>1. v = [Status(base) EXCEPT !.total = Status(base).total + Len(tk)]
      BY DEF MergedStatus
    <3>2. Status(base).total + Len(tk) = n
      BY <1>4, <2>1
    <3> QED BY <1>6, <3>1, <3>2, Zenon
  <2> QED BY <1>6, <2>1, <2>2, <2>3
<1> HIDE DEF v
<1>8. /\ DOMAIN ringStatus' = (DOMAIN ringStatus \cup {base}) \ {target}
      /\ ringStatus'[base] = w
      /\ \A r \in DOMAIN ringStatus \ {base, target} : ringStatus'[r] = ringStatus[r]
  BY <1>1, <1>7 DEF Insert, Without
<1>9. PICK merged \in Seq(Keys) :
        /\ merged = bk \o tk /\ Len(merged) = b + t
        /\ \A i \in 1..b : merged[i] = bk[i]
        /\ \A j \in 1..t : merged[b + j] = tk[j]
  <2>1. PICK x \in Seq(Keys), y \in Seq(Keys) : x = bk /\ y = tk
    BY <1>4
  <2>2. PICK c : c = x \o y
    OBVIOUS
  <2>3. IsConcat(Keys, x, y, c)
    BY <2>2, ConcatElements
  <2>4. /\ c \in Seq(Keys) /\ Len(c) = Len(x) + Len(y)
        /\ \A i \in 1..Len(x) : c[i] = x[i]
        /\ \A j \in 1..Len(y) : c[Len(x) + j] = y[j]
    BY <2>3 DEF IsConcat
  <2>5. Len(x) = b /\ Len(y) = t /\ c = bk \o tk
    BY <1>4, <2>1, <2>2
  <2> QED BY <2>1, <2>4, <2>5, Zenon
<1>10. /\ ringKeys' \in [Rings -> [RingPages -> Seq(Keys)]]
       /\ ringKeys'[base][0] = merged /\ ringKeys'[target][0] = <<>>
       /\ \A r \in Rings \ {base, target} : ringKeys'[r] = ringKeys[r]
  <2>1. ringKeys \in [Rings -> [RingPages -> Seq(Keys)]]
    BY <1>2 DEF MemberTypes
  <2>2. PICK g : /\ g = [ringKeys EXCEPT ![base][0] = merged]
                 /\ ringKeys' = [g EXCEPT ![target][0] = <<>>]
    BY <1>1, <1>9, Zenon
  <2>3. 0 \in RingPages /\ <<>> \in Seq(Keys)
    BY <1>3
  <2>4. /\ g \in [Rings -> [RingPages -> Seq(Keys)]] /\ g[base][0] = merged
        /\ \A r \in Rings \ {base} : g[r] = ringKeys[r]
    BY <2>1, <2>2, <2>3
  <2>5. /\ [g EXCEPT ![target][0] = <<>>] \in [Rings -> [RingPages -> Seq(Keys)]]
        /\ [g EXCEPT ![target][0] = <<>>][target][0] = <<>>
        /\ \A r \in Rings \ {target} : [g EXCEPT ![target][0] = <<>>][r] = g[r]
    BY <2>3, <2>4
  <2> QED BY <1>1, <2>2, <2>4, <2>5
<1>11. /\ \A i \in DOMAIN bk : members[bk[i]] = Included(base, 0, i - 1)
       /\ \A j \in DOMAIN tk : /\ members[tk[j]] = Included(target, 0, j - 1)
                               /\ members'[tk[j]] = Included(base, 0, b + j - 1)
       /\ \A k \in Keys \ Range(tk) : /\ members'[k] = members[k]
                                      /\ members[k].at = "Included" => members[k].ring # target
  <2>1. pendingSuspensions[base] = {} /\ pendingSuspensions[target] = {}
    BY <1>1
  <2>2. /\ \A i \in DOMAIN ringKeys[base][0] :
             members[ringKeys[base][0][i]] = Included(base, 0, i - 1)
        /\ \A j \in DOMAIN ringKeys[target][0] :
              LET k == ringKeys[target][0][j] IN
              /\ members[k] = Included(target, 0, j - 1)
              /\ members'[k] = Included(base, 0, Len(ringKeys[base][0]) + j - 1)
        /\ \A k \in Keys \ Range(ringKeys[target][0]) :
              /\ members'[k] = members[k]
              /\ members[k].at = "Included" => members[k].ring # target
    <3>1. members' = BehindBase(base, target)
      BY <1>1 DEF BehindBase
    <3> QED BY <1>1, <1>2, <1>3, <2>1, <3>1, MergedKeys
  <2> QED BY <1>4, <2>2
<1> HIDE DEF bk, tk
<1>12. DOMAIN bk = 1..b /\ DOMAIN tk = 1..t /\ DOMAIN merged = 1..(b + t)
       /\ \A k \in Range(tk) : k \in Keys /\ \E j \in 1..t : tk[j] = k
  <2>1. PICK x \in Seq(Keys), y \in Seq(Keys), z \in Seq(Keys) :
          x = bk /\ y = tk /\ z = merged
    BY <1>4, <1>9
  <2>2. /\ DOMAIN x = 1..Len(x) /\ DOMAIN y = 1..Len(y) /\ DOMAIN z = 1..Len(z)
        /\ \A k \in Range(y) : k \in Keys /\ \E j \in 1..Len(y) : y[j] = k
    BY ListRange
  <2>3. Len(x) = b /\ Len(y) = t /\ Len(z) = b + t
    BY <1>4, <1>9, <2>1
  <2> QED BY <2>1, <2>2, <2>3, Zenon
<1>13. \A k \in Range(tk) : \E s \in Nat : /\ members'[k] = Included(base, 0, s)
                                           /\ s + 1 \in b + 1..b + t /\ merged[s + 1] = k
  <2> TAKE k \in Range(tk)
  <2>1. PICK j \in 1..t : tk[j] = k
    BY <1>12
  <2>2. PICK s \in Nat : s = b + j - 1 /\ s + 1 = b + j
    OBVIOUS
  <2>3. members'[k] = Included(base, 0, s)
    BY <1>11, <1>12, <2>1, <2>2
  <2>4. s + 1 \in b + 1..b + t
    BY <2>2
  <2>5. merged[s + 1] = k
    BY <1>9, <2>1, <2>2
  <2> QED BY <2>3, <2>4, <2>5
<1>14. members' \in [Keys -> Positions]
  <2>1. \A k \in Keys : members'[k] \in Positions
    <3> TAKE k \in Keys
    <3>1. CASE k \in Range(tk)
      BY <1>3, <1>13, <3>1, PositionType
    <3>2. CASE k \notin Range(tk)
      BY <1>2, <1>11, <3>2 DEF MemberTypes
    <3> QED BY <3>1, <3>2
  <2>2. members' = [k \in Keys |-> members'[k]]
    BY <1>1
  <2> QED BY <2>1, <2>2
<1>15. MemberTypes'
  <2>1. IsPartialFunction(ringStatus', Rings, StatusType)
    <3>1. IsPartialFunction(Insert(ringStatus, base, w), Rings, StatusType)
      BY <1>2, InsertType DEF MemberTypes
    <3> QED BY <1>1, <1>7, <3>1, WithoutType
  <2>2. IsPartialFunction(root', Rings, [revision : Nat, keys : SUBSET Keys])
    BY <1>1, <1>2, WithoutType DEF MemberTypes
  <2>3. staleRings' \subseteq Rings
    BY <1>1, <1>2 DEF MemberTypes, StaleAfterMerge
  <2> QED BY <1>1, <1>2, <1>10, <1>14, <2>1, <2>2, <2>3 DEF MemberTypes
<1>16. QueueExact'
  <2>1. \A k \in Keys : members'[k] = members[k]
                          \/ (members[k].at # "Onboarding" /\ members'[k].at # "Onboarding")
    <3> TAKE k \in Keys
    <3>1. CASE k \in Range(tk)
      <4>1. PICK j \in 1..t : tk[j] = k
        BY <1>12, <3>1
      <4>2. PICK x, y : members[k] = Included(target, 0, x) /\ members'[k] = Included(base, 0, y)
        BY <1>11, <1>12, <4>1
      <4> QED BY <4>2, PositionFacts
    <3>2. CASE k \notin Range(tk)
      BY <1>11, <3>2
    <3> QED BY <3>1, <3>2
  <2> QED BY <1>1, <1>2, <2>1, QueueSame
<1>17. SlotsInv'
  <2>1. ASSUME NEW r \in Rings, NEW p \in RingPages, NEW i \in DOMAIN ringKeys'[r][p]
        PROVE  members'[ringKeys'[r][p][i]] = Included(r, p, i - 1)
                 <=> ~(p = 0 /\ i - 1 \in pendingSuspensions'[r])
    <3>0. p = 0 /\ pendingSuspensions' = pendingSuspensions
      BY <1>1, <1>3
    <3>1. CASE r = base
      <4>1. ringKeys'[r][p] = merged /\ i \in 1..(b + t) /\ pendingSuspensions[r] = {}
        BY <1>1, <1>10, <1>12, <2>1, <3>0, <3>1
      <4>2. CASE i \in 1..b
        <5>1. PICK k \in Keys : k = bk[i] /\ k = merged[i] /\ members[k] = Included(base, 0, i - 1)
          <6>1. bk[i] \in Keys /\ merged[i] = bk[i]
            BY <1>4, <1>9, <4>2
          <6>2. members[bk[i]] = Included(base, 0, i - 1)
            BY <1>11, <1>12, <4>2
          <6> QED BY <6>1, <6>2
        <5>2. k \notin Range(tk)
          <6>1. ASSUME NEW j \in 1..t, tk[j] = k PROVE FALSE
            <7>1. members[tk[j]] = Included(target, 0, j - 1)
              BY <1>11, <1>12
            <7>2. PICK x, y : /\ x = j - 1 /\ members[k] = Included(target, 0, x)
                              /\ y = i - 1 /\ members[k] = Included(base, 0, y)
              BY <5>1, <6>1, <7>1
            <7>3. members[k].ring = target /\ members[k].ring = base
              BY <7>2, PositionFacts
            <7> QED BY <1>1, <7>3
          <6> QED BY <1>12, <6>1
        <5>3. members'[k] = Included(base, 0, i - 1)
          BY <1>11, <5>1, <5>2
        <5> QED BY <3>0, <3>1, <4>1, <5>1, <5>3
      <4>3. CASE i \in (b + 1)..(b + t)
        <5>1. PICK j \in 1..t : i = b + j
          <6>1. i - b \in 1..t /\ i = b + (i - b)
            BY <4>3
          <6> QED BY <6>1
        <5>2. merged[i] = tk[j] /\ members'[tk[j]] = Included(base, 0, i - 1)
          <6>1. merged[i] = tk[j]
            BY <1>9, <5>1
          <6>2. members'[tk[j]] = Included(base, 0, b + j - 1)
            BY <1>11, <1>12
          <6> QED BY <5>1, <6>1, <6>2
        <5> QED BY <3>0, <3>1, <4>1, <5>2
      <4> QED BY <4>1, <4>2, <4>3
    <3>2. CASE r = target
      <4>1. ringKeys'[r][p] = <<>>
        BY <1>10, <3>0, <3>2
      <4> QED BY <2>1, <4>1
    <3>3. CASE r \notin {base, target}
      <4>1. ringKeys'[r][p] = ringKeys[r][p] /\ ringKeys[r][p] \in Seq(Keys)
        BY <1>2, <1>10, <3>3 DEF MemberTypes
      <4>2. PICK k \in Keys, s \in Int : k = ringKeys[r][p][i] /\ s = i - 1
        BY <2>1, <4>1
      <4>3. members[k] = Included(r, p, s) <=> ~(p = 0 /\ s \in pendingSuspensions[r])
        BY <1>2, <2>1, <4>1, <4>2 DEF SlotsInv, SlotsExact
      <4>4. members'[k] = Included(r, p, s) <=> members[k] = Included(r, p, s)
        <5>1. CASE k \in Range(tk)
          <6>1. PICK j \in 1..t : tk[j] = k
            BY <1>12, <5>1
          <6>2. PICK x, y : members[k] = Included(target, 0, x) /\ members'[k] = Included(base, 0, y)
            BY <1>11, <1>12, <6>1
          <6>3. members[k].ring = target /\ members'[k].ring = base /\ Included(r, p, s).ring = r
            BY <6>2, PositionFacts
          <6> QED BY <3>3, <6>3
        <5>2. CASE k \notin Range(tk)
          BY <1>11, <5>2
        <5> QED BY <5>1, <5>2
      <4> QED BY <3>0, <4>1, <4>2, <4>3, <4>4
    <3> QED BY <3>1, <3>2, <3>3
  <2>2. ASSUME NEW k \in Keys, members'[k].at = "Included"
        PROVE  LET page == ringKeys'[members'[k].ring][members'[k].page]
               IN members'[k].slot + 1 \in DOMAIN page /\ page[members'[k].slot + 1] = k
    <3>1. CASE k \in Range(tk)
      <4>1. PICK s \in Nat : /\ members'[k] = Included(base, 0, s)
                             /\ s + 1 \in b + 1..b + t /\ merged[s + 1] = k
        BY <1>13, <3>1
      <4>2. members'[k].ring = base /\ members'[k].page = 0 /\ members'[k].slot = s
        BY <4>1, PositionFacts
      <4>3. s + 1 \in DOMAIN merged
        BY <1>12, <4>1
      <4> QED BY <1>10, <4>1, <4>2, <4>3
    <3>2. CASE k \notin Range(tk)
      <4>1. members'[k] = members[k] /\ members[k].at = "Included" /\ members[k].ring # target
        BY <1>11, <2>2, <3>2
      <4>2. PICK r \in Rings, s \in Nat : r = members[k].ring /\ members[k].page = 0 /\ s = members[k].slot
        <5>1. members[k] \in Positions
          BY <1>2 DEF MemberTypes
        <5> QED BY <1>3, <4>1, <5>1, PositionCases
      <4>3. s + 1 \in DOMAIN ringKeys[r][0] /\ ringKeys[r][0][s + 1] = k
        BY <1>2, <4>1, <4>2 DEF SlotsInv, SlotsExact
      <4>4. CASE r = base
        <5>1. s + 1 \in 1..b /\ bk[s + 1] = k
          BY <1>12, <4>3, <4>4 DEF bk
        <5>2. s + 1 \in DOMAIN merged /\ merged[s + 1] = k
          BY <1>9, <1>12, <5>1
        <5> QED BY <1>10, <4>1, <4>2, <4>4, <5>2
      <4>5. CASE r # base
        <5>1. ringKeys'[r] = ringKeys[r]
          BY <1>10, <4>1, <4>2, <4>5
        <5> QED BY <4>1, <4>2, <4>3, <5>1
      <4> QED BY <4>4, <4>5
    <3> QED BY <3>1, <3>2
  <2>3. ASSUME NEW r \in Rings, NEW s \in pendingSuspensions'[r]
        PROVE  s < Len(ringKeys'[r][0])
    <3>1. r \notin {base, target} /\ s \in pendingSuspensions[r]
      BY <1>1, <2>3
    <3> QED BY <1>2, <1>10, <3>1 DEF SlotsInv
  <2> QED BY <2>1, <2>2, <2>3 DEF SlotsInv, SlotsExact
<1>18. RingsInv'
  <2>1. PageFill(b + t, 0) = b + t
    <3>1. 0 * PageSize = 0 /\ 0 \in Nat
      BY <1>3
    <3>2. PageFill(b + t, 0) = IF b + t <= 0 THEN 0
                               ELSE IF b + t <= 0 + PageSize THEN b + t - 0 ELSE PageSize
      BY <1>5, <3>1, PageFillCases
    <3> QED BY <1>3, <1>5, <3>2
  <2>2. ASSUME NEW r \in DOMAIN ringStatus'
        PROVE  /\ ringStatus'[r].included <= ringStatus'[r].total
               /\ \A p \in RingPages : Len(ringKeys'[r][p]) = PageFill(ringStatus'[r].total, p)
               /\ currentRingIndex' <= r => ringStatus'[r].total < RingCapacity
               /\ ~ringStatus'[r].immutable
    <3>1. CASE r = base
      <4>1. w.included <= w.total
        BY <1>5, <1>6, <1>7
      <4> QED BY <1>3, <1>5, <1>7, <1>8, <1>9, <1>10, <2>1, <3>1, <4>1
    <3>2. CASE r # base
      <4>1. r \in DOMAIN ringStatus /\ ringStatus'[r] = ringStatus[r] /\ r \in Rings
            /\ ringKeys'[r] = ringKeys[r]
        BY <1>2, <1>8, <1>10, <3>2 DEF MemberTypes, IsPartialFunction
      <4> QED BY <1>1, <1>2, <1>3, <4>1 DEF RingsInv
    <3> QED BY <3>1, <3>2
  <2>3. ASSUME NEW r \in Rings \ DOMAIN ringStatus', NEW p \in RingPages,
               ringKeys'[r][p] # <<>>
        PROVE  <<r, p>> \in ringDeletionQueue'
    <3>1. r # base /\ p = 0
      BY <1>1, <1>3, <1>8
    <3>2. r # target
      BY <1>10, <2>3, <3>1
    <3>3. r \notin DOMAIN ringStatus /\ ringKeys'[r] = ringKeys[r]
      BY <1>8, <1>10, <3>1, <3>2
    <3> QED BY <1>1, <1>2, <2>3, <3>3 DEF RingsInv
  <2>4. ringDeletionQueue' = {}
    BY <1>1, <1>3
  <2> QED BY <1>3, <2>2, <2>3, <2>4 DEF RingsInv
<1>19. ActiveInv'
  <2>1. /\ b = (IF base \in DOMAIN ringStatus THEN ringStatus[base].total ELSE 0)
        /\ t = (IF target \in DOMAIN ringStatus THEN ringStatus[target].total ELSE 0)
    BY <1>4 DEF Status, NoStatus
  <2>2. IsPartialFunction(ringStatus, Rings, StatusType)
    BY <1>2 DEF MemberTypes
  <2>3. SumOfTotals(Without(Insert(ringStatus, base, w), target)) = SumOfTotals(ringStatus)
    BY <1>1, <1>7, <2>1, <2>2, SumMerged
  <2> QED BY <1>1, <1>2, <1>7, <2>3 DEF ActiveInv
<1>20. RootsInv'
  <2>1. /\ DOMAIN root' = DOMAIN root \ {target}
        /\ \A r \in DOMAIN root' : root'[r] = root[r]
    BY <1>1 DEF Without
  <2>2. \A r : Status(r)' = IF r = base THEN w ELSE IF r = target THEN NoStatus ELSE Status(r)
    BY <1>1, <1>8 DEF Status
  <2>3. ASSUME NEW r \in Rings
        PROVE  IF r \in DOMAIN root'
                 THEN root'[r].keys =
                        {ringKeys'[r][g \div PageSize][(g % PageSize) + 1] :
                           g \in {h \in 0..(Status(r)'.included - 1) :
                                    h % PageSize < Len(ringKeys'[r][h \div PageSize])}}
                 ELSE Status(r)'.included = 0
    <3>1. CASE r = base
      <4>1. Status(r)'.included = status.included
        BY <1>7, <2>2, <3>1
      <4>2. IF r \in DOMAIN root THEN root[r].keys = KeysBetween(r, 0, status.included)
                                 ELSE status.included = 0
        BY <1>2, <1>6, <3>1 DEF RootsInv, RootCommits
      <4>3. ASSUME NEW g \in 0..(status.included - 1)
            PROVE  /\ g % PageSize < Len(ringKeys'[r][g \div PageSize])
                         <=> g % PageSize < Len(ringKeys[r][g \div PageSize])
                   /\ g % PageSize < Len(ringKeys[r][g \div PageSize])
                         => ringKeys'[r][g \div PageSize][(g % PageSize) + 1]
                              = ringKeys[r][g \div PageSize][(g % PageSize) + 1]
        <5>1. g \in Nat /\ g < b /\ b <= RingCapacity
          BY <1>3, <1>5, <1>6
        <5>2. PICK s \in 0..(PageSize - 1) : g \div PageSize = 0 /\ g % PageSize = s /\ g = s
          <6>1. g \in 0..(PageSize - 1) /\ 0 * PageSize + g = g
            BY <1>3, <5>1
          <6>2. (0 * PageSize + g) \div PageSize = 0 /\ (0 * PageSize + g) % PageSize = g
            BY <6>1, SlotUnique
          <6> QED BY <6>1, <6>2
        <5>3. ringKeys'[r][0] = merged /\ ringKeys[r][0] = bk
          BY <1>10, <3>1 DEF bk
        <5>4. s < b /\ s < b + t /\ s + 1 \in 1..b
          BY <5>1, <5>2
        <5>5. Len(merged) = b + t /\ Len(bk) = b /\ merged[s + 1] = bk[s + 1]
          BY <1>4, <1>9, <5>4
        <5> QED BY <5>2, <5>3, <5>4, <5>5
      <4>4. {ringKeys'[r][g \div PageSize][(g % PageSize) + 1] :
               g \in {h \in 0..(status.included - 1) :
                        h % PageSize < Len(ringKeys'[r][h \div PageSize])}}
              = KeysBetween(r, 0, status.included)
        BY <4>3, SameKeysBetween
      <4> QED BY <1>1, <2>1, <3>1, <4>1, <4>2, <4>4
    <3>2. CASE r = target
      BY <1>1, <2>1, <2>2, <3>2 DEF NoStatus
    <3>3. CASE r \notin {base, target}
      <4>1. ringKeys'[r] = ringKeys[r] /\ Status(r)' = Status(r)
        BY <1>10, <2>2, <3>3
      <4> QED BY <1>2, <2>1, <3>3, <4>1 DEF RootsInv, RootCommits, KeysBetween
    <3> QED BY <3>1, <3>2, <3>3
  <2>4. DOMAIN root' \subseteq DOMAIN ringStatus'
    BY <1>2, <1>8, <2>1 DEF RootsInv
  <2> QED BY <2>3, <2>4, RootsIntro
<1>21. StaleInv'
  BY <1>1, <1>2, <1>8 DEF StaleInv, StaleAfterMerge
<1>22. ModeInv' /\ NoneInv'
  BY <1>1, <1>2, <1>3 DEF ModeInv, NoneInv
<1> QED BY <1>15, <1>16, <1>17, <1>18, <1>19, <1>20, <1>21, <1>22 DEF MembersInv

-----------------------------------------------------------------------------
(* The specification.                                                      *)

\* Calls that only change the collection's entry, its sessions or old roots.
LEMMA OwnerConfigStep ==
  ASSUME MembersInv,
         \/ \E size \in OnboardingSizes : create_collection(size) \/ set_onboarding_size(size)
         \/ ~AppendOnly /\ start_removal_session
         \/ end_removal_session \/ delete_collection
         \/ \E ring \in Rings : clean_up_old_roots(ring)
         \/ UNCHANGED vars
  PROVE  MembersInv'
<1> USE DEF configVars, queueVars, ringVars, rootVars
<1>1. /\ collection \in {"None", "Live", "Suspended"} /\ sessions \in Nat
      /\ AppendOnly => sessions = 0
      /\ ~Deletable => collection # "Suspended"
  BY DEF MembersInv, MemberTypes, ModeInv
<1>2. CASE \E size \in OnboardingSizes : create_collection(size)
  <2>1. PICK size \in OnboardingSizes : create_collection(size)
    BY <1>2
  <2>2. /\ collection = "None" /\ collection' = "Live" /\ sessions' = 0
        /\ UNCHANGED <<members, queueVars, ringVars, pendingSuspensions, staleRings,
                       ringDeletionQueue, root>>
    BY <2>1 DEF create_collection
  <2> QED BY <1>1, <2>2, ConfigStep
<1>3. CASE \E size \in OnboardingSizes : set_onboarding_size(size)
  <2>1. UNCHANGED <<collection, sessions, members, queueVars, ringVars,
                    pendingSuspensions, staleRings, ringDeletionQueue, root>>
    BY <1>3 DEF set_onboarding_size
  <2> QED BY <1>1, <2>1, ConfigStep
<1>4. CASE ~AppendOnly /\ start_removal_session
  <2>1. /\ ~AppendOnly /\ sessions' = sessions + 1
        /\ UNCHANGED <<collection, members, queueVars, ringVars, pendingSuspensions,
                       staleRings, ringDeletionQueue, root>>
    BY <1>4 DEF start_removal_session
  <2> QED BY <1>1, <2>1, ConfigStep
<1>5. CASE end_removal_session
  <2>1. /\ sessions > 0 /\ sessions' = sessions - 1
        /\ UNCHANGED <<collection, members, queueVars, ringVars, pendingSuspensions,
                       staleRings, ringDeletionQueue, root>>
    BY <1>5 DEF end_removal_session
  <2> QED BY <1>1, <2>1, ConfigStep
<1>6. CASE delete_collection
  <2>1. /\ Deletable /\ collection' = "Suspended"
        /\ UNCHANGED <<sessions, members, queueVars, ringVars, pendingSuspensions,
                       staleRings, ringDeletionQueue, root>>
    BY <1>6 DEF delete_collection
  <2> QED BY <1>1, <2>1, ConfigStep
<1>7. CASE \E ring \in Rings : clean_up_old_roots(ring)
  <2>1. UNCHANGED <<collection, sessions, members, queueVars, ringVars,
                    pendingSuspensions, staleRings, ringDeletionQueue, root>>
    BY <1>7 DEF clean_up_old_roots
  <2> QED BY <1>1, <2>1, ConfigStep
<1>8. CASE UNCHANGED vars
  <2>1. UNCHANGED <<collection, sessions, members, queueVars, ringVars,
                    pendingSuspensions, staleRings, ringDeletionQueue, root>>
    BY <1>8 DEF vars
  <2> QED BY <1>1, <2>1, ConfigStep
<1> QED BY <1>2, <1>3, <1>4, <1>5, <1>6, <1>7, <1>8

\* Every call keeps the invariant.
LEMMA MembersStep == ASSUME Supported, MembersInv, [Next]_vars PROVE MembersInv'
<1>1. CASE \E k \in Keys : add_members(k)
  BY <1>1, AddStep
<1>2. CASE \E k \in Keys : queue_member_suspensions(k)
  BY <1>2, SuspendStep
<1>3. CASE \E ring \in Rings : remove_ring(ring)
  <2>1. PICK ring \in Rings : remove_ring(ring)
    BY <1>3
  <2>2. /\ collection = "Live" /\ Deletable /\ ring # currentRingIndex
        /\ enqueue_ring_for_deletion(ring)
    BY <2>1 DEF remove_ring, Live, Removable
  <2> QED BY <2>2, EnqueueStep
<1>4. CASE \E k \in Keys : self_include(k)
  BY <1>4, SelfIncludeStep
<1>5. CASE \E pair \in MergePairs : merge_rings(pair[1], pair[2])
  <2>1. PICK pair \in MergePairs : merge_rings(pair[1], pair[2])
    BY <1>5
  <2>2. /\ pair[1] \in Rings /\ pair[2] \in Rings
        /\ <<pair[1], pair[2]>> \in MergePairs
    BY MembersAssumption
  <2> QED BY <2>1, <2>2, MergeRingsStep
<1>6. CASE \E ring \in Rings : RemoveSuspendedKeys(ring)
  BY <1>6, RemoveStep
<1>7. CASE MergeQueuePages
  BY <1>7, MergePagesStep
<1>8. CASE OnboardMembers
  BY <1>8, OnboardStep
<1>9. CASE \E ring \in Rings, n \in 1..RingBuildingMemberLimit : BuildRing(ring, n)
  BY <1>9, BuildStep
<1>10. CASE \E ring \in Rings, page \in RingPages : delete_ring_page(ring, page)
  BY <1>10, DeletePageStep
<1>11. CASE \E ring \in Rings : enqueue_ring_deletion(ring)
  <2>1. PICK ring \in Rings : enqueue_ring_deletion(ring)
    BY <1>11
  <2>2. collection = "Suspended" /\ enqueue_ring_for_deletion(ring)
    BY <2>1 DEF enqueue_ring_deletion, ensure_can_enqueue_ring_deletion
  <2>3. Deletable
    BY <2>2 DEF MembersInv, ModeInv
  <2> QED BY <2>2, <2>3, EnqueueStep
<1>12. CASE \E page \in 0..(QueuePages - 1) : delete_onboarding_queue_page(page)
  BY <1>12, DeleteQueuePageStep DEF QueueIndices
<1>13. CASE finalize_collection_deletion
  BY <1>13, FinalizeStep
<1>14. CASE \/ \E size \in OnboardingSizes :
                  create_collection(size) \/ set_onboarding_size(size)
            \/ ~AppendOnly /\ start_removal_session
            \/ end_removal_session \/ delete_collection
            \/ \E ring \in Rings : clean_up_old_roots(ring)
            \/ UNCHANGED vars
  BY <1>14, OwnerConfigStep
<1> QED
  BY <1>1, <1>2, <1>3, <1>4, <1>5, <1>6, <1>7, <1>8, <1>9, <1>10, <1>11, <1>12,
     <1>13, <1>14 DEF Next, OwnerNext, UserNext, WorkerNext

\* The invariant holds in every state.
LEMMA Invariant == ASSUME Supported PROVE Spec => []MembersInv
<1>1. Init => MembersInv
  BY MembersInit
<1>2. MembersInv /\ [Next]_vars => MembersInv'
  BY MembersStep
<1> QED BY <1>1, <1>2, PTL DEF Spec

-----------------------------------------------------------------------------
(* What the invariant says of the properties.                              *)

\* The sum the property writes with the community modules' fold.
LEMMA TotalsSum ==
  ASSUME MemberTypes
  PROVE  MapThenSumSet(LAMBDA r : ringStatus[r].total, DOMAIN ringStatus) = SumOfTotals(ringStatus)
<1> DEFINE f == [r \in DOMAIN ringStatus |-> ringStatus[r].total]
<1>1. /\ IsFiniteSet(DOMAIN ringStatus)
      /\ \A x \in DOMAIN ringStatus : f[x] = ringStatus[x].total /\ f[x] \in Nat
  <2>0. MaxRingIndex \in Int /\ 0 \in Int
    BY MembersAssumption
  <2>1. DOMAIN ringStatus \subseteq Rings /\ IsFiniteSet(Rings)
    BY <2>0, FS_Interval DEF MemberTypes, IsPartialFunction, Rings
  <2>2. IsFiniteSet(DOMAIN ringStatus)
    BY <2>1, FS_Subset
  <2>3. \A x \in DOMAIN ringStatus : ringStatus[x].total \in Nat
    BY PagesOfRing DEF MemberTypes, IsPartialFunction, StatusType
  <2> QED BY <2>2, <2>3
<1> DEFINE Sums(iter) ==
      iter = [s \in SUBSET DOMAIN ringStatus |->
                IF s = {} THEN 0
                ELSE ringStatus[CHOOSE x \in s : TRUE].total
                       + iter[s \ {CHOOSE x \in s : TRUE}]]
<1>2. \A iter : Sums(iter) <=> SumsUp(iter, DOMAIN ringStatus, f)
  <2>1. \A s \in SUBSET DOMAIN ringStatus : s # {} =>
          ringStatus[CHOOSE x \in s : TRUE].total = f[CHOOSE x \in s : TRUE]
    BY <1>1, Picked
  <2> QED BY <2>1 DEF SumsUp
<1>3. MapThenSumSet(LAMBDA r : ringStatus[r].total, DOMAIN ringStatus)
        = (CHOOSE iter : Sums(iter))[DOMAIN ringStatus]
  BY DEF MapThenSumSet, MapThenFoldSet
<1>4. SumOfTotals(ringStatus) = Total(DOMAIN ringStatus, f)
  BY DEF SumOfTotals
<1> HIDE DEF Sums, f
<1>5. /\ \E iter : SumsUp(iter, DOMAIN ringStatus, f)
      /\ \A iter : SumsUp(iter, DOMAIN ringStatus, f)
                     => iter[DOMAIN ringStatus] = Total(DOMAIN ringStatus, f)
  BY <1>1, SumsUpUnique
<1>6. SumsUp((CHOOSE iter : Sums(iter)), DOMAIN ringStatus, f)
  BY <1>2, <1>5
<1> QED BY <1>3, <1>4, <1>5, <1>6

\* The counters agree with what is stored.
LEMMA CountsImplied == MembersInv => CountsExact
<1> SUFFICES ASSUME MembersInv PROVE CountsExact
  OBVIOUS
<1>1. activeMembers = MapThenSumSet(LAMBDA r : ringStatus[r].total, DOMAIN ringStatus)
  BY TotalsSum DEF MembersInv, ActiveInv
<1>2. /\ \A r \in DOMAIN ringStatus :
           /\ ringStatus[r].included <= ringStatus[r].total
           /\ \A p \in RingPages :
                Len(ringKeys[r][p]) =
                  Max({0, Min({PageSize, ringStatus[r].total - p * PageSize})})
      /\ \A r \in Rings \ DOMAIN ringStatus, p \in RingPages :
           ringKeys[r][p] # <<>> => <<r, p>> \in ringDeletionQueue
  BY Zenon DEF MembersInv, RingsInv, PageFill
<1> QED BY <1>1, <1>2, Zenon DEF CountsExact

\* A ring with keys to include is known to the worker.
LEMMA WorkImplied == MembersInv => WorkTracked
<1> SUFFICES ASSUME MembersInv, NEW r \in Rings PROVE ~ensure_can_mark_ring_stale(r)
  BY DEF WorkTracked
<1>1. CASE r \in DOMAIN ringStatus
  <2>1. r \in staleRings \/ ringStatus[r].total <= ringStatus[r].included
    BY <1>1 DEF MembersInv, StaleInv
  <2>2. ringStatus[r].total \in Nat /\ ringStatus[r].included \in Nat
    BY <1>1, PagesOfRing DEF MembersInv, MemberTypes, IsPartialFunction, StatusType
  <2> QED BY <1>1, <2>1, <2>2 DEF ensure_can_mark_ring_stale, Status
<1>2. CASE r \notin DOMAIN ringStatus
  BY <1>2 DEF ensure_can_mark_ring_stale, Status, NoStatus
<1> QED BY <1>1, <1>2

\* A deleted collection leaves nothing behind.
LEMMA CleanImplied == MembersInv => DeletedClean
<1> SUFFICES ASSUME MembersInv, collection = "None"
             PROVE  /\ \A k \in Keys : members[k] \in {NotMember, Suspended}
                    /\ \A r \in Rings, p \in RingPages : ringKeys[r][p] = <<>>
                    /\ DOMAIN root = {} /\ DOMAIN onboardingQueue = {}
                    /\ staleRings = {} /\ \A r \in Rings : pendingSuspensions[r] = {}
  BY DEF DeletedClean
<1>1. DOMAIN onboardingQueue = {} /\ DOMAIN ringStatus = {} /\ ringDeletionQueue = {}
  BY DEF MembersInv, NoneInv
<1>2. DOMAIN root = {} /\ staleRings = {}
  BY <1>1 DEF MembersInv, RootsInv, StaleInv
<1>3. \A r \in Rings, p \in RingPages : ringKeys[r][p] = <<>>
  BY <1>1 DEF MembersInv, RingsInv
<1>4. ASSUME NEW r \in Rings PROVE pendingSuspensions[r] = {}
  <2>1. pendingSuspensions[r] \subseteq Nat
    BY DEF MembersInv, MemberTypes
  <2>2. \A s \in pendingSuspensions[r] : s < Len(ringKeys[r][0])
    BY DEF MembersInv, SlotsInv
  <2>3. Len(ringKeys[r][0]) = 0
    BY <1>3, PagesOfRing
  <2> QED BY <2>1, <2>2, <2>3
<1>5. ASSUME NEW k \in Keys PROVE members[k] \in {NotMember, Suspended}
  <2>1. members[k] \in Positions
    BY DEF MembersInv, MemberTypes
  <2>2. ASSUME NEW p \in QueueIndices PROVE members[k] # Onboarding(p)
    <3>1. Queued(p) = <<>>
      BY <1>1 DEF Queued
    <3>2. k \notin Range(Queued(p))
      BY <3>1 DEF Range
    <3> QED BY <3>2 DEF MembersInv, QueueExact, QueueIndices
  <2>3. ASSUME NEW r \in Rings, NEW p \in RingPages, NEW s \in Nat
        PROVE  members[k] # Included(r, p, s)
    <3> SUFFICES ASSUME members[k] = Included(r, p, s) PROVE FALSE
      OBVIOUS
    <3>1. members[k].at = "Included" /\ members[k].ring = r /\ members[k].page = p
      BY DEF Included
    <3>2. members[k].slot + 1 \in DOMAIN ringKeys[r][p]
      BY <3>1 DEF MembersInv, SlotsInv, SlotsExact
    <3> QED BY <1>3, <3>2
  <2> QED BY <2>1, <2>2, <2>3 DEF Positions
<1> QED BY <1>1, <1>2, <1>3, <1>4, <1>5

\* The record of a waiting member names the one page that holds its key.
THEOREM QueueExactCorrect == ASSUME Supported PROVE Spec => []QueueExact
<1>1. MembersInv => QueueExact
  BY DEF MembersInv
<1> QED BY Invariant, <1>1, PTL

\* The record of an included member names the slot that holds its key.
THEOREM SlotsExactCorrect == ASSUME Supported PROVE Spec => []SlotsExact
<1>1. MembersInv => SlotsExact
  BY DEF MembersInv, SlotsInv
<1> QED BY Invariant, <1>1, PTL

\* The counters kept by hand agree with the keys stored.
THEOREM CountsExactCorrect == ASSUME Supported PROVE Spec => []CountsExact
BY Invariant, CountsImplied, PTL

\* A root commits to exactly the first `included` keys of its ring.
THEOREM RootCommitsCorrect == ASSUME Supported PROVE Spec => []RootCommits
<1>1. MembersInv => RootCommits
  BY DEF MembersInv, RootsInv
<1> QED BY Invariant, <1>1, PTL

\* The worker forgets no ring with keys that no root covers yet.
THEOREM WorkTrackedCorrect == ASSUME Supported PROVE Spec => []WorkTracked
BY Invariant, WorkImplied, PTL

\* The ring that takes new keys has room, as `available_ring` asserts.
THEOREM CurrentOpenCorrect == ASSUME Supported PROVE Spec => []CurrentOpen
<1>1. MembersInv => CurrentOpen
  BY CurrentRing DEF CurrentOpen
<1> QED BY Invariant, <1>1, PTL

\* A deleted collection leaves no key, ring or root behind.
THEOREM DeletedCleanCorrect == ASSUME Supported PROVE Spec => []DeletedClean
BY Invariant, CleanImplied, PTL

-----------------------------------------------------------------------------
(* Rings that became immutable, and what the hook was told.                *)

\* What ImmutableFrozen promises of a ring.
Frozen(r) ==
  /\ ringStatus'[r] = ringStatus[r] /\ ringKeys'[r] = ringKeys[r]
  /\ root'[r] = root[r]

\* An immutable ring is full, built and behind the current ring.
LEMMA ImmutableFacts ==
  ASSUME MembersInv, NEW r \in DOMAIN ringStatus, ringStatus[r].immutable
  PROVE  /\ AppendOnly /\ r \in Rings /\ r \in DOMAIN root
         /\ ringStatus[r].included = RingCapacity /\ ringStatus[r].total = RingCapacity
         /\ r # currentRingIndex
<1>1. /\ AppendOnly
      /\ ringStatus[r].included = RingCapacity /\ ringStatus[r].total = RingCapacity
      /\ currentRingIndex <= r => ringStatus[r].total < RingCapacity
  BY DEF MembersInv, RingsInv
<1>2. r \in Rings /\ r \in Int /\ Status(r) = ringStatus[r]
  BY DEF MembersInv, MemberTypes, IsPartialFunction, Rings, Status
<1>3. r \in DOMAIN root
  <2>1. Status(r).included # 0
    BY <1>1, <1>2, PagesOfRing
  <2> QED BY <1>2, <2>1 DEF MembersInv, RootsInv, RootCommits
<1>4. r # currentRingIndex
  <2> SUFFICES ASSUME r = currentRingIndex PROVE FALSE
    OBVIOUS
  <2>1. ringStatus[r].total < RingCapacity
    BY <1>1, <1>2
  <2> QED BY <1>1, <2>1, PagesOfRing
<1> QED BY <1>1, <1>2, <1>3, <1>4

\* Keys enter the current ring only.
LEMMA EnterFrozen ==
  ASSUME MembersInv, NEW r \in DOMAIN ringStatus, ringStatus[r].immutable,
         NEW ring, NEW entering, EnterRing(ring, entering), ring # r,
         UNCHANGED rootVars
  PROVE  Frozen(r)
<1>1. /\ ringKeys' = [ringKeys EXCEPT ![ring] = ringKeys'[ring]]
      /\ ringStatus' = Insert(ringStatus, ring,
                              [Status(ring) EXCEPT !.total = Status(ring).total + Len(entering)])
  BY DEF EnterRing, MembersInv, MemberTypes
<1>2. ringKeys'[r] = ringKeys[r]
  BY <1>1, ImmutableFacts DEF MembersInv, MemberTypes
<1>3. ringStatus'[r] = ringStatus[r]
  BY <1>1 DEF Insert
<1> QED BY <1>2, <1>3 DEF Frozen, rootVars

\* No call changes an immutable ring, and only its removal drops it.
LEMMA FrozenStep ==
  ASSUME Supported, MembersInv, [Next]_vars,
         NEW r \in DOMAIN ringStatus, r \in DOMAIN ringStatus', ringStatus[r].immutable
  PROVE  Frozen(r)
<1> USE DEF ringVars, rootVars
<1>1. /\ AppendOnly /\ r \in Rings /\ r \in DOMAIN root
      /\ ringStatus[r].included = RingCapacity /\ ringStatus[r].total = RingCapacity
      /\ r # currentRingIndex
  BY ImmutableFacts
<1>2. ringKeys \in [Rings -> [RingPages -> Seq(Keys)]]
  BY DEF MembersInv, MemberTypes
<1>3. ASSUME UNCHANGED <<ringVars, root>> PROVE Frozen(r)
  BY <1>3 DEF Frozen
<1>4. ASSUME NEW ring \in Rings, enqueue_ring_for_deletion(ring) PROVE Frozen(r)
  <2>1. /\ root' = Without(root, ring) /\ ringStatus' = Without(ringStatus, ring)
        /\ ringKeys' = ringKeys
    BY <1>4 DEF enqueue_ring_for_deletion, DropRoot
  <2>2. r # ring
    BY <2>1 DEF Without
  <2> QED BY <1>1, <2>1, <2>2 DEF Frozen, Without
<1>5. CASE OwnerNext
  <2>1. CASE \E ring \in Rings : remove_ring(ring)
    BY <2>1, <1>4 DEF remove_ring
  <2>2. CASE ~\E ring \in Rings : remove_ring(ring)
    <3>1. UNCHANGED <<ringVars, root>>
      BY <1>5, <2>2 DEF OwnerNext, create_collection, set_onboarding_size, add_members,
         queue_member_suspensions, start_removal_session, end_removal_session,
         delete_collection
    <3> QED BY <3>1, <1>3
  <2> QED BY <2>1, <2>2
<1>6. CASE \E k \in Keys : self_include(k)
  <2>1. PICK k \in Keys : self_include(k)
    BY <1>6
  <2>2. Live /\ EnterRing(available_ring, <<k>>) /\ UNCHANGED rootVars
    BY <2>1 DEF self_include
  <2>3. available_ring = currentRingIndex
    BY <2>2, CurrentRing
  <2> QED BY <1>1, <2>2, <2>3, EnterFrozen
<1>7. CASE \E pair \in MergePairs : merge_rings(pair[1], pair[2])
  BY <1>1, <1>7 DEF Supported
<1>8. CASE \E ring \in Rings : RemoveSuspendedKeys(ring)
  <2>1. PICK ring \in Rings : pendingSuspensions[ring] # {}
    BY <1>8 DEF RemoveSuspendedKeys, should_remove_suspended_keys
  <2> QED BY <1>1, <2>1 DEF MembersInv, ModeInv
<1>9. CASE MergeQueuePages
  BY <1>3, <1>9 DEF MergeQueuePages
<1>10. CASE OnboardMembers
  <2>1. /\ EnterRing(currentRingIndex,
                     SubSeq(FrontKeys(RingCapacity - Status(currentRingIndex).total), 1,
                       Min({Len(FrontKeys(RingCapacity - Status(currentRingIndex).total)),
                            RingCapacity - Status(currentRingIndex).total})))
        /\ UNCHANGED rootVars
    BY <1>10, Zenon DEF OnboardMembers
  <2> QED BY <1>1, <2>1, EnterFrozen
<1>11. CASE \E ring \in Rings, n \in 1..RingBuildingMemberLimit : BuildRing(ring, n)
  <2>1. PICK ring \in Rings, n \in 1..RingBuildingMemberLimit : BuildRing(ring, n)
    BY <1>11
  <2>2. n \in 1..ToBuild(ring) /\ ringKeys' = ringKeys
    BY <2>1 DEF BuildRing, ensure_can_build_ring
  <2>3. PICK w, v : /\ root' = Insert(root, ring, w) /\ ringStatus' = Insert(ringStatus, ring, v)
    BY <2>1 DEF BuildRing
  <2>4. r # ring
    <3> SUFFICES ASSUME r = ring PROVE FALSE
      OBVIOUS
    <3>1. Status(ring).total - Status(ring).included = 0
      BY <1>1, PagesOfRing DEF Status
    <3>2. PICK a \in Int : a = ToBuild(ring) /\ a <= 0
      <4>1. RingBuildingMemberLimit \in Nat
        BY MembersAssumption
      <4>2. \A l \in Nat : Min({0, l}) = 0
        BY MinOfTwo
      <4> QED BY <3>1, <4>1, <4>2 DEF ToBuild
    <3> QED BY <2>2, <3>2
  <2> QED BY <1>1, <2>2, <2>3, <2>4 DEF Frozen, Insert
<1>12. CASE \E ring \in Rings, page \in RingPages : delete_ring_page(ring, page)
  <2>1. PICK ring \in Rings, page \in RingPages : delete_ring_page(ring, page)
    BY <1>12
  <2>2. /\ <<ring, page>> \in ringDeletionQueue
        /\ ringKeys' = [ringKeys EXCEPT ![ring][page] = <<>>]
        /\ UNCHANGED <<ringStatus, root>>
    BY <2>1 DEF delete_ring_page, ensure_can_delete_ring_page
  <2>3. r # ring
    <3>1. <<ring, page>>[1] \notin DOMAIN ringStatus
      BY <2>2 DEF MembersInv, RingsInv
    <3> QED BY <3>1
  <2> QED BY <1>1, <1>2, <2>2, <2>3 DEF Frozen
<1>13. CASE \E ring \in Rings : enqueue_ring_deletion(ring)
  BY <1>4, <1>13 DEF enqueue_ring_deletion
<1>14. CASE \/ \E page \in 0..(QueuePages - 1) : delete_onboarding_queue_page(page)
            \/ \E ring \in Rings : clean_up_old_roots(ring)
  BY <1>3, <1>14 DEF delete_onboarding_queue_page, clean_up_old_roots
<1>15. CASE finalize_collection_deletion
  <2>1. DOMAIN ringStatus = {}
    BY <1>15 DEF finalize_collection_deletion, ensure_can_finalize_collection_deletion, RingsGone
  <2> QED BY <2>1
<1>16. CASE UNCHANGED vars
  BY <1>3, <1>16 DEF vars
<1> QED
  BY <1>5, <1>6, <1>7, <1>8, <1>9, <1>10, <1>11, <1>12, <1>13, <1>14, <1>15, <1>16
     DEF Next, UserNext, WorkerNext

\* A ring that became immutable keeps its keys and its root until removed.
THEOREM ImmutableFrozenCorrect == ASSUME Supported PROVE Spec => ImmutableFrozen
<1>1. MembersInv /\ [Next]_vars =>
        [\A r \in DOMAIN ringStatus \cap DOMAIN ringStatus' :
           ringStatus[r].immutable =>
             /\ ringStatus'[r] = ringStatus[r] /\ ringKeys'[r] = ringKeys[r]
             /\ root'[r] = root[r]]_vars
  BY FrozenStep DEF Frozen
<1> QED BY Invariant, <1>1, PTL DEF Spec, ImmutableFrozen

\* What was announced, and of what type it is.
AnnouncedInv == announced \in [Rings -> Int] /\ RootsAnnounced

\* In the beginning nothing was announced.
LEMMA AnnouncedInit == Init => AnnouncedInv
BY DEF Init, AnnouncedInv, RootsAnnounced, Deleted

\* In an append-only collection every change of a root is announced: the one
\* change that is not, RemoveSuspendedKeys, has nothing to remove.
LEMMA AnnouncedStep ==
  ASSUME Supported, AppendOnly, MembersInv, AnnouncedInv, [Next]_vars
  PROVE  AnnouncedInv'
<1> USE DEF rootVars
<1>1. ASSUME UNCHANGED <<root, announced>> PROVE AnnouncedInv'
  BY <1>1 DEF AnnouncedInv, RootsAnnounced
<1>2. ASSUME NEW ring \in Rings, DropRoot(ring) PROVE AnnouncedInv'
  <2>1. /\ root' = Without(root, ring)
        /\ ring \in DOMAIN root => announced' = [announced EXCEPT ![ring] = Deleted]
        /\ ring \notin DOMAIN root => announced' = announced
    BY <1>2 DEF DropRoot, Announce
  <2>2. CASE ring \in DOMAIN root
    BY <2>1, <2>2 DEF AnnouncedInv, RootsAnnounced, Without, Deleted
  <2>3. CASE ring \notin DOMAIN root
    BY <2>1, <2>3 DEF AnnouncedInv, RootsAnnounced, Without
  <2> QED BY <2>2, <2>3
<1>3. CASE OwnerNext
  <2>1. CASE \E ring \in Rings : remove_ring(ring)
    BY <2>1, <1>2 DEF remove_ring, enqueue_ring_for_deletion
  <2>2. CASE ~\E ring \in Rings : remove_ring(ring)
    <3>1. UNCHANGED <<root, announced>>
      BY <1>3, <2>2 DEF OwnerNext, create_collection, set_onboarding_size, add_members,
         queue_member_suspensions, start_removal_session, end_removal_session,
         delete_collection
    <3> QED BY <3>1, <1>1
  <2> QED BY <2>1, <2>2
<1>4. CASE \E k \in Keys : self_include(k)
  BY <1>1, <1>4 DEF self_include
<1>5. CASE \E pair \in MergePairs : merge_rings(pair[1], pair[2])
  BY <1>5 DEF Supported
<1>6. CASE \E ring \in Rings : RemoveSuspendedKeys(ring)
  <2>1. PICK ring \in Rings : pendingSuspensions[ring] # {}
    BY <1>6 DEF RemoveSuspendedKeys, should_remove_suspended_keys
  <2> QED BY <2>1 DEF MembersInv, ModeInv
<1>7. CASE MergeQueuePages \/ OnboardMembers
  BY <1>1, <1>7, Zenon DEF MergeQueuePages, OnboardMembers
<1>8. CASE \E ring \in Rings, n \in 1..RingBuildingMemberLimit : BuildRing(ring, n)
  <2>1. PICK ring \in Rings, n \in 1..RingBuildingMemberLimit : BuildRing(ring, n)
    BY <1>8
  <2> DEFINE revision == IF ring \notin DOMAIN root THEN 0 ELSE root[ring].revision + 1
  <2>2. PICK w : /\ root' = Insert(root, ring, w) /\ w.revision = revision
                 /\ announced' = [announced EXCEPT ![ring] = revision]
    BY <2>1 DEF BuildRing, Announce
  <2>3. revision \in Int
    BY DEF MembersInv, MemberTypes, IsPartialFunction
  <2> HIDE DEF revision
  <2> QED BY <2>2, <2>3 DEF AnnouncedInv, RootsAnnounced, Insert
<1>9. CASE \E ring \in Rings : enqueue_ring_deletion(ring)
  BY <1>2, <1>9 DEF enqueue_ring_deletion, enqueue_ring_for_deletion
<1>10. CASE \/ \E ring \in Rings, page \in RingPages : delete_ring_page(ring, page)
            \/ \E page \in 0..(QueuePages - 1) : delete_onboarding_queue_page(page)
            \/ finalize_collection_deletion
            \/ \E ring \in Rings : clean_up_old_roots(ring)
  BY <1>1, <1>10 DEF delete_ring_page, delete_onboarding_queue_page,
     finalize_collection_deletion, clean_up_old_roots
<1>11. CASE UNCHANGED vars
  BY <1>1, <1>11 DEF vars
<1> QED
  BY <1>3, <1>4, <1>5, <1>6, <1>7, <1>8, <1>9, <1>10, <1>11
     DEF Next, UserNext, WorkerNext

\* In an append-only collection the hook was told last what is in storage.
THEOREM RootsAnnouncedCorrect ==
  ASSUME Supported, AppendOnly
  PROVE  Spec => []RootsAnnounced
<1>1. Init => AnnouncedInv
  BY AnnouncedInit
<1>2. MembersInv /\ AnnouncedInv /\ [Next]_vars => AnnouncedInv'
  BY AnnouncedStep
<1>3. AnnouncedInv => RootsAnnounced
  BY DEF AnnouncedInv
<1> QED BY Invariant, <1>1, <1>2, <1>3, PTL DEF Spec

-----------------------------------------------------------------------------
(* Old roots: what an accepted revision stands for.                        *)

\* The collection is created once, and no ring is merged both into another
\* one and from another one; else a ring index can start again at revision 0
\* while old roots of its earlier life are still there.
UsedOnce == MaxCreations <= 1 /\ \A p, q \in MergePairs : p[1] # q[2]

\* Rings that others are merged into; the rings behind the current one that
\* will never hold keys again.
Bases == {p[1] : p \in MergePairs}
Spent(r) == r < currentRingIndex /\ r \notin DOMAIN ringStatus /\ r \notin Bases

\* An old root is older than its ring's root, or its ring has ended.
Older ==
  \A x \in DOMAIN oldRoots :
    IF x[1] \in DOMAIN root THEN x[2] < root[x[1]].revision ELSE Live => Spent(x[1])

OldRootsInv ==
  /\ IsPartialFunction(oldRoots, Rings \X Nat, SUBSET Keys)
  /\ Older
  /\ \A r \in DOMAIN ringStatus : currentRingIndex < r => r \in Bases
  /\ created \in Nat /\ (created = 0 => collection = "None" /\ DOMAIN oldRoots = {})

\* The ways a step changes the roots and the old roots.
Restricts ==
  UNCHANGED root /\ \E S : oldRoots' = [x \in DOMAIN oldRoots \cap S |-> oldRoots[x]]
Drops(ring) ==
  /\ root' = Without(root, ring) /\ oldRoots' = Archived(ring)
  /\ collection # "None" /\ ring \notin DOMAIN ringStatus'
  /\ ring \in DOMAIN ringStatus /\ Live => ring # currentRingIndex /\ ring \notin Bases
Renews(ring) ==
  /\ Live /\ ring \in DOMAIN ringStatus
  /\ oldRoots' = Archived(ring)
  /\ \E w \in [revision : Nat, keys : SUBSET Keys] :
       /\ root' = Insert(root, ring, w)
       /\ w.revision = IF ring \in DOMAIN root THEN root[ring].revision + 1 ELSE 0

\* What archiving a root adds to the old ones.
LEMMA Archiving ==
  ASSUME MemberTypes, NEW ring \in Rings
  PROVE  /\ ring \notin DOMAIN root => Archived(ring) = oldRoots
         /\ ring \in DOMAIN root =>
              /\ root[ring].revision \in Nat /\ root[ring].keys \in SUBSET Keys
              /\ Archived(ring) = Insert(oldRoots, <<ring, root[ring].revision>>, root[ring].keys)
BY DEF Archived, MemberTypes, IsPartialFunction

\* A ring that is rebuilt after suspended keys were removed has a status.
LEMMA CleanedRing ==
  ASSUME MembersInv, Supported, NEW ring \in Rings, pendingSuspensions[ring] # {}
  PROVE  ring \in DOMAIN ringStatus
<1>1. PICK s \in Nat : s \in pendingSuspensions[ring]
  BY DEF MembersInv, MemberTypes
<1>2. s < Len(ringKeys[ring][0])
  BY <1>1 DEF MembersInv, SlotsInv
<1>3. ringKeys[ring][0] # <<>>
  BY <1>1, <1>2
<1>4. ringDeletionQueue = {}
  BY DEF MembersInv, ModeInv, Supported
<1> QED BY <1>3, <1>4, PagesOfRing DEF MembersInv, RingsInv

\* A ring has at least as many keys as can be included in its root.
LEMMA Buildable ==
  ASSUME MemberTypes, NEW ring \in Rings, NEW n \in 1..ToBuild(ring)
  PROVE  /\ ring \in DOMAIN ringStatus
         /\ Status(ring).included \in Nat /\ Status(ring).included + n \in Nat
         /\ Status(ring).included + n <= Status(ring).total
<1>1. PICK a \in Nat, b \in Nat, l \in Nat :
        /\ a = Status(ring).total /\ b = Status(ring).included
        /\ l = RingBuildingMemberLimit
  BY StatusFacts, MembersAssumption
<1>2. ToBuild(ring) \in Int /\ (ToBuild(ring) = 0 \/ ToBuild(ring) <= a - b)
  <2>1. ToBuild(ring) = 0 \/ ToBuild(ring) = Min({a - b, l})
    BY <1>1 DEF ToBuild
  <2>2. a - b \in Int /\ Min({a - b, l}) = IF a - b <= l THEN a - b ELSE l
    BY MinOfTwo
  <2> QED BY ONLY <2>1, <2>2, a \in Nat, b \in Nat, l \in Nat
<1>3. n \in Nat /\ b + n <= a /\ a # 0
  BY <1>2
<1>4. ring \in DOMAIN ringStatus
  BY <1>1, <1>3, StatusFacts
<1> QED BY <1>1, <1>3, <1>4

\* Every step is of one of these kinds.
LEMMA RootsChange ==
  ASSUME Supported, UsedOnce, MembersInv, [Next]_vars,
         IsPartialFunction(oldRoots, Rings \X Nat, SUBSET Keys)
  PROVE  Restricts \/ \E ring \in Rings : Drops(ring) \/ Renews(ring)
<1> USE DEF rootVars
<1>0. MemberTypes
  BY DEF MembersInv
<1>1. ASSUME UNCHANGED <<root, oldRoots>> PROVE Restricts
  <2>1. oldRoots' = [x \in DOMAIN oldRoots \cap DOMAIN oldRoots |-> oldRoots[x]]
    BY <1>1 DEF IsPartialFunction
  <2> QED BY <1>1, <2>1 DEF Restricts
<1>2. ASSUME NEW ring \in Rings, enqueue_ring_for_deletion(ring), Deletable,
             collection # "None", Live => ring # currentRingIndex
      PROVE  Drops(ring)
  <2>1. /\ root' = Without(root, ring) /\ oldRoots' = Archived(ring)
        /\ ringStatus' = Without(ringStatus, ring)
    BY <1>2 DEF enqueue_ring_for_deletion, DropRoot
  <2>2. ring \notin Bases
    BY <1>2 DEF Supported, Bases
  <2> QED BY <1>2, <2>1, <2>2 DEF Drops, Without
<1>3. CASE OwnerNext
  <2>1. CASE \E ring \in Rings : remove_ring(ring)
    BY <2>1, <1>2 DEF remove_ring, Live, Removable
  <2>2. CASE ~\E ring \in Rings : remove_ring(ring)
    <3>1. UNCHANGED <<root, oldRoots>>
      BY <1>3, <2>2 DEF OwnerNext, create_collection, set_onboarding_size, add_members,
         queue_member_suspensions, start_removal_session, end_removal_session,
         delete_collection
    <3> QED BY <3>1, <1>1
  <2> QED BY <2>1, <2>2
<1>4. CASE \E k \in Keys : self_include(k)
  BY <1>1, <1>4 DEF self_include
<1>5. CASE \E pair \in MergePairs : merge_rings(pair[1], pair[2])
  <2>1. PICK pair \in MergePairs : merge_rings(pair[1], pair[2])
    BY <1>5
  <2>2. PICK base \in Rings, target \in Rings : base = pair[1] /\ target = pair[2]
    BY MembersAssumption
  <2>3. /\ Live /\ target # currentRingIndex
        /\ root' = Without(root, target) /\ oldRoots' = Archived(target)
        /\ ringStatus' = Without(Insert(ringStatus, base, MergedStatus(base, target)), target)
    BY <2>1, <2>2 DEF merge_rings, DropRoot
  <2>4. target \notin Bases
    BY <2>2 DEF UsedOnce, Bases
  <2> QED BY <2>3, <2>4 DEF Drops, Without, Live
<1>6. CASE \E ring \in Rings : RemoveSuspendedKeys(ring)
  <2>1. PICK ring \in Rings : RemoveSuspendedKeys(ring)
    BY <1>6
  <2>2. /\ Live /\ pendingSuspensions[ring] # {} /\ oldRoots' = Archived(ring)
        /\ root' = IF ring \in DOMAIN root THEN [root EXCEPT ![ring] = EmptiedRoot(ring)]
                                           ELSE root
    BY <2>1 DEF RemoveSuspendedKeys, should_remove_suspended_keys
  <2>3. CASE ring \in DOMAIN root
    <3>1. ring \in DOMAIN ringStatus
      BY <2>2, CleanedRing
    <3>2. root' = Insert(root, ring, EmptiedRoot(ring))
      BY <1>0, <2>2, <2>3 DEF Insert, MemberTypes, IsPartialFunction
    <3>3. /\ EmptiedRoot(ring) \in [revision : Nat, keys : SUBSET Keys]
          /\ EmptiedRoot(ring).revision = root[ring].revision + 1
      <4>1. PICK v \in Nat : v = root[ring].revision
        BY <1>0, <2>3, Archiving
      <4>2. EmptiedRoot(ring) = [revision |-> v + 1, keys |-> {}]
        BY <4>1 DEF EmptiedRoot
      <4> QED BY <4>1, <4>2
    <3> QED BY <2>2, <2>3, <3>1, <3>2, <3>3 DEF Renews
  <2>4. CASE ring \notin DOMAIN root
    BY <1>0, <1>1, <2>2, <2>4, Archiving
  <2> QED BY <2>3, <2>4
<1>7. CASE MergeQueuePages \/ OnboardMembers
  BY <1>1, <1>7, Zenon DEF MergeQueuePages, OnboardMembers
<1>8. CASE \E ring \in Rings, n \in 1..RingBuildingMemberLimit : BuildRing(ring, n)
  <2>1. PICK ring \in Rings, n \in 1..RingBuildingMemberLimit : BuildRing(ring, n)
    BY <1>8
  <2> DEFINE w == [revision |-> IF ring \notin DOMAIN root THEN 0 ELSE root[ring].revision + 1,
                   keys |-> Intermediate(ring)
                     \cup KeysBetween(ring, Status(ring).included, Status(ring).included + n)]
  <2>2. /\ ensure_can_build_ring(ring, n) /\ oldRoots' = Archived(ring)
        /\ root' = Insert(root, ring, w)
    BY <2>1 DEF BuildRing
  <2>3. w.revision = IF ring \in DOMAIN root THEN root[ring].revision + 1 ELSE 0
    OBVIOUS
  <2>4. w.revision \in Nat
    <3>1. w.revision = IF ring \notin DOMAIN root THEN 0 ELSE root[ring].revision + 1
      OBVIOUS
    <3>2. ring \in DOMAIN root => root[ring].revision \in Nat
      BY <1>0, Archiving
    <3> HIDE DEF w
    <3> QED BY <3>1, <3>2
  <2>5. /\ Live /\ ring \in DOMAIN ringStatus
        /\ Status(ring).included \in Nat /\ Status(ring).included + n \in Nat
        /\ Status(ring).included + n <= Status(ring).total
    BY <1>0, <2>2, Buildable DEF ensure_can_build_ring
  <2>6. w.keys \in SUBSET Keys
    <3>1. Intermediate(ring) \subseteq Keys
      BY <1>0, Archiving DEF Intermediate
    <3>2. KeysBetween(ring, Status(ring).included, Status(ring).included + n) \subseteq Keys
      <4>1. RingsInv
        BY DEF MembersInv
      <4> QED BY <1>0, <2>5, <4>1, KeysType
    <3> QED BY <3>1, <3>2
  <2>7. w \in [revision : Nat, keys : SUBSET Keys]
    BY <2>4, <2>6
  <2> HIDE DEF w
  <2> QED BY <2>2, <2>3, <2>5, <2>7 DEF Renews
<1>9. CASE \E ring \in Rings : enqueue_ring_deletion(ring)
  <2>1. PICK ring \in Rings : enqueue_ring_for_deletion(ring) /\ collection = "Suspended"
    BY <1>9 DEF enqueue_ring_deletion, ensure_can_enqueue_ring_deletion
  <2>2. Deletable /\ ~Live
    BY <2>1 DEF MembersInv, ModeInv, Live
  <2> QED BY <1>2, <2>1, <2>2
<1>10. CASE \/ \E ring \in Rings, page \in RingPages : delete_ring_page(ring, page)
            \/ \E page \in 0..(QueuePages - 1) : delete_onboarding_queue_page(page)
            \/ finalize_collection_deletion
  BY <1>1, <1>10 DEF delete_ring_page, delete_onboarding_queue_page,
     finalize_collection_deletion
<1>11. CASE \E ring \in Rings : clean_up_old_roots(ring)
  <2>1. PICK ring \in Rings : clean_up_old_roots(ring)
    BY <1>11
  <2>2. PICK upTo : oldRoots' = [x \in {y \in DOMAIN oldRoots : y[1] # ring \/ y[2] > upTo}
                                   |-> oldRoots[x]]
    BY <2>1 DEF clean_up_old_roots
  <2>3. {y \in DOMAIN oldRoots : y[1] # ring \/ y[2] > upTo}
          = DOMAIN oldRoots \cap {y \in DOMAIN oldRoots : y[1] # ring \/ y[2] > upTo}
    OBVIOUS
  <2>4. UNCHANGED root
    BY <2>1 DEF clean_up_old_roots
  <2> QED BY <2>2, <2>3, <2>4 DEF Restricts
<1>12. CASE UNCHANGED vars
  BY <1>1, <1>12 DEF vars
<1> QED
  BY <1>3, <1>4, <1>5, <1>6, <1>7, <1>8, <1>9, <1>10, <1>11, <1>12
     DEF Next, UserNext, WorkerNext

\* The current ring never moves back, and only it and the rings others are
\* merged into get a status.
KeepsRings ==
  /\ currentRingIndex <= currentRingIndex'
  /\ \A r \in DOMAIN ringStatus' \ DOMAIN ringStatus : r = currentRingIndex \/ r \in Bases

\* A step keeps the rings in order, or finishes the deletion of the collection.
LEMMA RingLife ==
  ASSUME Supported, MembersInv, [Next]_vars
  PROVE  KeepsRings \/ (DOMAIN ringStatus' = {} /\ collection' = "None")
<1> USE DEF ringVars
<1>0. currentRingIndex \in Int /\ currentRingIndex + 1 >= currentRingIndex
  BY DEF MembersInv, MemberTypes, Rings
<1>1. ASSUME UNCHANGED <<ringStatus, currentRingIndex>> PROVE KeepsRings
  BY <1>0, <1>1 DEF KeepsRings
<1>2. ASSUME NEW entering, EnterRing(currentRingIndex, entering) PROVE KeepsRings
  <2>1. PICK v, filled : /\ ringStatus' = Insert(ringStatus, currentRingIndex, v)
                         /\ currentRingIndex' = IF filled THEN currentRingIndex + 1
                                                          ELSE currentRingIndex
    BY <1>2 DEF EnterRing
  <2> QED BY <1>0, <2>1 DEF KeepsRings, Insert
<1>3. ASSUME NEW ring \in Rings, enqueue_ring_for_deletion(ring) PROVE KeepsRings
  BY <1>0, <1>3 DEF enqueue_ring_for_deletion, KeepsRings, Without
<1>4. CASE OwnerNext
  <2>1. CASE \E ring \in Rings : remove_ring(ring)
    BY <2>1, <1>3 DEF remove_ring
  <2>2. CASE ~\E ring \in Rings : remove_ring(ring)
    <3>1. UNCHANGED <<ringStatus, currentRingIndex>>
      BY <1>4, <2>2 DEF OwnerNext, create_collection, set_onboarding_size, add_members,
         queue_member_suspensions, start_removal_session, end_removal_session,
         delete_collection
    <3> QED BY <3>1, <1>1
  <2> QED BY <2>1, <2>2
<1>5. CASE \E k \in Keys : self_include(k)
  <2>1. PICK k \in Keys : Live /\ EnterRing(available_ring, <<k>>)
    BY <1>5 DEF self_include
  <2> QED BY <1>2, <2>1, CurrentRing
<1>6. CASE \E pair \in MergePairs : merge_rings(pair[1], pair[2])
  <2>1. PICK pair \in MergePairs : merge_rings(pair[1], pair[2])
    BY <1>6
  <2>2. /\ ringStatus' = Without(Insert(ringStatus, pair[1], MergedStatus(pair[1], pair[2])),
                                 pair[2])
        /\ currentRingIndex' = currentRingIndex
    BY <2>1 DEF merge_rings
  <2>3. pair[1] \in Bases
    BY DEF Bases
  <2> QED BY <1>0, <2>2, <2>3 DEF KeepsRings, Insert, Without
<1>7. CASE \E ring \in Rings : RemoveSuspendedKeys(ring)
  <2>1. PICK ring \in Rings : RemoveSuspendedKeys(ring)
    BY <1>7
  <2>2. PICK v : /\ ringStatus' = Insert(ringStatus, ring, v)
                 /\ currentRingIndex' = currentRingIndex /\ pendingSuspensions[ring] # {}
    BY <2>1 DEF RemoveSuspendedKeys, should_remove_suspended_keys
  <2>3. ring \in DOMAIN ringStatus
    BY <2>2, CleanedRing
  <2> QED BY <1>0, <2>2, <2>3 DEF KeepsRings, Insert
<1>8. CASE MergeQueuePages
  BY <1>1, <1>8 DEF MergeQueuePages
<1>9. CASE OnboardMembers
  <2>1. EnterRing(currentRingIndex,
                  SubSeq(FrontKeys(RingCapacity - Status(currentRingIndex).total), 1,
                    Min({Len(FrontKeys(RingCapacity - Status(currentRingIndex).total)),
                         RingCapacity - Status(currentRingIndex).total})))
    BY <1>9, Zenon DEF OnboardMembers
  <2> QED BY <1>2, <2>1
<1>10. CASE \E ring \in Rings, n \in 1..RingBuildingMemberLimit : BuildRing(ring, n)
  <2>1. PICK ring \in Rings, n \in 1..RingBuildingMemberLimit : BuildRing(ring, n)
    BY <1>10
  <2>2. PICK v : /\ ringStatus' = Insert(ringStatus, ring, v)
                 /\ currentRingIndex' = currentRingIndex /\ n \in 1..ToBuild(ring)
    BY <2>1 DEF BuildRing, ensure_can_build_ring
  <2>3. ring \in DOMAIN ringStatus
    BY <2>2, Buildable DEF MembersInv
  <2> QED BY <1>0, <2>2, <2>3 DEF KeepsRings, Insert
<1>11. CASE \E ring \in Rings : enqueue_ring_deletion(ring)
  BY <1>3, <1>11 DEF enqueue_ring_deletion
<1>12. CASE \/ \E ring \in Rings, page \in RingPages : delete_ring_page(ring, page)
            \/ \E page \in 0..(QueuePages - 1) : delete_onboarding_queue_page(page)
            \/ \E ring \in Rings : clean_up_old_roots(ring)
  BY <1>1, <1>12 DEF delete_ring_page, delete_onboarding_queue_page, clean_up_old_roots
<1>13. CASE finalize_collection_deletion
  BY <1>13 DEF finalize_collection_deletion, ensure_can_finalize_collection_deletion, RingsGone
<1>14. CASE UNCHANGED vars
  BY <1>1, <1>14 DEF vars
<1> QED
  BY <1>4, <1>5, <1>6, <1>7, <1>8, <1>9, <1>10, <1>11, <1>12, <1>13, <1>14
     DEF Next, UserNext, WorkerNext

\* A collection that is created once is never used again after its end.
LEMMA CollectionLife ==
  ASSUME UsedOnce, OldRootsInv, [Next]_vars
  PROVE  /\ created' \in Nat /\ (created' = 0 => created = 0 /\ collection' = "None")
         /\ Live' => Live \/ (collection = "None" /\ DOMAIN oldRoots = {})
<1> USE DEF configVars
<1>1. created \in Nat /\ (created = 0 => collection = "None" /\ DOMAIN oldRoots = {})
  BY DEF OldRootsInv
<1>2. CASE \E size \in OnboardingSizes : create_collection(size)
  <2>1. created < MaxCreations /\ created' = created + 1
    BY <1>2 DEF create_collection
  <2>2. MaxCreations \in Nat /\ MaxCreations <= 1
    BY MembersAssumption DEF UsedOnce
  <2>3. created = 0
    BY <1>1, <2>1, <2>2
  <2> QED BY <1>1, <2>1, <2>3
<1>3. CASE \E size \in OnboardingSizes : set_onboarding_size(size)
  BY <1>1, <1>3 DEF set_onboarding_size, Live
<1>4. CASE delete_collection \/ finalize_collection_deletion
  BY <1>1, <1>4 DEF delete_collection, finalize_collection_deletion, Live,
     ensure_can_finalize_collection_deletion, RingsGone
<1>5. CASE UNCHANGED <<collection, created>>
  BY <1>1, <1>5 DEF Live
<1>6. CASE \/ start_removal_session \/ end_removal_session
           \/ \E k \in Keys : add_members(k) \/ queue_member_suspensions(k)
           \/ \E ring \in Rings : remove_ring(ring)
  BY <1>5, <1>6 DEF start_removal_session, end_removal_session, add_members,
     queue_member_suspensions, remove_ring, enqueue_ring_for_deletion
<1>7. CASE UserNext
  BY <1>5, <1>7 DEF UserNext, self_include, merge_rings
<1>8. CASE WorkerNext /\ ~finalize_collection_deletion
  <2>1. CASE \/ \E ring \in Rings : RemoveSuspendedKeys(ring)
             \/ MergeQueuePages \/ OnboardMembers
             \/ \E ring \in Rings, n \in 1..RingBuildingMemberLimit : BuildRing(ring, n)
    BY <1>5, <2>1, Zenon DEF RemoveSuspendedKeys, MergeQueuePages, OnboardMembers, BuildRing
  <2>2. CASE \/ \E ring \in Rings, page \in RingPages : delete_ring_page(ring, page)
             \/ \E ring \in Rings : enqueue_ring_deletion(ring)
             \/ \E page \in 0..(QueuePages - 1) : delete_onboarding_queue_page(page)
             \/ \E ring \in Rings : clean_up_old_roots(ring)
    BY <1>5, <2>2 DEF delete_ring_page, enqueue_ring_deletion, enqueue_ring_for_deletion,
       delete_onboarding_queue_page, clean_up_old_roots
  <2> QED BY <1>8, <2>1, <2>2 DEF WorkerNext
<1>9. CASE UNCHANGED vars
  BY <1>5, <1>9 DEF vars
<1> QED
  BY <1>2, <1>3, <1>4, <1>6, <1>7, <1>8, <1>9 DEF Next, OwnerNext

\* In the beginning there are no old roots.
LEMMA OldRootsInit == Init => OldRootsInv
<1> SUFFICES ASSUME Init PROVE OldRootsInv
  OBVIOUS
<1>1. /\ DOMAIN oldRoots = {} /\ oldRoots = <<>> /\ DOMAIN ringStatus = {}
      /\ collection = "None" /\ created = 0
  BY DEF Init
<1> QED BY <1>1 DEF OldRootsInv, Older, IsPartialFunction

\* A ring that is spent stays spent, and no other ring overtakes the current.
LEMMA SpentKept ==
  ASSUME MemberTypes, OldRootsInv, KeepsRings, currentRingIndex' \in Int
  PROVE  /\ \A r \in Rings : Spent(r) => Spent(r)'
         /\ \A r \in DOMAIN ringStatus' : r \in Int /\ currentRingIndex' < r => r \in Bases
<1>1. currentRingIndex \in Int /\ currentRingIndex <= currentRingIndex'
  BY DEF MemberTypes, Rings, KeepsRings
<1>2. ASSUME NEW r \in Rings, Spent(r) PROVE Spent(r)'
  <2>1. r \in Int /\ r < currentRingIndex /\ r \notin DOMAIN ringStatus /\ r \notin Bases
    BY <1>2 DEF Spent, Rings
  <2>2. r < currentRingIndex'
    BY <1>1, <2>1
  <2>3. r \notin DOMAIN ringStatus'
    BY <1>1, <2>1 DEF KeepsRings
  <2> QED BY <2>1, <2>2, <2>3 DEF Spent, Bases
<1>3. ASSUME NEW r \in DOMAIN ringStatus', r \in Int, currentRingIndex' < r PROVE r \in Bases
  <2>1. currentRingIndex < r
    BY <1>1, <1>3
  <2> QED BY <1>1, <1>3, <2>1 DEF KeepsRings, OldRootsInv
<1> QED BY <1>2, <1>3

\* Every step keeps old roots older than the present ones.
LEMMA OldRootsStep ==
  ASSUME Supported, UsedOnce, MembersInv, MembersInv', OldRootsInv, [Next]_vars
  PROVE  OldRootsInv'
<1>1. /\ MemberTypes /\ IsPartialFunction(oldRoots, Rings \X Nat, SUBSET Keys) /\ Older
      /\ created \in Nat /\ (created = 0 => collection = "None" /\ DOMAIN oldRoots = {})
      /\ DOMAIN root \subseteq DOMAIN ringStatus /\ DOMAIN root' \subseteq DOMAIN ringStatus'
      /\ currentRingIndex' \in Int /\ DOMAIN ringStatus' \subseteq Int
  BY DEF MembersInv, OldRootsInv, MemberTypes, IsPartialFunction, Rings, RootsInv
<1>2. /\ created' \in Nat /\ (created' = 0 => created = 0 /\ collection' = "None")
      /\ Live' => Live \/ (collection = "None" /\ DOMAIN oldRoots = {})
  BY CollectionLife
<1>3. /\ Live' => \A r \in Rings : Spent(r) => Spent(r)'
      /\ (\A r \in DOMAIN ringStatus : currentRingIndex < r => r \in Bases)'
  <2>1. CASE KeepsRings
    BY <1>1, <2>1, SpentKept DEF Bases
  <2>2. CASE DOMAIN ringStatus' = {} /\ collection' = "None"
    BY <2>2 DEF Live
  <2> QED BY <2>1, <2>2, RingLife
<1>4. \A x \in DOMAIN oldRoots : x[1] \in Rings /\ x[2] \in Nat /\ x = <<x[1], x[2]>>
  BY <1>1 DEF IsPartialFunction
<1>5. CASE Restricts
  <2>1. PICK S : oldRoots' = [x \in DOMAIN oldRoots \cap S |-> oldRoots[x]]
    BY <1>5 DEF Restricts
  <2>2. DOMAIN oldRoots' \subseteq DOMAIN oldRoots
    BY <2>1
  <2>3. IsPartialFunction(oldRoots', Rings \X Nat, SUBSET Keys)
    BY <1>1, <2>1 DEF IsPartialFunction
  <2>4. ASSUME NEW x \in DOMAIN oldRoots'
        PROVE  IF x[1] \in DOMAIN root' THEN x[2] < root'[x[1]].revision
                                        ELSE Live' => Spent(x[1])'
    <3>1. root' = root /\ x \in DOMAIN oldRoots /\ x[1] \in Rings
      BY <1>4, <1>5, <2>2 DEF Restricts
    <3>2. Live' => Live
      BY <1>2, <3>1
    <3> QED BY <1>1, <1>3, <3>1, <3>2 DEF Older
  <2>5. Older'
    BY <2>4 DEF Older
  <2> QED BY <1>1, <1>2, <1>3, <2>2, <2>3, <2>5 DEF OldRootsInv
<1>6. ASSUME NEW ring \in Rings, Drops(ring) \/ Renews(ring) PROVE OldRootsInv'
  <2>1. oldRoots' = Archived(ring) /\ created # 0
    BY <1>1, <1>6 DEF Drops, Renews, Live
  <2>2. /\ ring \notin DOMAIN root => oldRoots' = oldRoots
        /\ ring \in DOMAIN root =>
             /\ root[ring].revision \in Nat /\ root[ring].keys \in SUBSET Keys
             /\ oldRoots' = Insert(oldRoots, <<ring, root[ring].revision>>, root[ring].keys)
    BY <1>1, <2>1, Archiving
  <2>3. IsPartialFunction(oldRoots', Rings \X Nat, SUBSET Keys)
    <3>1. CASE ring \in DOMAIN root
      BY <1>1, <2>2, <3>1 DEF IsPartialFunction, Insert
    <3>2. CASE ring \notin DOMAIN root
      BY <1>1, <2>2, <3>2
    <3> QED BY <3>1, <3>2
  <2>4. ASSUME NEW x \in DOMAIN oldRoots'
        PROVE  \/ x \in DOMAIN oldRoots /\ x[1] \in Rings /\ x[2] \in Nat
               \/ ring \in DOMAIN root /\ x[1] = ring /\ x[2] = root[ring].revision
    <3>1. CASE ring \in DOMAIN root
      <4>1. x \in DOMAIN oldRoots \/ x = <<ring, root[ring].revision>>
        BY <2>2, <3>1 DEF Insert
      <4> QED BY <1>4, <3>1, <4>1
    <3>2. CASE ring \notin DOMAIN root
      BY <1>4, <2>2, <3>2
    <3> QED BY <3>1, <3>2
  <2>5. CASE Drops(ring)
    <3>1. /\ DOMAIN root' = DOMAIN root \ {ring}
          /\ \A r \in DOMAIN root' : root'[r] = root[r]
      BY <2>5 DEF Drops, Without
    <3>2. Live' => Live
      BY <1>2, <2>5 DEF Drops
    <3>3. ASSUME ring \in DOMAIN root, Live' PROVE Spent(ring)'
      <4>1. Live /\ ring \in DOMAIN ringStatus
        BY <1>1, <3>2, <3>3
      <4>2. /\ ring # currentRingIndex /\ ring \notin Bases /\ ring \notin DOMAIN ringStatus'
            /\ ring \in Int /\ currentRingIndex \in Int
        BY <1>1, <2>5, <4>1 DEF Drops, Rings, MemberTypes
      <4>3. ring < currentRingIndex
        BY <4>1, <4>2 DEF OldRootsInv
      <4>4. KeepsRings
        BY <3>3, RingLife DEF Live
      <4>5. ring < currentRingIndex'
        BY <1>1, <4>2, <4>3, <4>4 DEF KeepsRings
      <4> QED BY <4>2, <4>5 DEF Spent, Bases
    <3>4. ASSUME NEW x \in DOMAIN oldRoots'
          PROVE  IF x[1] \in DOMAIN root' THEN x[2] < root'[x[1]].revision
                                          ELSE Live' => Spent(x[1])'
      <4>1. CASE x[1] = ring /\ ring \in DOMAIN root
        BY <3>1, <3>3, <4>1
      <4>2. CASE x \in DOMAIN oldRoots /\ x[1] \in Rings /\ ~(x[1] = ring /\ ring \in DOMAIN root)
        BY <1>1, <1>3, <3>1, <3>2, <4>2 DEF Older
      <4> QED BY <2>4, <4>1, <4>2
    <3>5. Older'
      BY <3>4 DEF Older
    <3> QED BY <1>2, <1>3, <2>1, <2>3, <3>5 DEF OldRootsInv
  <2>6. CASE Renews(ring)
    <3>1. Live /\ ring \in DOMAIN ringStatus
      BY <2>6 DEF Renews
    <3>2. PICK w \in [revision : Nat, keys : SUBSET Keys] :
            /\ root' = Insert(root, ring, w)
            /\ w.revision = IF ring \in DOMAIN root THEN root[ring].revision + 1 ELSE 0
      BY <2>6 DEF Renews
    <3>3. /\ DOMAIN root' = DOMAIN root \cup {ring} /\ root'[ring] = w
          /\ \A r \in DOMAIN root : r # ring => root'[r] = root[r]
      BY <3>2 DEF Insert
    <3>4. ASSUME NEW x \in DOMAIN oldRoots'
          PROVE  IF x[1] \in DOMAIN root' THEN x[2] < root'[x[1]].revision
                                          ELSE Live' => Spent(x[1])'
      <4>1. CASE x \in DOMAIN oldRoots /\ x[1] \in Rings /\ x[1] # ring
        BY <1>1, <1>3, <3>1, <3>3, <4>1 DEF Older
      <4>2. CASE x \in DOMAIN oldRoots /\ x[2] \in Nat /\ x[1] = ring
        <5>1. ring \in DOMAIN root
          BY <1>1, <3>1, <4>2 DEF Older, Spent
        <5>2. x[2] < root[ring].revision
          BY <1>1, <4>2, <5>1 DEF Older
        <5> QED BY <2>2, <3>2, <3>3, <4>2, <5>1, <5>2
      <4>3. CASE ring \in DOMAIN root /\ x[1] = ring /\ x[2] = root[ring].revision
        BY <2>2, <3>2, <3>3, <4>3
      <4> QED BY <2>4, <4>1, <4>2, <4>3
    <3>5. Older'
      BY <3>4 DEF Older
    <3> QED BY <1>2, <1>3, <2>1, <2>3, <3>5 DEF OldRootsInv
  <2> QED BY <1>6, <2>5, <2>6
<1> QED BY <1>1, <1>5, <1>6, RootsChange

\* A step never changes what an accepted revision stands for.
LEMMA AcceptedStep ==
  ASSUME Supported, UsedOnce, MembersInv, OldRootsInv, [Next]_vars,
         NEW r \in Rings, NEW v, Accepted(r, v) # {}, Accepted(r, v)' # {}
  PROVE  Accepted(r, v)' = Accepted(r, v)
<1>1. /\ MemberTypes /\ Older
      /\ IsPartialFunction(oldRoots, Rings \X Nat, SUBSET Keys)
  BY DEF MembersInv, OldRootsInv
<1>2. /\ Live /\ Live' /\ r \in DOMAIN root /\ r \in DOMAIN root'
      /\ root[r].revision = v \/ <<r, v>> \in DOMAIN oldRoots
      /\ root'[r].revision = v \/ <<r, v>> \in DOMAIN oldRoots'
      /\ Accepted(r, v) = IF root[r].revision = v THEN {root[r].keys} ELSE {oldRoots[<<r, v>>]}
      /\ Accepted(r, v)' = IF root'[r].revision = v THEN {root'[r].keys}
                                                    ELSE {oldRoots'[<<r, v>>]}
  BY DEF Accepted
<1>3. /\ root[r].revision \in Nat
      /\ <<r, v>> \in DOMAIN oldRoots => v \in Nat /\ v < root[r].revision
  <2>1. root[r].revision \in Nat
    BY <1>1, <1>2 DEF MemberTypes, IsPartialFunction
  <2>2. ASSUME <<r, v>> \in DOMAIN oldRoots PROVE v \in Nat /\ v < root[r].revision
    <3>1. <<r, v>>[1] = r /\ <<r, v>>[2] = v /\ <<r, v>> \in Rings \X Nat
      BY <1>1, <2>2 DEF IsPartialFunction
    <3> QED BY <1>1, <1>2, <2>2, <3>1 DEF Older
  <2> QED BY <2>1, <2>2
<1>4. CASE Restricts
  <2>1. PICK S : oldRoots' = [x \in DOMAIN oldRoots \cap S |-> oldRoots[x]]
    BY <1>4 DEF Restricts
  <2>2. root' = root
    BY <1>4 DEF Restricts
  <2>3. <<r, v>> \in DOMAIN oldRoots' => oldRoots'[<<r, v>>] = oldRoots[<<r, v>>]
    BY <2>1
  <2> QED BY <1>2, <2>2, <2>3
<1>5. ASSUME NEW ring \in Rings, oldRoots' = Archived(ring), ring # r
      PROVE  /\ <<r, v>> \in DOMAIN oldRoots' <=> <<r, v>> \in DOMAIN oldRoots
             /\ <<r, v>> \in DOMAIN oldRoots => oldRoots'[<<r, v>>] = oldRoots[<<r, v>>]
  <2>1. CASE ring \in DOMAIN root
    <3>1. oldRoots' = Insert(oldRoots, <<ring, root[ring].revision>>, root[ring].keys)
      BY <1>1, <1>5, <2>1, Archiving
    <3>2. <<r, v>> # <<ring, root[ring].revision>>
      BY <1>5
    <3>3. \/ <<r, v>> \in DOMAIN oldRoots
          \/ <<r, v>> \notin DOMAIN oldRoots'
      BY <3>1, <3>2 DEF Insert
    <3> QED BY <3>1, <3>2, <3>3 DEF Insert
  <2>2. CASE ring \notin DOMAIN root
    BY <1>1, <1>5, <2>2, Archiving
  <2> QED BY <2>1, <2>2
<1>6. ASSUME NEW ring \in Rings, Drops(ring) PROVE Accepted(r, v)' = Accepted(r, v)
  <2>1. oldRoots' = Archived(ring) /\ ring # r /\ root'[r] = root[r]
    BY <1>2, <1>6 DEF Drops, Without
  <2> QED BY <1>2, <1>5, <2>1
<1>7. ASSUME NEW ring \in Rings, Renews(ring) PROVE Accepted(r, v)' = Accepted(r, v)
  <2>1. oldRoots' = Archived(ring)
    BY <1>7 DEF Renews
  <2>2. CASE ring # r
    <3>1. root'[r] = root[r]
      BY <1>2, <1>7, <2>2 DEF Renews, Insert
    <3> QED BY <1>2, <1>5, <2>1, <2>2, <3>1
  <2>3. CASE ring = r
    <3>1. root'[r].revision = root[r].revision + 1
      BY <1>2, <1>7, <2>3 DEF Renews, Insert
    <3>2. oldRoots' = Insert(oldRoots, <<r, root[r].revision>>, root[r].keys)
      BY <1>1, <1>2, <2>1, <2>3, Archiving
    <3>3. v # root'[r].revision
      BY <1>2, <1>3, <3>1
    <3>4. CASE v = root[r].revision
      BY <1>2, <3>2, <3>3, <3>4 DEF Insert
    <3>5. CASE v # root[r].revision
      <4>1. oldRoots'[<<r, v>>] = oldRoots[<<r, v>>]
        BY <1>2, <3>2, <3>5 DEF Insert
      <4> QED BY <1>2, <3>3, <3>5, <4>1
    <3> QED BY <3>4, <3>5
  <2> QED BY <2>2, <2>3
<1> QED BY <1>1, <1>4, <1>6, <1>7, RootsChange

\* The two invariants together.
LEMMA OldRootsInvariant ==
  ASSUME Supported, UsedOnce
  PROVE  Spec => [](MembersInv /\ OldRootsInv)
<1>1. MembersInv /\ MembersInv' /\ OldRootsInv /\ [Next]_vars => OldRootsInv'
  BY OldRootsStep
<1> QED BY Invariant, OldRootsInit, <1>1, PTL DEF Spec

\* As long as a revision of a ring is accepted it stands for the same keys.
THEOREM RevisionsStableCorrect ==
  ASSUME Supported, UsedOnce
  PROVE  Spec => RevisionsStable
<1>1. MembersInv /\ OldRootsInv /\ [Next]_vars =>
        [\A r \in Rings, v \in 0..MaxRevision :
           Accepted(r, v) # {} /\ Accepted(r, v)' # {}
             => Accepted(r, v)' = Accepted(r, v)]_vars
  BY AcceptedStep
<1> QED BY OldRootsInvariant, <1>1, PTL DEF Spec, RevisionsStable
==============================================================================
