------------------------- MODULE Coinage_proofs -------------------------
(***************************************************************************)
(* Proofs about pallets/coinage: that no token is spent twice although     *)
(* what was spent is forgotten, and that one that was paid for is kept     *)
(* until its period expires; that recyclers remember exactly the keys and  *)
(* aliases they have to; and that every step is a step of WrappedLedger,   *)
(* so that what circulates is backed by what is on hold.                   *)
(***************************************************************************)
EXTENDS Coinage, StorageMaps_proofs

-----------------------------------------------------------------------------
(* Collections, of paid tokens and of recyclers.                           *)

\* Collections of keys of a set K and their rings.
RingOf(K) == [keys : SUBSET K, immutable_since : Int]
CollectionOf(K) == [waiting : SUBSET K, rings : Seq(RingOf(K)) \ {<<>>},
                    leaving : SUBSET K]

\* A key is in one ring of a collection at most, or waits for one.
Disjoint(c) ==
  /\ \A i, j \in Nat : i # j => RingKeys(c, i) \cap RingKeys(c, j) = {}
  /\ \A i \in Nat : RingKeys(c, i) \cap c.waiting = {}

\* The last ring takes keys.
LastOpen(c) ==
  Len(c.rings) <= MaxRings /\ c.rings[Len(c.rings)].immutable_since = NoTime

\* The rings of a collection are numbered from 1 and hold keys.
LEMMA RingFacts ==
  ASSUME NEW K, NEW c \in CollectionOf(K)
  PROVE  /\ c.waiting \in SUBSET K /\ c.rings \in Seq(RingOf(K)) /\ c.rings # <<>>
         /\ Len(c.rings) \in Nat \ {0} /\ DOMAIN c.rings = 1..Len(c.rings)
         /\ \A i \in DOMAIN c.rings : c.rings[i] \in RingOf(K) /\ i \in Nat \ {0}
         /\ \A i : RingKeys(c, i) \in SUBSET K
         /\ \A i : RingKeys(c, i) # {} => i \in DOMAIN c.rings
<1>1. c.waiting \in SUBSET K /\ c.rings \in Seq(RingOf(K)) /\ c.rings # <<>>
  BY DEF CollectionOf
<1>2. Len(c.rings) \in Nat \ {0} /\ DOMAIN c.rings = 1..Len(c.rings)
  BY <1>1, EmptySeq, LenProperties
<1>3. \A i \in DOMAIN c.rings : c.rings[i] \in RingOf(K) /\ i \in Nat \ {0}
  BY <1>1, <1>2, ElementOfSeq
<1>4. \A i : RingKeys(c, i) \in SUBSET K
  BY <1>3 DEF RingKeys, RingOf
<1> QED BY <1>1, <1>2, <1>3, <1>4 DEF RingKeys

\* The keys of all rings, ring by ring.
LEMMA AllRingKeysFacts ==
  ASSUME NEW K, NEW c \in CollectionOf(K), NEW k
  PROVE  k \in AllRingKeys(c) <=> \E i \in Nat : k \in RingKeys(c, i)
<1>1. DOMAIN c.rings \subseteq Nat
  BY RingFacts
<1> QED BY <1>1 DEF AllRingKeys, RingKeys

\* A new collection holds no key.
LEMMA EmptyCollection ==
  /\ \A K : create_collection \in CollectionOf(K)
  /\ Disjoint(create_collection) /\ LastOpen(create_collection)
  /\ create_collection.waiting = {} /\ Len(create_collection.rings) = 1
  /\ \A i : RingKeys(create_collection, i) = {}
<1>1. ASSUME NEW K PROVE create_collection \in CollectionOf(K)
  <2>1. OpenRing \in RingOf(K)
    BY DEF OpenRing, RingOf, NoTime
  <2>2. <<OpenRing>> \in Seq(RingOf(K)) \ {<<>>}
    BY <2>1
  <2> QED BY <2>2 DEF create_collection, CollectionOf
<1>2. create_collection.waiting = {} /\ create_collection.rings = <<OpenRing>>
  BY DEF create_collection
<1>3. /\ DOMAIN create_collection.rings = {1} /\ create_collection.rings[1] = OpenRing
      /\ Len(create_collection.rings) = 1
  BY <1>2
<1>4. \A i : RingKeys(create_collection, i) = {}
  BY <1>3 DEF RingKeys, OpenRing
<1>5. LastOpen(create_collection)
  <2>1. OpenRing.immutable_since = NoTime /\ 1 <= MaxRings
    BY CollectionAssumption DEF OpenRing
  <2> QED BY <1>3, <2>1 DEF LastOpen
<1> QED BY <1>1, <1>2, <1>3, <1>4, <1>5 DEF Disjoint

\* Keys that are added wait.
LEMMA AddedFacts ==
  ASSUME NEW K, NEW c \in CollectionOf(K), Disjoint(c), NEW S \in SUBSET K, CanAdd(c, S)
  PROVE  /\ add_members(c, S) \in CollectionOf(K) /\ Disjoint(add_members(c, S))
         /\ add_members(c, S).waiting = c.waiting \cup S
         /\ add_members(c, S).rings = c.rings
         /\ \A i : RingKeys(add_members(c, S), i) = RingKeys(c, i)
         /\ \A i \in Nat : RingKeys(c, i) \cap S = {}
<1> DEFINE d == add_members(c, S)
<1>1. c.waiting \in SUBSET K
  BY DEF CollectionOf
<1>2. d = [c EXCEPT !.waiting = c.waiting \cup S]
  BY DEF add_members
<1>3. d \in CollectionOf(K) /\ d.waiting = c.waiting \cup S /\ d.rings = c.rings
  BY <1>1, <1>2 DEF CollectionOf
<1>4. \A i : RingKeys(d, i) = RingKeys(c, i)
  BY <1>3 DEF RingKeys
<1>5. \A i \in Nat : RingKeys(c, i) \cap S = {}
  <2>1. \A k \in S : k \notin AllRingKeys(c)
    BY DEF CanAdd, IsMember
  <2>2. \A k : k \in AllRingKeys(c) <=> \E i \in Nat : k \in RingKeys(c, i)
    BY AllRingKeysFacts
  <2> QED BY <2>1, <2>2
<1>6. Disjoint(d)
  BY <1>3, <1>4, <1>5 DEF Disjoint
<1> QED BY <1>3, <1>4, <1>5, <1>6

\* A key that is onboarded leaves the queue for the last ring.
LEMMA OnboardedFacts ==
  ASSUME NEW K, NEW c \in CollectionOf(K), Disjoint(c), NEW k \in c.waiting, NEW t \in Int
  PROVE  /\ Onboarded(c, k, t) \in CollectionOf(K) /\ Disjoint(Onboarded(c, k, t))
         /\ Onboarded(c, k, t).waiting = c.waiting \ {k}
         /\ \A i \in Nat :
              RingKeys(Onboarded(c, k, t), i)
                = IF i = Len(c.rings) THEN RingKeys(c, i) \cup {k} ELSE RingKeys(c, i)
         /\ Len(Onboarded(c, k, t).rings) >= Len(c.rings)
         /\ IsFiniteSet(K) /\ CanOnboard(c, k) /\ LastOpen(c) => LastOpen(Onboarded(c, k, t))
<1> DEFINE d == Onboarded(c, k, t)
           r == c.rings
           n == Len(r)
           keys == Last(r).keys \cup {k}
           full == Cardinality(keys) = RingCapacity
           built == [keys |-> keys, immutable_since |-> IF full THEN t ELSE NoTime]
           tail == IF full THEN <<OpenRing>> ELSE <<>>
           s == Front(r) \o <<built>> \o tail
<1>1. r \in Seq(RingOf(K)) /\ r # <<>> /\ c.waiting \in SUBSET K /\ k \in K
  BY DEF CollectionOf
<1>2. n \in Nat \ {0} /\ DOMAIN r = 1..n
  BY <1>1, EmptySeq, LenProperties
<1>3. r[n] \in RingOf(K) /\ Last(r) = r[n]
  BY <1>1, <1>2, ElementOfSeq DEF Last
<1>4. /\ built \in RingOf(K) /\ built.keys = r[n].keys \cup {k}
      /\ ~full => built.immutable_since = NoTime
      /\ OpenRing \in RingOf(K) /\ OpenRing.keys = {} /\ OpenRing.immutable_since = NoTime
  BY <1>1, <1>3 DEF RingOf, OpenRing, NoTime
<1>5. d = [c EXCEPT !.waiting = c.waiting \ {k}, !.rings = s]
  BY DEF Onboarded
<1>6. IsFiniteSet(K) /\ CanOnboard(c, k) /\ full => n < MaxRings
  <2> SUFFICES ASSUME IsFiniteSet(K), CanOnboard(c, k), full PROVE n < MaxRings
    OBVIOUS
  <2>1. IsFiniteSet(r[n].keys)
    BY <1>3, FS_Subset DEF RingOf
  <2>2. RingKeys(c, n) = r[n].keys
    BY <1>2 DEF RingKeys
  <2>3. k \notin r[n].keys
    BY <1>2, <2>2 DEF Disjoint
  <2>4. Cardinality(r[n].keys \cup {k}) = Cardinality(r[n].keys) + 1
    BY <2>1, <2>3, FS_AddElement
  <2> QED BY <1>3, <2>4 DEF CanOnboard
<1> HIDE DEF built, full, keys
<1>7. /\ tail \in Seq(RingOf(K)) /\ (tail = <<>> \/ tail = <<OpenRing>>)
      /\ full => tail = <<OpenRing>>
      /\ ~full => tail = <<>>
  BY <1>4
<1>8. /\ Len(tail) \in Nat /\ \A i \in 1..Len(tail) : tail[i] = OpenRing
      /\ full => Len(tail) = 1
      /\ ~full => Len(tail) = 0
  BY <1>7
<1> HIDE DEF tail
<1>9. /\ s \in Seq(RingOf(K)) /\ Len(s) = n + Len(tail) /\ s[n] = built
      /\ \A i \in 1..(n - 1) : s[i] = r[i]
      /\ \A i \in (n + 1)..Len(s) : s[i] = OpenRing
  <2> HIDE DEF r
  <2>1. /\ s \in Seq(RingOf(K)) /\ Len(s) = n + Len(tail) /\ s[n] = built
        /\ \A i \in 1..(n - 1) : s[i] = r[i]
        /\ \A i \in 1..Len(tail) : s[n + i] = tail[i]
    BY <1>1, <1>4, <1>7, ReplaceLast
  <2> HIDE DEF s, n
  <2>2. ASSUME NEW i \in (n + 1)..Len(s) PROVE s[i] = OpenRing
    <3>1. i - n \in 1..Len(tail) /\ n + (i - n) = i
      BY <1>2, <1>8, <2>1
    <3>2. s[n + (i - n)] = tail[i - n]
      BY <2>1, <3>1
    <3> QED BY <1>8, <3>1, <3>2
  <2> QED BY <2>1, <2>2
<1> HIDE DEF s
<1>10. Len(s) \in Nat \ {0} /\ Len(s) >= n /\ DOMAIN s = 1..Len(s) /\ s # <<>>
  <2>1. Len(s) >= n /\ Len(s) \in Nat \ {0}
    BY <1>2, <1>8, <1>9
  <2> QED BY <1>9, <2>1, LenProperties, EmptySeq
<1>11. /\ d \in CollectionOf(K) /\ d.waiting = c.waiting \ {k} /\ d.rings = s
  BY <1>1, <1>5, <1>9, <1>10 DEF CollectionOf
<1>12. IsFiniteSet(K) /\ CanOnboard(c, k) /\ LastOpen(c) => LastOpen(d)
  <2> SUFFICES ASSUME IsFiniteSet(K), CanOnboard(c, k), LastOpen(c) PROVE LastOpen(d)
    OBVIOUS
  <2>1. n <= MaxRings /\ MaxRings \in Nat
    BY CollectionAssumption DEF LastOpen
  <2> HIDE DEF d, n
  <2>2. CASE full
    <3>0. Len(s) = n + 1 /\ n < MaxRings
      BY <1>6, <1>8, <1>9, <2>2
    <3>1. Len(s) <= MaxRings /\ Len(s) \in (n + 1)..Len(s)
      BY ONLY <1>2, <2>1, <3>0
    <3> QED BY <1>4, <1>9, <1>11, <3>1 DEF LastOpen
  <2>3. CASE ~full
    <3>1. Len(s) = n
      BY <1>2, <1>8, <1>9, <2>3
    <3> QED BY <1>4, <1>9, <1>11, <2>1, <2>3, <3>1 DEF LastOpen
  <2> QED BY <2>2, <2>3
<1>13. Len(d.rings) >= n
  BY <1>10, <1>11
<1> HIDE DEF n
<1>14. \A i \in Nat : RingKeys(d, i) = IF i = n THEN RingKeys(c, i) \cup {k} ELSE RingKeys(c, i)
  <2> SUFFICES ASSUME NEW i \in Nat
               PROVE  RingKeys(d, i) = IF i = n THEN RingKeys(c, i) \cup {k} ELSE RingKeys(c, i)
    OBVIOUS
  <2>1. RingKeys(d, i) = (IF i \in DOMAIN s THEN s[i].keys ELSE {})
        /\ RingKeys(c, i) = (IF i \in DOMAIN r THEN r[i].keys ELSE {})
    BY <1>11 DEF RingKeys
  <2> HIDE DEF r, d
  <2>2. CASE i = n
    BY <1>2, <1>4, <1>9, <1>10, <2>1, <2>2
  <2>3. CASE i \in 1..(n - 1)
    BY <1>2, <1>9, <1>10, <2>1, <2>3
  <2>4. CASE i \in (n + 1)..Len(s)
    <3>1. i \in DOMAIN s /\ i \notin DOMAIN r /\ i # n
      BY <1>2, <1>10, <2>4
    <3>2. s[i].keys = {}
      BY <1>4, <1>9, <2>4
    <3> QED BY <2>1, <3>1, <3>2
  <2>5. CASE i \notin 1..Len(s)
    BY <1>2, <1>10, <2>1, <2>5
  <2> QED BY <1>2, <1>10, <2>2, <2>3, <2>4, <2>5
<1>15. Disjoint(d)
  <2> HIDE DEF d, n
  <2> QED BY <1>11, <1>14 DEF Disjoint
<1> QED BY <1>11, <1>12, <1>13, <1>14, <1>15 DEF n

\* The keys of a removed ring are in no ring.
LEMMA RemovedFacts ==
  ASSUME NEW K, NEW c \in CollectionOf(K), Disjoint(c), NEW i \in DOMAIN c.rings
  PROVE  /\ remove_ring(c, i) \in CollectionOf(K) /\ Disjoint(remove_ring(c, i))
         /\ remove_ring(c, i).waiting = c.waiting
         /\ Len(remove_ring(c, i).rings) = Len(c.rings)
         /\ \A j : RingKeys(remove_ring(c, i), j) = IF j = i THEN {} ELSE RingKeys(c, j)
         /\ LastOpen(c) => LastOpen(remove_ring(c, i))
<1> DEFINE d == remove_ring(c, i)
           s == [c.rings EXCEPT ![i] = OpenRing]
<1>1. /\ c.rings \in Seq(RingOf(K)) /\ c.rings # <<>>
      /\ Len(c.rings) \in Nat \ {0} /\ DOMAIN c.rings = 1..Len(c.rings)
      /\ c.rings[i] \in RingOf(K)
  BY RingFacts
<1>2. OpenRing \in RingOf(K) /\ OpenRing.keys = {} /\ OpenRing.immutable_since = NoTime
  BY DEF RingOf, OpenRing, NoTime
<1>3. /\ s \in Seq(RingOf(K)) /\ Len(s) = Len(c.rings) /\ DOMAIN s = DOMAIN c.rings
      /\ s[i] = OpenRing /\ \A j \in DOMAIN s \ {i} : s[j] = c.rings[j]
  BY <1>1, <1>2, ExceptSeq
<1>4. s # <<>>
  BY <1>1, <1>3, EmptySeq
<1>5. d = [c EXCEPT !.rings = s, !.leaving = c.leaving \cup c.rings[i].keys]
  BY DEF remove_ring
<1> HIDE DEF s
<1>6. d \in CollectionOf(K) /\ d.waiting = c.waiting /\ d.rings = s
  BY <1>1, <1>3, <1>4, <1>5 DEF CollectionOf, RingOf
<1> HIDE DEF d
<1>7. \A j : RingKeys(d, j) = IF j = i THEN {} ELSE RingKeys(c, j)
  BY <1>2, <1>3, <1>6 DEF RingKeys
<1>8. Disjoint(d)
  BY <1>6, <1>7 DEF Disjoint
<1>9. LastOpen(c) => LastOpen(d)
  BY <1>1, <1>2, <1>3, <1>6 DEF LastOpen
<1> QED BY <1>3, <1>6, <1>7, <1>8, <1>9 DEF d

\* Deleting the pages of removed rings changes no ring.
LEMMA PageFacts ==
  ASSUME NEW K, NEW c \in CollectionOf(K), NEW page
  PROVE  /\ delete_ring_page(c, page) \in CollectionOf(K)
         /\ delete_ring_page(c, page).waiting = c.waiting
         /\ delete_ring_page(c, page).rings = c.rings
BY DEF delete_ring_page, CollectionOf

-----------------------------------------------------------------------------
(* Free and paid tokens are spent once.                                    *)

\* The oldest period of which free tokens are accepted.
OldestPeriod == FreePeriod(Max({now - GraceWindow, 0}))

\* A token that could be accepted again is remembered as spent: a free token
\* from its period to the end of the grace window, a paid token until its
\* period expires, since only aliases of expired periods are dust.
SpentInv ==
  /\ now \in Nat
  /\ IsPartialFunction(spent, DOMAIN spent, {1})
  /\ \A p \in Nat, who \in Persons, c \in Nat :
       <<"free", p, who, c>> \in DOMAIN spent /\ p >= OldestPeriod
         => <<p, who, c>> \in freeConsumed
  /\ \A p \in Nat, i \in Nat, k \in PaidKeys :
       <<"paid", p, i, k>> \in DOMAIN spent /\ now < period_expiration_time(p)
         => <<p, i, k>> \in paidConsumed
  /\ DOMAIN paidCollections \subseteq Nat
  /\ \A p \in paidDusting : p \in Nat /\ now >= period_expiration_time(p)

\* Periods follow time.
LEMMA DivMonotone ==
  ASSUME NEW a \in Nat, NEW b \in Nat, NEW k \in Nat \ {0}, a <= b
  PROVE  a \div k \in Nat /\ b \div k \in Nat /\ a \div k <= b \div k
<1> DEFINE q == a \div k
           r == b \div k
<1>1. q \in Nat /\ r \in Nat /\ q * k <= a /\ b < (r + 1) * k
  <2>1. q \in Nat /\ r \in Nat
    OBVIOUS
  <2>2. q * k <= a
    OBVIOUS
  <2>3. b < (r + 1) * k
    <3>1. b = k * (b \div k) + (b % k) /\ b % k < k /\ b % k \in Nat
      OBVIOUS
    <3>2. (r + 1) * k = k * (b \div k) + k
      BY <2>1
    <3>3. k * (b \div k) \in Nat
      BY <2>1
    <3> QED BY <3>1, <3>2, <3>3
  <2> QED BY <2>1, <2>2, <2>3
<1> HIDE DEF q, r
<1>2. q * k < (r + 1) * k
  <2>1. q * k \in Nat /\ (r + 1) * k \in Nat
    BY <1>1
  <2> QED BY <1>1, <2>1
<1>3. ~ (r + 1 <= q)
  <2> SUFFICES ASSUME r + 1 <= q PROVE FALSE
    OBVIOUS
  <2>1. PICK d \in Nat : q = (r + 1) + d
    BY <1>1
  <2>2. q * k = (r + 1) * k + d * k
    BY <1>1, <2>1
  <2>3. d * k \in Nat /\ (r + 1) * k \in Nat /\ q * k \in Nat
    BY <1>1, <2>1
  <2> QED BY <1>2, <2>2, <2>3
<1>4. q <= r
  BY <1>1, <1>3
<1> QED BY <1>1, <1>4 DEF q, r

\* The accepted periods: the oldest is not after the current one, and neither
\* moves back as time goes on.
LEMMA PeriodFacts ==
  ASSUME NEW t \in Nat, NEW u \in Nat, t <= u
  PROVE  /\ FreePeriod(t) \in Nat /\ FreePeriod(Max({t - GraceWindow, 0})) \in Nat
         /\ FreePeriod(Max({t - GraceWindow, 0})) <= FreePeriod(t)
         /\ FreePeriod(Max({t - GraceWindow, 0})) <= FreePeriod(Max({u - GraceWindow, 0}))
<1> DEFINE lo == Max({t - GraceWindow, 0})
           lu == Max({u - GraceWindow, 0})
<1>1. GraceWindow \in Nat /\ UnloadTokenTimePeriod \in Nat \ {0}
  BY TokenAssumption
<1>2. /\ lo = IF t - GraceWindow >= 0 THEN t - GraceWindow ELSE 0
      /\ lu = IF u - GraceWindow >= 0 THEN u - GraceWindow ELSE 0
  BY <1>1, MaxOfTwo
<1> HIDE DEF lo, lu
<1>3. lo \in Nat /\ lu \in Nat /\ lo <= t /\ lo <= lu
  BY <1>1, <1>2
<1>4. FreePeriod(t) \in Nat /\ FreePeriod(lo) \in Nat /\ FreePeriod(lo) <= FreePeriod(t)
  BY <1>1, <1>3, DivMonotone DEF FreePeriod
<1>5. FreePeriod(lo) <= FreePeriod(lu)
  BY <1>1, <1>3, DivMonotone DEF FreePeriod
<1> QED BY <1>4, <1>5 DEF lo, lu

\* Expiration times are naturals.
LEMMA ExpirationType ==
  ASSUME NEW p \in Nat
  PROVE  period_expiration_time(p) \in Nat
<1>1. PaidTimePeriod \in Nat /\ PaidExpirationTime \in Nat
  BY TokenAssumption
<1>2. (p + 1) * PaidTimePeriod \in Nat
  BY <1>1
<1> QED BY <1>1, <1>2 DEF period_expiration_time

\* A token that is counted and was not in the books before is counted once.
LEMMA CountedOnce ==
  ASSUME NEW t, CountSpent(t), t \notin DOMAIN spent,
         IsPartialFunction(spent, DOMAIN spent, {1})
  PROVE  /\ IsPartialFunction(spent', DOMAIN spent', {1})
         /\ DOMAIN spent' = DOMAIN spent \cup {t}
<1>1. Get(spent, t) = 0
  BY DEF Get
<1>2. spent' = Insert(spent, t, 1)
  BY <1>1 DEF CountSpent
<1> QED BY <1>2 DEF Insert, IsPartialFunction

\* No token was spent in the beginning.
LEMMA SpentInit == TokenInit => SpentInv
<1> SUFFICES ASSUME TokenInit PROVE SpentInv
  OBVIOUS
<1>1. now \in Nat /\ paidDusting = {} /\ DOMAIN spent = {} /\ DOMAIN paidCollections = {}
  BY DEF TokenInit
<1>2. IsPartialFunction(spent, DOMAIN spent, {1})
  BY <1>1, EmptyMapType DEF TokenInit, IsPartialFunction
<1> QED BY <1>1, <1>2 DEF SpentInv

\* Spending, cleaning and the passing of time keep what matters of the books.
LEMMA SpentStep == SpentInv /\ [TokenNext]_tokenVars => SpentInv'
<1> SUFFICES ASSUME SpentInv, [TokenNext]_tokenVars PROVE SpentInv'
  OBVIOUS
<1>0. now \in Nat /\ now <= now
  BY DEF SpentInv
<1>1. /\ OldestPeriod \in Nat /\ FreePeriod(now) \in Nat
      /\ OldestPeriod <= FreePeriod(now)
  BY <1>0, PeriodFacts DEF OldestPeriod
<1>2. ASSUME now' = now PROVE OldestPeriod' = OldestPeriod
  BY <1>2 DEF OldestPeriod
<1>3. ASSUME UNCHANGED <<now, freeConsumed, spent, paidConsumed, paidDusting>>,
             DOMAIN paidCollections' \subseteq Nat
      PROVE  SpentInv'
  BY <1>2, <1>3 DEF SpentInv, period_expiration_time
<1>4. DOMAIN WithCurrentCollection \subseteq Nat
  <2>1. current_period \in Nat
    BY DivMonotone, TokenAssumption DEF SpentInv, current_period
  <2> QED BY <2>1 DEF SpentInv, WithCurrentCollection, Insert
<1>5. ASSUME NEW k, add_member(k) PROVE SpentInv'
  <2>1. DOMAIN paidCollections' \subseteq Nat
    BY <1>4, <1>5 DEF add_member
  <2> QED BY <1>3, <1>5, <2>1 DEF add_member, freeVars
<1>6. ASSUME NEW who \in Persons, NEW c \in Nat, NEW p \in current_free_unload_token_periods,
             SpendFree(who, c, p)
      PROVE  SpentInv'
  <2> DEFINE t == <<"free", p, who, c>>
  <2>1. p \in Nat /\ p >= OldestPeriod
    BY <1>1, <1>6 DEF OldestPeriod, current_free_unload_token_periods
  <2>2. /\ <<p, who, c>> \notin freeConsumed
        /\ freeConsumed' = freeConsumed \cup {<<p, who, c>>}
        /\ CountSpent(t) /\ UNCHANGED <<now, paidConsumed, paidDusting, paidCollections>>
    BY <1>6 DEF SpendFree, paidVars
  <2>3. t \notin DOMAIN spent
    BY <2>1, <2>2 DEF SpentInv
  <2>4. /\ IsPartialFunction(spent', DOMAIN spent', {1}) /\ DOMAIN spent' = DOMAIN spent \cup {t}
    BY <2>2, <2>3, CountedOnce DEF SpentInv
  <2>5. ASSUME NEW q \in Nat, NEW w \in Persons, NEW d \in Nat,
               <<"free", q, w, d>> \in DOMAIN spent', q >= OldestPeriod
        PROVE  <<q, w, d>> \in freeConsumed'
    BY <2>2, <2>4, <2>5 DEF SpentInv
  <2>6. ASSUME NEW q \in Nat, NEW i \in Nat, NEW k \in PaidKeys,
               <<"paid", q, i, k>> \in DOMAIN spent', now < period_expiration_time(q)
        PROVE  <<q, i, k>> \in paidConsumed
    BY <2>4, <2>6 DEF SpentInv
  <2> QED BY <1>2, <2>2, <2>4, <2>5, <2>6 DEF SpentInv, period_expiration_time
<1>7. ASSUME NEW p \in DOMAIN paidCollections, NEW i \in Nat, NEW k \in PaidKeys,
             SpendPaid(p, i, k)
      PROVE  SpentInv'
  <2> DEFINE t == <<"paid", p, i, k>>
  <2>1. p \in Nat
    BY DEF SpentInv
  <2>2. /\ <<p, i, k>> \notin paidConsumed /\ now < period_expiration_time(p)
        /\ paidConsumed' = paidConsumed \cup {<<p, i, k>>}
        /\ CountSpent(t) /\ UNCHANGED <<now, freeConsumed, paidDusting, paidCollections>>
    BY <1>7 DEF SpendPaid, freeVars
  <2>3. t \notin DOMAIN spent
    BY <2>1, <2>2 DEF SpentInv
  <2>4. /\ IsPartialFunction(spent', DOMAIN spent', {1}) /\ DOMAIN spent' = DOMAIN spent \cup {t}
    BY <2>2, <2>3, CountedOnce DEF SpentInv
  <2>5. ASSUME NEW q \in Nat, NEW w \in Persons, NEW d \in Nat,
               <<"free", q, w, d>> \in DOMAIN spent', q >= OldestPeriod
        PROVE  <<q, w, d>> \in freeConsumed
    BY <2>4, <2>5 DEF SpentInv
  <2>6. ASSUME NEW q \in Nat, NEW j \in Nat, NEW x \in PaidKeys,
               <<"paid", q, j, x>> \in DOMAIN spent', now < period_expiration_time(q)
        PROVE  <<q, j, x>> \in paidConsumed'
    BY <2>2, <2>4, <2>6 DEF SpentInv
  <2> QED BY <1>2, <2>2, <2>4, <2>5, <2>6 DEF SpentInv, period_expiration_time
<1>8. CASE CleanFree
  <2>1. PICK p, batch : clean_consumed_free_token(p, batch)
    BY <1>8 DEF CleanFree
  <2>2. /\ FreePeriodOver(p) /\ batch \subseteq {t \in freeConsumed : t[1] = p}
        /\ freeConsumed' = freeConsumed \ batch
        /\ UNCHANGED <<now, spent, paidConsumed, paidDusting, paidCollections>>
    BY <2>1 DEF clean_consumed_free_token, BatchOf, paidVars
  <2>3. p < OldestPeriod
    BY <2>2 DEF FreePeriodOver, current_free_unload_token_periods, OldestPeriod
  <2>4. ASSUME NEW q \in Nat, NEW w \in Persons, NEW d \in Nat,
               <<"free", q, w, d>> \in DOMAIN spent, q >= OldestPeriod
        PROVE  <<q, w, d>> \in freeConsumed'
    <3>1. <<q, w, d>> \in freeConsumed
      BY <2>4 DEF SpentInv
    <3>2. q # p
      BY <1>1, <2>3, <2>4
    <3>3. <<q, w, d>> \notin batch
      BY <2>2, <3>2
    <3> QED BY <2>2, <3>1, <3>3
  <2> QED BY <1>2, <2>2, <2>4 DEF SpentInv, period_expiration_time
<1>9. CASE CleanPaidDust
  <2>0. PICK p \in paidDusting :
          \E b : clean_paid_unload_token_dust(p, b)
    BY <1>9 DEF CleanPaidDust
  <2>1. PICK batch : clean_paid_unload_token_dust(p, batch)
    BY <2>0
  <2>2. /\ batch \subseteq {t \in paidConsumed : t[1] = p}
        /\ paidConsumed' = paidConsumed \ batch /\ paidDusting' \subseteq paidDusting
        /\ UNCHANGED <<now, spent, freeConsumed, paidCollections>>
    BY <2>1 DEF clean_paid_unload_token_dust, BatchOf, freeVars, AfterBatch
  <2>3. p \in Nat /\ now >= period_expiration_time(p) /\ period_expiration_time(p) \in Nat
    BY ExpirationType DEF SpentInv
  <2>4. ASSUME NEW q \in Nat, NEW i \in Nat, NEW k \in PaidKeys,
               <<"paid", q, i, k>> \in DOMAIN spent, now < period_expiration_time(q)
        PROVE  <<q, i, k>> \in paidConsumed'
    <3>1. <<q, i, k>> \in paidConsumed
      BY <2>4 DEF SpentInv
    <3>2. q # p
      BY <2>3, <2>4 DEF SpentInv
    <3>3. <<q, i, k>> \notin batch
      BY <2>2, <3>2
    <3> QED BY <2>2, <3>1, <3>3
  <2> QED BY <1>2, <2>2, <2>4 DEF SpentInv, period_expiration_time
<1>10. CASE ensure_current_period_collection_exists
  BY <1>3, <1>4, <1>10 DEF ensure_current_period_collection_exists, freeVars
<1>11. ASSUME NEW p \in DOMAIN paidCollections, NEW k, OnboardPaid(p, k)
       PROVE  SpentInv'
  <2>1. DOMAIN paidCollections' \subseteq Nat
    BY <1>11 DEF OnboardPaid, SpentInv
  <2> QED BY <1>3, <1>11, <2>1 DEF OnboardPaid, freeVars
<1>12. ASSUME NEW p \in DOMAIN paidCollections, clean_paid_unload_token_ring(p)
       PROVE  SpentInv'
  BY <1>3, <1>12 DEF clean_paid_unload_token_ring, freeVars, SpentInv
<1>13. ASSUME NEW p \in DOMAIN paidCollections,
              delete_expired_paid_unload_token_collection(p)
       PROVE  SpentInv'
  <2>1. /\ now >= period_expiration_time(p) /\ paidDusting' \subseteq paidDusting \cup {p}
        /\ DOMAIN paidCollections' \subseteq DOMAIN paidCollections
        /\ UNCHANGED <<now, freeConsumed, paidConsumed, spent>>
    BY <1>13 DEF delete_expired_paid_unload_token_collection, PaidPeriodOver, Without, freeVars
  <2>2. \A q \in paidDusting' : q \in Nat /\ now >= period_expiration_time(q)
    BY <2>1 DEF SpentInv
  <2> QED BY <1>2, <2>1, <2>2 DEF SpentInv, period_expiration_time
<1>14. CASE Tick
  <2>1. now' = now + 1 /\ now' \in Nat /\ now \in Nat
        /\ UNCHANGED <<spent, freeConsumed, paidConsumed, paidDusting, paidCollections>>
    BY <1>14 DEF Tick, freeVars, paidVars, SpentInv
  <2>2. OldestPeriod' \in Nat /\ OldestPeriod <= OldestPeriod'
    BY <2>1, PeriodFacts DEF OldestPeriod, FreePeriod
  <2>3. \A q \in Nat : q >= OldestPeriod' => q >= OldestPeriod
    BY <1>1, <2>2
  <2>4. \A q \in Nat : now' < period_expiration_time(q) => now < period_expiration_time(q)
    BY <2>1, ExpirationType
  <2>5. \A q \in Nat : now >= period_expiration_time(q) => now' >= period_expiration_time(q)
    BY <2>1, ExpirationType
  <2> QED BY <2>1, <2>3, <2>4, <2>5 DEF SpentInv, period_expiration_time
<1>15. CASE UNCHANGED tokenVars
  BY <1>3, <1>15 DEF tokenVars, freeVars, paidVars, SpentInv
<1>16. CASE SpendToken
  <2>1. \A who \in Persons : 0..(FreeLimits[who] - 1) \subseteq Nat
    OBVIOUS
  <2>2. 1..MaxRings \subseteq Nat
    OBVIOUS
  <2> QED BY <1>6, <1>7, <1>16, <2>1, <2>2 DEF SpendToken
<1> QED BY <1>5, <1>8, <1>9, <1>10, <1>11, <1>12, <1>13, <1>14, <1>15, <1>16
        DEF TokenNext, TokenMaintenance, CleanPaid

\* No unload token, free or paid, is ever accepted twice, for any periods,
\* grace window, limits and batch sizes: what consume_free_unload_token and
\* mark_token_consumed remember is cleaned only when the token is too old.
THEOREM TokensSpentOnceCorrect == TokenSpec => []TokensSpentOnce
<1>1. SpentInv => TokensSpentOnce
  BY DEF SpentInv, TokensSpentOnce, IsPartialFunction
<1> QED BY SpentInit, SpentStep, <1>1, PTL DEF TokenSpec

-----------------------------------------------------------------------------
(* A token that was paid for is kept.                                      *)

\* Collections are well formed and keys are in one place of each.
CollectionsInv ==
  /\ now \in Nat
  /\ IsPartialFunction(paidCollections, Nat, CollectionOf(PaidKeys))
  /\ \A p \in DOMAIN paidCollections : Disjoint(paidCollections[p])

\* The keys of period p that its cleaning did not reach yet.
HeldIn(k, p) ==
  \/ k \in paidCollections[p].waiting
  \/ \E i \in Nat : i >= NextRing(p) /\ k \in RingKeys(paidCollections[p], i)

\* Such a key is registered and was bought in p, so that no other period can
\* hold it: without this, cleaning an old period could unregister a key that
\* was bought again since.
Registered ==
  /\ IsPartialFunction(paidNextRing, DOMAIN paidNextRing, Nat)
  /\ \A p \in DOMAIN paidCollections : \A k \in PaidKeys :
       HeldIn(k, p) => k \in paidMembers /\ k \in DOMAIN bought /\ bought[k] = p

\* PaidTokensKept, ring by ring.
Kept ==
  /\ IsPartialFunction(bought, PaidKeys, Nat)
  /\ \A k \in DOMAIN bought :
       now < period_expiration_time(bought[k]) =>
         /\ k \in paidMembers /\ bought[k] \in DOMAIN paidCollections
         /\ \/ k \in paidCollections[bought[k]].waiting
            \/ \E i \in Nat : k \in RingKeys(paidCollections[bought[k]], i)

\* PaidTokensKept with what makes it inductive.
KeptInv == CollectionsInv /\ Registered /\ Kept

\* Nothing was bought in the beginning.
LEMMA KeptInit == TokenInit => KeptInv
<1> SUFFICES ASSUME TokenInit PROVE KeptInv
  OBVIOUS
<1>1. /\ now \in Nat /\ DOMAIN paidCollections = {} /\ DOMAIN bought = {}
      /\ paidCollections = <<>> /\ bought = <<>> /\ paidNextRing = <<>>
  BY DEF TokenInit
<1>2. /\ IsPartialFunction(paidCollections, Nat, CollectionOf(PaidKeys))
      /\ IsPartialFunction(bought, PaidKeys, Nat)
      /\ IsPartialFunction(paidNextRing, DOMAIN paidNextRing, Nat)
  BY <1>1, EmptyMapType
<1> QED BY <1>1, <1>2 DEF KeptInv, CollectionsInv, Registered, Kept

\* The collection that add_member and on_poll work on.
LEMMA CurrentCollection ==
  ASSUME CollectionsInv
  PROVE  /\ current_period \in Nat
         /\ IsPartialFunction(WithCurrentCollection, Nat, CollectionOf(PaidKeys))
         /\ current_period \in DOMAIN WithCurrentCollection
         /\ DOMAIN WithCurrentCollection = DOMAIN paidCollections \cup {current_period}
         /\ \A p \in DOMAIN WithCurrentCollection : Disjoint(WithCurrentCollection[p])
         /\ \A p \in DOMAIN paidCollections : WithCurrentCollection[p] = paidCollections[p]
         /\ current_period \notin DOMAIN paidCollections
              => WithCurrentCollection[current_period] = create_collection
<1> DEFINE q == current_period
<1>1. q \in Nat
  BY DivMonotone, TokenAssumption DEF CollectionsInv, current_period
<1> HIDE DEF q
<1>2. CASE q \in DOMAIN paidCollections
  <2>1. WithCurrentCollection = paidCollections
    BY <1>2 DEF WithCurrentCollection, q
  <2> QED BY <1>1, <1>2, <2>1 DEF CollectionsInv, q
<1>3. CASE q \notin DOMAIN paidCollections
  <2> DEFINE w == WithCurrentCollection
  <2>1. w = Insert(paidCollections, q, create_collection)
    BY <1>3 DEF WithCurrentCollection, q
  <2> HIDE DEF w
  <2>2. /\ DOMAIN w = DOMAIN paidCollections \cup {q} /\ w[q] = create_collection
        /\ \A p \in DOMAIN paidCollections : w[p] = paidCollections[p]
    BY <1>3, <2>1 DEF Insert
  <2>3. IsPartialFunction(w, Nat, CollectionOf(PaidKeys))
    BY <1>1, <2>1, EmptyCollection DEF CollectionsInv, IsPartialFunction, Insert
  <2>4. \A p \in DOMAIN w : Disjoint(w[p])
    BY <2>2, EmptyCollection DEF CollectionsInv
  <2> QED BY <1>1, <1>3, <2>2, <2>3, <2>4 DEF w, q
<1> QED BY <1>2, <1>3

\* The invariant in the words of the property.
LEMMA KeptKeys == KeptInv => PaidTokensKept
<1> SUFFICES ASSUME KeptInv PROVE PaidTokensKept
  OBVIOUS
<1>1. \A p \in DOMAIN paidCollections : paidCollections[p] \in CollectionOf(PaidKeys)
  BY DEF KeptInv, CollectionsInv, IsPartialFunction
<1>2. \A p \in DOMAIN paidCollections : \A k :
        k \in AllRingKeys(paidCollections[p]) <=> \E i \in Nat : k \in RingKeys(paidCollections[p], i)
  BY <1>1, AllRingKeysFacts
<1> QED BY <1>2 DEF PaidTokensKept, KeptInv, Kept

\* The next ring to clean is a number.
LEMMA NextRingType ==
  ASSUME Registered, NEW p
  PROVE  NextRing(p) \in Nat
BY DEF Registered, NextRing, IsPartialFunction

\* Buying a token: the key was not registered, so no period held it.
LEMMA KeptAdd ==
  ASSUME KeptInv, NEW k \in PaidKeys, add_member(k)
  PROVE  KeptInv'
<1> DEFINE q == current_period
           w == WithCurrentCollection
           c == w[q]
           d == add_members(c, {k})
<1>1. /\ q \in Nat /\ IsPartialFunction(w, Nat, CollectionOf(PaidKeys)) /\ q \in DOMAIN w
      /\ DOMAIN w = DOMAIN paidCollections \cup {q}
      /\ \A p \in DOMAIN w : Disjoint(w[p])
      /\ \A p \in DOMAIN paidCollections : w[p] = paidCollections[p]
      /\ q \notin DOMAIN paidCollections => w[q] = create_collection
  BY CurrentCollection DEF KeptInv
<1>2. /\ k \notin paidMembers /\ CanAdd(c, {k}) /\ paidCollections' = [w EXCEPT ![q] = d]
      /\ paidMembers' = paidMembers \cup {k} /\ bought' = Insert(bought, k, q)
      /\ UNCHANGED <<now, paidNextRing>>
  BY DEF add_member
<1> HIDE DEF w, q
<1>3. c \in CollectionOf(PaidKeys)
  BY <1>1 DEF IsPartialFunction
<1>4. /\ d \in CollectionOf(PaidKeys) /\ Disjoint(d) /\ d.waiting = c.waiting \cup {k}
      /\ \A i : RingKeys(d, i) = RingKeys(c, i)
  <2>1. {k} \in SUBSET PaidKeys /\ Disjoint(c)
    BY <1>1
  <2> QED BY <1>2, <1>3, <2>1, AddedFacts
<1> HIDE DEF d, c
<1>5. /\ DOMAIN paidCollections' = DOMAIN w /\ paidCollections'[q] = d
      /\ \A p \in DOMAIN w \ {q} : paidCollections'[p] = paidCollections[p]
      /\ IsPartialFunction(paidCollections', Nat, CollectionOf(PaidKeys))
  BY <1>1, <1>2, <1>4 DEF IsPartialFunction
<1>6. CollectionsInv'
  BY <1>1, <1>2, <1>4, <1>5 DEF CollectionsInv, KeptInv
<1>7. /\ DOMAIN bought' = DOMAIN bought \cup {k} /\ bought'[k] = q
      /\ \A x \in DOMAIN bought \ {k} : bought'[x] = bought[x]
      /\ IsPartialFunction(bought', PaidKeys, Nat)
  BY <1>1, <1>2 DEF KeptInv, Kept, IsPartialFunction, Insert
<1>8. Registered'
  <2>1. ASSUME NEW p \in DOMAIN paidCollections', NEW x \in PaidKeys, HeldIn(x, p)'
        PROVE  x \in paidMembers' /\ x \in DOMAIN bought' /\ bought'[x] = p
    <3>1. NextRing(p)' = NextRing(p)
      BY <1>2 DEF NextRing
    <3>2. CASE p # q
      <4>1. p \in DOMAIN paidCollections /\ HeldIn(x, p)
        BY <1>1, <1>5, <2>1, <3>1, <3>2 DEF HeldIn
      <4>2. x \in paidMembers /\ x \in DOMAIN bought /\ bought[x] = p
        BY <4>1 DEF KeptInv, Registered
      <4> QED BY <1>2, <1>7, <4>2
    <3>3. CASE p = q /\ x = k
      BY <1>2, <1>7, <3>3
    <3>4. CASE p = q /\ x # k
      <4>1. x \in c.waiting \/ \E i \in Nat : i >= NextRing(q) /\ x \in RingKeys(c, i)
        BY <1>4, <1>5, <2>1, <3>1, <3>4 DEF HeldIn
      <4>2. q \in DOMAIN paidCollections
        BY <1>1, <4>1, EmptyCollection DEF c
      <4>3. HeldIn(x, q)
        BY <1>1, <4>1, <4>2 DEF HeldIn, c
      <4>4. x \in paidMembers /\ x \in DOMAIN bought /\ bought[x] = q
        BY <4>2, <4>3 DEF KeptInv, Registered
      <4> QED BY <1>2, <1>7, <3>4, <4>4
    <3> QED BY <3>2, <3>3, <3>4
  <2> QED BY <1>2, <2>1 DEF Registered, KeptInv
<1>9. Kept'
  <2>1. ASSUME NEW x \in DOMAIN bought', now < period_expiration_time(bought'[x])
        PROVE  /\ x \in paidMembers' /\ bought'[x] \in DOMAIN paidCollections'
               /\ \/ x \in paidCollections'[bought'[x]].waiting
                  \/ \E i \in Nat : x \in RingKeys(paidCollections'[bought'[x]], i)
    <3>1. CASE x = k
      BY <1>1, <1>2, <1>4, <1>5, <1>7, <3>1
    <3>2. CASE x # k
      <4> DEFINE p == bought[x]
      <4>1. x \in DOMAIN bought /\ bought'[x] = p /\ now < period_expiration_time(p)
        BY <1>7, <2>1, <3>2
      <4>2. /\ x \in paidMembers /\ p \in DOMAIN paidCollections
            /\ \/ x \in paidCollections[p].waiting
               \/ \E i \in Nat : x \in RingKeys(paidCollections[p], i)
        BY <4>1 DEF KeptInv, Kept
      <4> HIDE DEF p
      <4>3. CASE p = q
        <5>1. paidCollections[p] = c
          BY <1>1, <4>2, <4>3 DEF c
        <5> QED BY <1>1, <1>2, <1>4, <1>5, <4>1, <4>2, <4>3, <5>1
      <4>4. CASE p # q
        BY <1>1, <1>2, <1>5, <4>1, <4>2, <4>4
      <4> QED BY <4>3, <4>4
    <3> QED BY <3>1, <3>2
  <2> QED BY <1>2, <1>7, <2>1 DEF Kept, period_expiration_time
<1> QED BY <1>6, <1>8, <1>9 DEF KeptInv

\* Onboarding moves a key within its period.
LEMMA KeptOnboard ==
  ASSUME KeptInv, NEW p \in DOMAIN paidCollections, NEW k \in PaidKeys, OnboardPaid(p, k)
  PROVE  KeptInv'
<1> DEFINE c == paidCollections[p]
           d == Onboarded(c, k, now)
<1>1. c \in CollectionOf(PaidKeys) /\ Disjoint(c) /\ now \in Int
  BY DEF KeptInv, CollectionsInv, IsPartialFunction
<1>2. /\ k \in c.waiting /\ paidCollections' = [paidCollections EXCEPT ![p] = d]
      /\ UNCHANGED <<now, paidMembers, paidNextRing, bought>>
  BY DEF OnboardPaid, CanOnboard
<1> HIDE DEF c
<1>3. d \in CollectionOf(PaidKeys) /\ Disjoint(d) /\ d.waiting = c.waiting \ {k}
  BY <1>1, <1>2, OnboardedFacts
<1>4. PICK n \in Nat : \A i \in Nat :
        RingKeys(d, i) = IF i = n THEN RingKeys(c, i) \cup {k} ELSE RingKeys(c, i)
  <2>1. Len(c.rings) \in Nat
    BY <1>1, RingFacts
  <2>2. \A i \in Nat :
          RingKeys(d, i) = IF i = Len(c.rings) THEN RingKeys(c, i) \cup {k} ELSE RingKeys(c, i)
    BY <1>1, <1>2, OnboardedFacts
  <2> QED BY <2>1, <2>2
<1> HIDE DEF d
<1>5. /\ DOMAIN paidCollections' = DOMAIN paidCollections /\ paidCollections'[p] = d
      /\ \A q \in DOMAIN paidCollections \ {p} : paidCollections'[q] = paidCollections[q]
      /\ IsPartialFunction(paidCollections', Nat, CollectionOf(PaidKeys))
  BY <1>2, <1>3 DEF KeptInv, CollectionsInv, IsPartialFunction
<1>6. CollectionsInv'
  BY <1>2, <1>3, <1>5 DEF CollectionsInv, KeptInv
<1>7. ASSUME NEW x,
             x \in d.waiting \/ \E i \in Nat : i >= NextRing(p) /\ x \in RingKeys(d, i)
      PROVE  x \in c.waiting \/ \E i \in Nat : i >= NextRing(p) /\ x \in RingKeys(c, i)
  BY <1>2, <1>3, <1>4, <1>7
<1>8. ASSUME NEW x, x \in c.waiting \/ \E i \in Nat : x \in RingKeys(c, i)
      PROVE  x \in d.waiting \/ \E i \in Nat : x \in RingKeys(d, i)
  BY <1>3, <1>4, <1>8
<1>9. Registered'
  <2>1. ASSUME NEW q \in DOMAIN paidCollections', NEW x \in PaidKeys, HeldIn(x, q)'
        PROVE  x \in paidMembers' /\ x \in DOMAIN bought' /\ bought'[x] = q
    <3>1. NextRing(q)' = NextRing(q)
      BY <1>2 DEF NextRing
    <3>2. HeldIn(x, q)
      <4>1. CASE q # p
        BY <1>5, <2>1, <3>1, <4>1 DEF HeldIn
      <4>2. CASE q = p
        BY <1>5, <1>7, <2>1, <3>1, <4>2 DEF HeldIn, c
      <4> QED BY <4>1, <4>2
    <3> QED BY <1>2, <1>5, <2>1, <3>2 DEF KeptInv, Registered
  <2> QED BY <1>2, <2>1 DEF Registered, KeptInv
<1>10. Kept'
  <2>1. ASSUME NEW x \in DOMAIN bought, now < period_expiration_time(bought[x])
        PROVE  /\ x \in paidMembers /\ bought[x] \in DOMAIN paidCollections'
               /\ \/ x \in paidCollections'[bought[x]].waiting
                  \/ \E i \in Nat : x \in RingKeys(paidCollections'[bought[x]], i)
    <3> DEFINE q == bought[x]
    <3>1. /\ x \in paidMembers /\ q \in DOMAIN paidCollections
          /\ \/ x \in paidCollections[q].waiting
             \/ \E i \in Nat : x \in RingKeys(paidCollections[q], i)
      BY <2>1 DEF KeptInv, Kept
    <3> HIDE DEF q
    <3>2. CASE q = p
      BY <1>5, <1>8, <3>1, <3>2 DEF q, c
    <3>3. CASE q # p
      BY <1>5, <3>1, <3>3 DEF q
    <3> QED BY <3>2, <3>3
  <2> QED BY <1>2, <2>1 DEF Kept, KeptInv, period_expiration_time
<1> QED BY <1>6, <1>9, <1>10 DEF KeptInv

\* Cleaning a ring unregisters keys that were bought in the expired period
\* only.
LEMMA KeptCleanRing ==
  ASSUME KeptInv, NEW p \in DOMAIN paidCollections, clean_paid_unload_token_ring(p)
  PROVE  KeptInv'
<1> DEFINE c == paidCollections[p]
           n == NextRing(p)
           gone == RingKeys(c, n)
<1>1. Disjoint(c) /\ n \in Nat /\ p \in Nat /\ c \in CollectionOf(PaidKeys)
  BY NextRingType DEF KeptInv, CollectionsInv, IsPartialFunction
<1>2. /\ now >= period_expiration_time(p) /\ paidMembers' = paidMembers \ gone
      /\ paidNextRing' = Insert(paidNextRing, p, n + 1)
      /\ UNCHANGED <<now, paidCollections, bought>>
  BY DEF clean_paid_unload_token_ring, PaidPeriodOver
<1>3. ASSUME NEW x \in gone PROVE x \in DOMAIN bought /\ bought[x] = p
  <2>1. x \in PaidKeys
    <3>1. c.rings \in Seq(RingOf(PaidKeys))
      BY <1>1 DEF CollectionOf
    <3>2. n \in DOMAIN c.rings => c.rings[n] \in RingOf(PaidKeys)
      BY <3>1, ElementOfSeq, LenProperties
    <3> QED BY <3>2, <1>3 DEF RingKeys, RingOf
  <2>2. HeldIn(x, p)
    BY <1>1, <1>3 DEF HeldIn
  <2> QED BY <2>1, <2>2 DEF KeptInv, Registered
<1>4. NextRing(p)' = n + 1 /\ \A q : q # p => NextRing(q)' = NextRing(q)
  BY <1>2 DEF NextRing, Insert
<1>5. IsPartialFunction(paidNextRing', DOMAIN paidNextRing', Nat)
  <2>1. n + 1 \in Nat
    BY <1>1
  <2> HIDE DEF n
  <2> QED BY <1>2, <2>1 DEF KeptInv, Registered, IsPartialFunction, Insert
<1> HIDE DEF n, gone
<1>6. ASSUME NEW q \in DOMAIN paidCollections, NEW x \in PaidKeys, HeldIn(x, q)'
      PROVE  x \in paidMembers' /\ x \in DOMAIN bought /\ bought[x] = q
  <2>1. HeldIn(x, q)
    <3>1. CASE q # p
      BY <1>2, <1>4, <1>6, <3>1 DEF HeldIn
    <3>2. CASE q = p
      <4>1. x \in c.waiting \/ \E i \in Nat : i >= n + 1 /\ x \in RingKeys(c, i)
        BY <1>2, <1>4, <1>6, <3>2 DEF HeldIn
      <4>2. x \in c.waiting \/ \E i \in Nat : i >= n /\ x \in RingKeys(c, i)
        BY <1>1, <4>1
      <4> QED BY <3>2, <4>2 DEF HeldIn, n
    <3> QED BY <3>1, <3>2
  <2>2. x \in paidMembers /\ x \in DOMAIN bought /\ bought[x] = q
    BY <2>1 DEF KeptInv, Registered
  <2>3. x \notin gone
    <3> SUFFICES ASSUME x \in gone PROVE FALSE
      OBVIOUS
    <3>1. q = p
      BY <1>3, <2>2
    <3>2. x \in c.waiting \/ \E i \in Nat : i >= n + 1 /\ x \in RingKeys(c, i)
      BY <1>2, <1>4, <1>6, <3>1 DEF HeldIn
    <3>3. x \notin c.waiting
      BY <1>1 DEF Disjoint, gone
    <3>4. PICK i \in Nat : i >= n + 1 /\ x \in RingKeys(c, i)
      BY <3>2, <3>3
    <3>5. i # n
      BY <1>1, <3>4
    <3> QED BY <1>1, <3>4, <3>5 DEF Disjoint, gone
  <2> QED BY <1>2, <2>2, <2>3
<1>7. Registered'
  BY <1>2, <1>5, <1>6 DEF Registered
<1>8. CollectionsInv'
  BY <1>2 DEF KeptInv, CollectionsInv
<1>9. Kept'
  <2>1. ASSUME NEW x \in DOMAIN bought, now < period_expiration_time(bought[x])
        PROVE  x \notin gone
    <3> SUFFICES ASSUME x \in gone PROVE FALSE
      OBVIOUS
    <3>1. bought[x] = p
      BY <1>3
    <3>2. now \in Nat /\ period_expiration_time(p) \in Nat
      BY <1>1, ExpirationType DEF KeptInv, CollectionsInv
    <3> QED BY <1>2, <2>1, <3>1, <3>2
  <2> QED BY <1>2, <2>1 DEF KeptInv, Kept, period_expiration_time
<1> QED BY <1>7, <1>8, <1>9 DEF KeptInv

\* Only a collection whose period has expired is deleted.
LEMMA KeptDelete ==
  ASSUME KeptInv, NEW p \in DOMAIN paidCollections,
         delete_expired_paid_unload_token_collection(p)
  PROVE  KeptInv'
<1>1. /\ now >= period_expiration_time(p) /\ paidCollections' = Without(paidCollections, p)
      /\ paidNextRing' = Without(paidNextRing, p) /\ UNCHANGED <<now, paidMembers, bought>>
  BY DEF delete_expired_paid_unload_token_collection, PaidPeriodOver
<1>2. p \in Nat /\ now \in Nat /\ period_expiration_time(p) \in Nat
  BY ExpirationType DEF KeptInv, CollectionsInv, IsPartialFunction
<1>3. /\ DOMAIN paidCollections' = DOMAIN paidCollections \ {p}
      /\ \A q \in DOMAIN paidCollections' : paidCollections'[q] = paidCollections[q]
      /\ \A q : q # p => NextRing(q)' = NextRing(q)
  BY <1>1 DEF Without, NextRing
<1>4. CollectionsInv'
  <2>1. IsPartialFunction(paidCollections', Nat, CollectionOf(PaidKeys))
    BY <1>1, WithoutType DEF KeptInv, CollectionsInv
  <2> QED BY <1>1, <1>3, <2>1 DEF KeptInv, CollectionsInv
<1>5. Registered'
  <2>1. IsPartialFunction(paidNextRing', DOMAIN paidNextRing', Nat)
    BY <1>1 DEF KeptInv, Registered, IsPartialFunction, Without
  <2>2. \A q \in DOMAIN paidCollections' : \A x : HeldIn(x, q)' => HeldIn(x, q)
    BY <1>3 DEF HeldIn
  <2> QED BY <1>1, <1>3, <2>1, <2>2 DEF KeptInv, Registered
<1>6. Kept'
  <2>1. ASSUME NEW x \in DOMAIN bought, now < period_expiration_time(bought[x])
        PROVE  bought[x] # p
    BY <1>1, <1>2, <2>1
  <2> QED BY <1>1, <1>3, <2>1 DEF KeptInv, Kept, period_expiration_time
<1> QED BY <1>4, <1>5, <1>6 DEF KeptInv

\* Every step keeps the invariant.
LEMMA KeptStep == KeptInv /\ [TokenNext]_tokenVars => KeptInv'
<1> SUFFICES ASSUME KeptInv, [TokenNext]_tokenVars PROVE KeptInv'
  OBVIOUS
<1>1. ASSUME UNCHANGED <<now, paidCollections, paidMembers, paidNextRing, bought>>
      PROVE  KeptInv'
  BY <1>1 DEF KeptInv, CollectionsInv, Registered, Kept, HeldIn, NextRing,
              period_expiration_time
<1>2. CASE ensure_current_period_collection_exists
  <2>0. PICK q : q = current_period
    OBVIOUS
  <2>1. /\ q \notin DOMAIN paidCollections /\ paidCollections' = WithCurrentCollection
        /\ UNCHANGED <<now, paidMembers, paidNextRing, bought>>
    BY <1>2, <2>0 DEF ensure_current_period_collection_exists
  <2>2. /\ IsPartialFunction(paidCollections', Nat, CollectionOf(PaidKeys))
        /\ DOMAIN paidCollections' = DOMAIN paidCollections \cup {q}
        /\ \A p \in DOMAIN paidCollections' : Disjoint(paidCollections'[p])
        /\ \A p \in DOMAIN paidCollections : paidCollections'[p] = paidCollections[p]
        /\ paidCollections'[q] = create_collection
    BY <2>0, <2>1, CurrentCollection DEF KeptInv
  <2>3. CollectionsInv'
    BY <2>1, <2>2 DEF KeptInv, CollectionsInv
  <2>4. Registered'
    <3>1. \A x : ~HeldIn(x, q)'
      BY <2>2, EmptyCollection DEF HeldIn
    <3>2. \A p \in DOMAIN paidCollections : \A x : HeldIn(x, p)' => HeldIn(x, p)
      BY <2>1, <2>2 DEF HeldIn, NextRing
    <3> QED BY <2>1, <2>2, <3>1, <3>2 DEF KeptInv, Registered
  <2>5. Kept'
    BY <2>1, <2>2 DEF KeptInv, Kept, period_expiration_time
  <2> QED BY <2>3, <2>4, <2>5 DEF KeptInv
<1>3. CASE Tick
  <2>1. now' = now + 1 /\ now \in Nat /\ now' \in Nat
        /\ UNCHANGED <<paidCollections, paidMembers, paidNextRing, bought>>
    BY <1>3 DEF Tick, paidVars, KeptInv, CollectionsInv
  <2>2. CollectionsInv' /\ Registered'
    BY <2>1 DEF KeptInv, CollectionsInv, Registered, HeldIn, NextRing
  <2>3. \A x \in DOMAIN bought :
          now' < period_expiration_time(bought[x]) => now < period_expiration_time(bought[x])
    <3>1. \A x \in DOMAIN bought : period_expiration_time(bought[x]) \in Nat
      BY ExpirationType DEF KeptInv, Kept, IsPartialFunction
    <3> QED BY <2>1, <3>1
  <2>4. Kept'
    BY <2>1, <2>3 DEF KeptInv, Kept, period_expiration_time
  <2> QED BY <2>2, <2>4 DEF KeptInv
<1>4. CASE SpendToken
  <2>1. \A who, c, p : SpendFree(who, c, p) => UNCHANGED <<now, paidVars>>
    BY DEF SpendFree
  <2>2. \A p, i, k : SpendPaid(p, i, k)
          => UNCHANGED <<now, paidCollections, paidMembers, paidNextRing, bought>>
    BY DEF SpendPaid
  <2> QED BY <1>1, <1>4, <2>1, <2>2 DEF SpendToken, paidVars
<1>5. CASE CleanFree
  BY <1>1, <1>5 DEF CleanFree, clean_consumed_free_token, paidVars
<1>6. CASE CleanPaidDust
  BY <1>1, <1>6 DEF CleanPaidDust, clean_paid_unload_token_dust
<1>7. CASE UNCHANGED tokenVars
  BY <1>1, <1>7 DEF tokenVars, paidVars
<1> QED BY <1>2, <1>3, <1>4, <1>5, <1>6, <1>7, KeptAdd, KeptOnboard, KeptCleanRing, KeptDelete
        DEF TokenNext, TokenMaintenance, CleanPaid

\* Whoever bought a token has it until its period has expired, although the
\* registrations of older periods are cleaned ring by ring meanwhile and a key
\* can be bought again.
THEOREM PaidTokensKeptCorrect == TokenSpec => []PaidTokensKept
BY KeptInit, KeptStep, KeptKeys, PTL DEF TokenSpec

-----------------------------------------------------------------------------
(* Recyclers.                                                              *)

\* Coins, recyclers, registrations and the aliases of unloaded vouchers.
Coin == [value : Values, age : Nat]
RecyclerTypes ==
  /\ now \in Nat
  /\ IsPartialFunction(coins, Accounts, Coin)
  /\ IsPartialFunction(recyclers, Values, CollectionOf(Keys))
  /\ lastRemoved \in [Values -> Nat]
  /\ IsPartialFunction(coinToRecycler, Keys, Values)
  /\ unloaded \subseteq Values \X Nat \X Keys
  /\ dusting \subseteq Values \X Nat

\* The first n rings of c were removed, and never the one that takes keys, so
\* that no ring takes keys again after its removal.
RemovedUpTo(c, n) ==
  /\ Disjoint(c) /\ LastOpen(c) /\ n < Len(c.rings)
  /\ \A i \in Nat : i <= n => RingKeys(c, i) = {}

\* The recycler of v, or the empty one it starts as.
Recycler(v) == IF v \in DOMAIN recyclers THEN recyclers[v] ELSE create_collection

RingsRemovedInOrder == \A v \in Values : RemovedUpTo(Recycler(v), lastRemoved[v])

HoldsKey(c, k) == k \in c.waiting \/ \E i \in Nat : k \in RingKeys(c, i)

\* A key is registered for the recycler that holds it.
KeysRegistered ==
  \A v \in Values : \A k \in Keys :
    HoldsKey(Recycler(v), k) <=> k \in DOMAIN coinToRecycler /\ coinToRecycler[k] = v

\* Aliases are of keys in their rings, or of rings that were removed.
AliasesKept ==
  /\ \A x \in unloaded :
       x[3] \in RingKeys(Recycler(x[1]), x[2]) \/ <<x[1], x[2]>> \in dusting
  /\ \A ring \in dusting : ring[2] <= lastRemoved[ring[1]]

\* RecyclersExact with what makes it inductive.
RecyclerInv == RecyclerTypes /\ RingsRemovedInOrder /\ KeysRegistered /\ AliasesKept

\* A new recycler.
LEMMA RecyclerCreated ==
  /\ create_collection \in CollectionOf(Keys) /\ RemovedUpTo(create_collection, 0)
  /\ \A k : ~HoldsKey(create_collection, k)
BY EmptyCollection DEF RemovedUpTo, HoldsKey

\* Keys that are loaded wait.
LEMMA RecyclerLoaded ==
  ASSUME NEW c \in CollectionOf(Keys), NEW n \in Nat, RemovedUpTo(c, n),
         NEW S \in SUBSET Keys, CanAdd(c, S)
  PROVE  /\ add_members(c, S) \in CollectionOf(Keys)
         /\ RemovedUpTo(add_members(c, S), n)
         /\ \A k : HoldsKey(add_members(c, S), k) <=> HoldsKey(c, k) \/ k \in S
         /\ add_members(c, S).waiting = c.waiting \cup S
         /\ \A i : RingKeys(add_members(c, S), i) = RingKeys(c, i)
<1> DEFINE d == add_members(c, S)
<1>1. /\ d \in CollectionOf(Keys) /\ Disjoint(d) /\ d.waiting = c.waiting \cup S
      /\ d.rings = c.rings /\ \A i : RingKeys(d, i) = RingKeys(c, i)
  BY AddedFacts DEF RemovedUpTo
<1> HIDE DEF d
<1>2. RemovedUpTo(d, n)
  BY <1>1 DEF RemovedUpTo, LastOpen
<1>3. \A k : HoldsKey(d, k) <=> HoldsKey(c, k) \/ k \in S
  BY <1>1 DEF HoldsKey
<1> QED BY <1>1, <1>2, <1>3 DEF d

\* A key that is onboarded stays in its recycler, in a ring that was not
\* removed.
LEMMA RecyclerOnboarded ==
  ASSUME NEW c \in CollectionOf(Keys), NEW n \in Nat, RemovedUpTo(c, n),
         NEW k, CanOnboard(c, k), NEW t \in Nat
  PROVE  /\ Onboarded(c, k, t) \in CollectionOf(Keys)
         /\ RemovedUpTo(Onboarded(c, k, t), n)
         /\ \A x : HoldsKey(Onboarded(c, k, t), x) <=> HoldsKey(c, x)
         /\ Onboarded(c, k, t).waiting = c.waiting \ {k} /\ k \in c.waiting
         /\ \A i \in Nat :
              RingKeys(Onboarded(c, k, t), i)
                = IF i = Len(c.rings) THEN RingKeys(c, i) \cup {k} ELSE RingKeys(c, i)
         /\ Len(c.rings) \in 1..MaxRings /\ n < Len(c.rings)
<1> DEFINE d == Onboarded(c, k, t)
<1>1. k \in c.waiting /\ Disjoint(c) /\ t \in Int /\ IsFiniteSet(Keys) /\ LastOpen(c)
  BY CoinageAssumption DEF CanOnboard, RemovedUpTo
<1>2. /\ d \in CollectionOf(Keys) /\ Disjoint(d) /\ d.waiting = c.waiting \ {k}
      /\ \A i \in Nat :
           RingKeys(d, i) = IF i = Len(c.rings) THEN RingKeys(c, i) \cup {k} ELSE RingKeys(c, i)
      /\ Len(d.rings) >= Len(c.rings)
      /\ LastOpen(d)
  BY <1>1, OnboardedFacts
<1> HIDE DEF d
<1>3. PICK N \in Nat : N = Len(c.rings)
  BY RingFacts
<1>4. N \in 1..MaxRings /\ n < N
  <2>1. Len(c.rings) \in Nat \ {0} /\ MaxRings \in Nat
    BY RingFacts, CollectionAssumption
  <2> QED BY <1>1, <1>3, <2>1 DEF RemovedUpTo, LastOpen
<1>5. n < Len(d.rings)
  <2>1. Len(d.rings) \in Nat
    BY <1>2, RingFacts
  <2> QED BY <1>2, <1>3, <1>4, <2>1
<1>6. \A i \in Nat : i <= n => RingKeys(d, i) = {}
  <2>1. \A i \in Nat : i <= n => i # N
    BY <1>4
  <2> QED BY <1>2, <1>3, <2>1 DEF RemovedUpTo
<1>7. \A x : HoldsKey(d, x) <=> HoldsKey(c, x)
  BY <1>1, <1>2, <1>3 DEF HoldsKey
<1>8. RemovedUpTo(d, n)
  BY <1>2, <1>5, <1>6 DEF RemovedUpTo
<1> QED BY <1>1, <1>2, <1>3, <1>4, <1>7, <1>8 DEF d

\* The next ring that is removed is not the last.
LEMMA RecyclerRemoved ==
  ASSUME NEW c \in CollectionOf(Keys), NEW n \in Nat, RemovedUpTo(c, n),
         n + 1 \in DOMAIN c.rings, c.rings[n + 1].immutable_since # NoTime
  PROVE  /\ remove_ring(c, n + 1) \in CollectionOf(Keys)
         /\ RemovedUpTo(remove_ring(c, n + 1), n + 1)
         /\ \A k : HoldsKey(remove_ring(c, n + 1), k)
                     <=> HoldsKey(c, k) /\ k \notin RingKeys(c, n + 1)
         /\ remove_ring(c, n + 1).waiting = c.waiting
         /\ \A i : RingKeys(remove_ring(c, n + 1), i)
                     = IF i = n + 1 THEN {} ELSE RingKeys(c, i)
         /\ n + 1 \in 1..MaxRings
<1> DEFINE d == remove_ring(c, n + 1)
<1>1. /\ d \in CollectionOf(Keys) /\ Disjoint(d) /\ d.waiting = c.waiting
      /\ Len(d.rings) = Len(c.rings) /\ LastOpen(d)
      /\ \A i : RingKeys(d, i) = IF i = n + 1 THEN {} ELSE RingKeys(c, i)
  <2>1. PICK m \in DOMAIN c.rings : m = n + 1
    OBVIOUS
  <2>2. Disjoint(c) /\ LastOpen(c)
    BY DEF RemovedUpTo
  <2>3. /\ remove_ring(c, m) \in CollectionOf(Keys) /\ Disjoint(remove_ring(c, m))
        /\ remove_ring(c, m).waiting = c.waiting
        /\ Len(remove_ring(c, m).rings) = Len(c.rings) /\ LastOpen(remove_ring(c, m))
        /\ \A i : RingKeys(remove_ring(c, m), i) = IF i = m THEN {} ELSE RingKeys(c, i)
    BY <2>2, RemovedFacts
  <2> QED BY <2>1, <2>3, Zenon
<1> HIDE DEF d
<1>2. PICK N \in Nat : N = Len(c.rings) /\ DOMAIN c.rings = 1..N
  BY RingFacts
<1>3. n + 1 # N /\ n + 1 \in 1..N /\ N <= MaxRings /\ MaxRings \in Nat
  BY <1>2, CollectionAssumption DEF RemovedUpTo, LastOpen
<1>4. n + 1 < N /\ n + 1 \in 1..MaxRings
  BY <1>2, <1>3
<1>5. \A i \in Nat : i <= n + 1 => RingKeys(d, i) = {}
  <2>1. \A i \in Nat : i <= n + 1 => i = n + 1 \/ i <= n
    OBVIOUS
  <2> QED BY <1>1, <2>1 DEF RemovedUpTo
<1>6. \A k : HoldsKey(d, k) <=> HoldsKey(c, k) /\ k \notin RingKeys(c, n + 1)
  <2>1. \A i \in Nat : i # n + 1 => RingKeys(c, i) \cap RingKeys(c, n + 1) = {}
    BY DEF RemovedUpTo, Disjoint
  <2>2. c.waiting \cap RingKeys(c, n + 1) = {}
    BY DEF RemovedUpTo, Disjoint
  <2> QED BY <1>1, <2>1, <2>2 DEF HoldsKey
<1>7. RemovedUpTo(d, n + 1)
  BY <1>1, <1>2, <1>4, <1>5 DEF RemovedUpTo
<1> QED BY <1>1, <1>4, <1>6, <1>7 DEF d

\* Deleting pages of removed rings.
LEMMA RecyclerPages ==
  ASSUME NEW c \in CollectionOf(Keys), NEW n \in Nat, RemovedUpTo(c, n), NEW page
  PROVE  /\ delete_ring_page(c, page) \in CollectionOf(Keys)
         /\ RemovedUpTo(delete_ring_page(c, page), n)
         /\ \A k : HoldsKey(delete_ring_page(c, page), k) <=> HoldsKey(c, k)
         /\ delete_ring_page(c, page).waiting = c.waiting
         /\ \A i : RingKeys(delete_ring_page(c, page), i) = RingKeys(c, i)
<1> DEFINE d == delete_ring_page(c, page)
<1>1. d \in CollectionOf(Keys) /\ d.waiting = c.waiting /\ d.rings = c.rings
  BY PageFacts
<1> HIDE DEF d
<1>2. \A i : RingKeys(d, i) = RingKeys(c, i)
  BY <1>1 DEF RingKeys
<1> QED BY <1>1, <1>2 DEF d, RemovedUpTo, Disjoint, LastOpen, HoldsKey

\* The recycler of a value.
LEMMA RecyclerFacts ==
  ASSUME RecyclerInv, NEW v \in Values
  PROVE  /\ Recycler(v) \in CollectionOf(Keys) /\ lastRemoved[v] \in Nat
         /\ RemovedUpTo(Recycler(v), lastRemoved[v])
<1>1. Recycler(v) \in CollectionOf(Keys)
  BY EmptyCollection DEF RecyclerInv, RecyclerTypes, IsPartialFunction, Recycler
<1> QED BY <1>1 DEF RecyclerInv, RecyclerTypes, RingsRemovedInOrder

\* ensure_collection_exists creates empty recyclers only.
LEMMA WithRecyclersFacts ==
  ASSUME RecyclerInv, NEW S \in SUBSET Values
  PROVE  /\ IsPartialFunction(WithRecyclers(S), Values, CollectionOf(Keys))
         /\ DOMAIN WithRecyclers(S) = DOMAIN recyclers \cup S
         /\ \A v \in DOMAIN recyclers \cup S : WithRecyclers(S)[v] = Recycler(v)
<1> DEFINE W == WithRecyclers(S)
<1>1. W = [v \in DOMAIN recyclers \cup S |-> Recycler(v)]
  BY DEF WithRecyclers, Recycler
<1> HIDE DEF W
<1>2. DOMAIN recyclers \cup S \subseteq Values
  BY DEF RecyclerInv, RecyclerTypes, IsPartialFunction
<1>3. \A v \in DOMAIN recyclers \cup S : Recycler(v) \in CollectionOf(Keys)
  BY <1>2, RecyclerFacts
<1> QED BY <1>1, <1>2, <1>3 DEF IsPartialFunction, W

\* Keys that are loaded are registered for the recyclers they wait in; no
\* recycler held one of them before.
LEMMA LoadKeeps ==
  ASSUME RecyclerInv, NEW new, IsPartialFunction(new, Keys, Values), load(new),
         UNCHANGED lastRemoved
  PROVE  /\ IsPartialFunction(recyclers', Values, CollectionOf(Keys))
         /\ IsPartialFunction(coinToRecycler', Keys, Values)
         /\ RingsRemovedInOrder' /\ KeysRegistered'
         /\ \A v \in Values :
              /\ Recycler(v)'.waiting = Recycler(v).waiting \cup {k \in DOMAIN new : new[k] = v}
              /\ \A i : RingKeys(Recycler(v)', i) = RingKeys(Recycler(v), i)
         /\ \A k \in DOMAIN new : ~HoldsKey(Recycler(new[k]), k)
<1> DEFINE S(v) == {k \in DOMAIN new : new[k] = v}
           W == WithRecyclers(Range(new))
<1>1. /\ DOMAIN new \cap DOMAIN coinToRecycler = {}
      /\ \A k \in DOMAIN new : CanAdd(WithRecyclers({new[k]})[new[k]], {k})
      /\ recyclers' = [v \in DOMAIN W |-> add_members(W[v], S(v))]
      /\ coinToRecycler' = [k \in DOMAIN coinToRecycler \cup DOMAIN new |->
                              IF k \in DOMAIN new THEN new[k] ELSE coinToRecycler[k]]
  BY DEF load, CanLoad, Loaded
<1>2. DOMAIN new \subseteq Keys /\ \A k \in DOMAIN new : new[k] \in Values
  BY DEF IsPartialFunction
<1>3. Range(new) \in SUBSET Values /\ \A k \in DOMAIN new : new[k] \in Range(new)
  BY <1>2 DEF Range
<1>4. /\ DOMAIN W = DOMAIN recyclers \cup Range(new)
      /\ \A v \in DOMAIN W : W[v] = Recycler(v) /\ v \in Values
  <2>1. DOMAIN recyclers \subseteq Values
    BY DEF RecyclerInv, RecyclerTypes, IsPartialFunction
  <2> QED BY <1>3, <2>1, WithRecyclersFacts
<1> HIDE DEF W
<1>5. ASSUME NEW v \in Values PROVE CanAdd(Recycler(v), S(v)) /\ S(v) \in SUBSET Keys
  <2>1. ASSUME NEW k \in S(v) PROVE ~IsMember(Recycler(v), k)
    <3>1. {v} \in SUBSET Values /\ v \in DOMAIN recyclers \cup {v}
      OBVIOUS
    <3>2. WithRecyclers({v})[v] = Recycler(v)
      BY <3>1, WithRecyclersFacts
    <3> QED BY <1>1, <3>2 DEF CanAdd
  <2> QED BY <1>2, <2>1 DEF CanAdd
<1>6. \A v \in Values :
        /\ Recycler(v) \in CollectionOf(Keys) /\ lastRemoved[v] \in Nat
        /\ RemovedUpTo(Recycler(v), lastRemoved[v])
  BY RecyclerFacts
<1>7. ASSUME NEW v \in Values
      PROVE  /\ Recycler(v)' \in CollectionOf(Keys)
             /\ RemovedUpTo(Recycler(v)', lastRemoved[v])
             /\ \A k : HoldsKey(Recycler(v)', k) <=> HoldsKey(Recycler(v), k) \/ k \in S(v)
             /\ Recycler(v)'.waiting = Recycler(v).waiting \cup S(v)
             /\ \A i : RingKeys(Recycler(v)', i) = RingKeys(Recycler(v), i)
  <2> DEFINE c == Recycler(v)
             d == add_members(c, S(v))
  <2>1. /\ d \in CollectionOf(Keys) /\ RemovedUpTo(d, lastRemoved[v])
        /\ \A k : HoldsKey(d, k) <=> HoldsKey(c, k) \/ k \in S(v)
        /\ d.waiting = c.waiting \cup S(v)
        /\ \A i : RingKeys(d, i) = RingKeys(c, i)
    <3> HIDE DEF c, S
    <3>1. c \in CollectionOf(Keys) /\ lastRemoved[v] \in Nat /\ RemovedUpTo(c, lastRemoved[v])
          /\ S(v) \in SUBSET Keys /\ CanAdd(c, S(v))
      BY <1>5, <1>6 DEF c
    <3> QED BY <3>1, RecyclerLoaded
  <2>2. CASE v \in DOMAIN W
    <3>1. Recycler(v)' = d
      BY <1>1, <1>4, <2>2 DEF Recycler
    <3> QED BY <2>1, <3>1
  <2>3. CASE v \notin DOMAIN W
    <3>1. Recycler(v)' = create_collection /\ c = create_collection
      BY <1>1, <1>4, <2>3 DEF Recycler
    <3>2. S(v) = {}
      BY <1>3, <1>4, <2>3
    <3>3. c \in CollectionOf(Keys) /\ RemovedUpTo(c, lastRemoved[v]) /\ c.waiting = c.waiting \cup S(v)
      BY <1>6, <3>2
    <3> HIDE DEF c, S
    <3> QED BY <3>1, <3>2, <3>3 DEF c
  <2> QED BY <2>2, <2>3
<1>8. IsPartialFunction(recyclers', Values, CollectionOf(Keys))
  <2>1. \A v \in DOMAIN W : recyclers'[v] = Recycler(v)'
    BY <1>1 DEF Recycler
  <2>2. \A v \in DOMAIN W : recyclers'[v] \in CollectionOf(Keys)
    BY <1>4, <1>7, <2>1
  <2> QED BY <1>1, <1>4, <2>2 DEF IsPartialFunction
<1>9. IsPartialFunction(coinToRecycler', Keys, Values)
  BY <1>1, <1>2 DEF IsPartialFunction, RecyclerInv, RecyclerTypes
<1>10. RingsRemovedInOrder'
  BY <1>7 DEF RingsRemovedInOrder
<1>11. \A v \in Values : \A k \in Keys :
         HoldsKey(Recycler(v), k) <=> k \in DOMAIN coinToRecycler /\ coinToRecycler[k] = v
  BY DEF RecyclerInv, KeysRegistered
<1>12. KeysRegistered'
  <2>1. ASSUME NEW v \in Values, NEW k \in Keys
        PROVE  (HoldsKey(Recycler(v), k) \/ k \in S(v))
                 <=> k \in DOMAIN coinToRecycler' /\ coinToRecycler'[k] = v
    BY <1>1, <1>11
  <2> QED BY <1>7, <2>1 DEF KeysRegistered
<1>13. \A k \in DOMAIN new : ~HoldsKey(Recycler(new[k]), k)
  BY <1>1, <1>2, <1>11
<1> QED BY <1>7, <1>8, <1>9, <1>10, <1>12, <1>13

\* Changing one recycler changes that of no other value.
LEMMA RecyclerChanged ==
  ASSUME RecyclerInv, NEW v \in DOMAIN recyclers, NEW d \in CollectionOf(Keys),
         recyclers' = [recyclers EXCEPT ![v] = d]
  PROVE  /\ v \in Values /\ Recycler(v)' = d /\ Recycler(v) = recyclers[v]
         /\ \A w \in Values : w # v => Recycler(w)' = Recycler(w)
         /\ IsPartialFunction(recyclers', Values, CollectionOf(Keys))
BY DEF RecyclerInv, RecyclerTypes, IsPartialFunction, Recycler

\* Onboarding moves a key from the queue to the last ring.
LEMMA OnboardKeeps ==
  ASSUME RecyclerInv, NEW v \in DOMAIN recyclers, NEW k \in Keys,
         CanOnboard(recyclers[v], k),
         recyclers' = [recyclers EXCEPT ![v] = Onboarded(@, k, now)],
         UNCHANGED <<lastRemoved, coinToRecycler>>
  PROVE  /\ IsPartialFunction(recyclers', Values, CollectionOf(Keys))
         /\ RingsRemovedInOrder' /\ KeysRegistered' /\ v \in Values
         /\ \A w \in Values : w # v => Recycler(w)' = Recycler(w)
         /\ Recycler(v)'.waiting = Recycler(v).waiting \ {k} /\ k \in Recycler(v).waiting
         /\ \E n \in 1..MaxRings :
              /\ lastRemoved[v] < n
              /\ \A i \in Nat : RingKeys(Recycler(v)', i)
                   = IF i = n THEN RingKeys(Recycler(v), i) \cup {k} ELSE RingKeys(Recycler(v), i)
<1> DEFINE c == recyclers[v]
           d == Onboarded(c, k, now)
           m == lastRemoved[v]
<1>0. v \in Values /\ Recycler(v) = c /\ now \in Nat
  BY DEF RecyclerInv, RecyclerTypes, IsPartialFunction, Recycler
<1>1. c \in CollectionOf(Keys) /\ m \in Nat /\ RemovedUpTo(c, m) /\ CanOnboard(c, k)
  BY <1>0, RecyclerFacts
<1>2. recyclers' = [recyclers EXCEPT ![v] = d]
  OBVIOUS
<1> HIDE DEF c, m
<1>3. /\ d \in CollectionOf(Keys) /\ RemovedUpTo(d, m)
      /\ \A x : HoldsKey(d, x) <=> HoldsKey(c, x)
      /\ d.waiting = c.waiting \ {k} /\ k \in c.waiting
      /\ \A i \in Nat : RingKeys(d, i) = IF i = Len(c.rings) THEN RingKeys(c, i) \cup {k}
                                         ELSE RingKeys(c, i)
      /\ Len(c.rings) \in 1..MaxRings /\ m < Len(c.rings)
  BY <1>0, <1>1, RecyclerOnboarded
<1> HIDE DEF d
<1>4. /\ Recycler(v)' = d /\ IsPartialFunction(recyclers', Values, CollectionOf(Keys))
      /\ \A w \in Values : w # v => Recycler(w)' = Recycler(w)
  BY <1>2, <1>3, RecyclerChanged
<1>5. RingsRemovedInOrder'
  BY <1>3, <1>4 DEF RingsRemovedInOrder, RecyclerInv, m
<1>6. KeysRegistered'
  BY <1>0, <1>3, <1>4 DEF KeysRegistered, RecyclerInv
<1> QED BY <1>0, <1>3, <1>4, <1>5, <1>6 DEF m

\* Deleting pages changes neither queue nor rings.
LEMMA PagesKeep ==
  ASSUME RecyclerInv, NEW v \in DOMAIN recyclers, NEW page,
         recyclers' = [recyclers EXCEPT ![v] = delete_ring_page(@, page)],
         UNCHANGED <<lastRemoved, coinToRecycler>>
  PROVE  /\ IsPartialFunction(recyclers', Values, CollectionOf(Keys))
         /\ RingsRemovedInOrder' /\ KeysRegistered'
         /\ \A w \in Values :
              /\ Recycler(w)'.waiting = Recycler(w).waiting
              /\ \A i : RingKeys(Recycler(w)', i) = RingKeys(Recycler(w), i)
<1> DEFINE c == recyclers[v]
           d == delete_ring_page(c, page)
           m == lastRemoved[v]
<1>0. v \in Values /\ Recycler(v) = c
  BY DEF RecyclerInv, RecyclerTypes, IsPartialFunction, Recycler
<1>1. c \in CollectionOf(Keys) /\ m \in Nat /\ RemovedUpTo(c, m)
  BY <1>0, RecyclerFacts
<1>2. recyclers' = [recyclers EXCEPT ![v] = d]
  OBVIOUS
<1> HIDE DEF c, m
<1>3. /\ d \in CollectionOf(Keys) /\ RemovedUpTo(d, m)
      /\ \A x : HoldsKey(d, x) <=> HoldsKey(c, x)
      /\ d.waiting = c.waiting /\ \A i : RingKeys(d, i) = RingKeys(c, i)
  BY <1>1, RecyclerPages
<1> HIDE DEF d
<1>4. /\ Recycler(v)' = d /\ IsPartialFunction(recyclers', Values, CollectionOf(Keys))
      /\ \A w \in Values : w # v => Recycler(w)' = Recycler(w)
  BY <1>2, <1>3, RecyclerChanged
<1>5. RingsRemovedInOrder'
  BY <1>3, <1>4 DEF RingsRemovedInOrder, RecyclerInv, m
<1>6. KeysRegistered'
  BY <1>0, <1>3, <1>4 DEF KeysRegistered, RecyclerInv
<1> QED BY <1>0, <1>3, <1>4, <1>5, <1>6

\* Cleaning removes the next ring and unregisters its keys.
LEMMA CleanKeeps ==
  ASSUME RecyclerInv, NEW v \in Values, clean_recycler(v)
  PROVE  /\ IsPartialFunction(recyclers', Values, CollectionOf(Keys))
         /\ IsPartialFunction(coinToRecycler', Keys, Values)
         /\ lastRemoved' \in [Values -> Nat]
         /\ RingsRemovedInOrder' /\ KeysRegistered'
         /\ \A w \in Values : w # v => Recycler(w)' = Recycler(w)
         /\ Recycler(v)'.waiting = Recycler(v).waiting
         /\ \A i : RingKeys(Recycler(v)', i)
                     = IF i = lastRemoved[v] + 1 THEN {} ELSE RingKeys(Recycler(v), i)
         /\ Recycler(v) = recyclers[v] /\ lastRemoved[v] + 1 \in 1..MaxRings
<1> DEFINE c == recyclers[v]
           m == lastRemoved[v]
           d == remove_ring(c, m + 1)
<1>0. v \in DOMAIN recyclers /\ Recycler(v) = c
  BY DEF clean_recycler, Recycler
<1>1. c \in CollectionOf(Keys) /\ m \in Nat /\ RemovedUpTo(c, m)
  BY <1>0, RecyclerFacts
<1>2. /\ recyclers' = [recyclers EXCEPT ![v] = d]
      /\ m + 1 \in DOMAIN c.rings /\ c.rings[m + 1].immutable_since # NoTime
      /\ coinToRecycler' = WithoutAll(coinToRecycler, RingKeys(c, m + 1))
      /\ lastRemoved' = [lastRemoved EXCEPT ![v] = m + 1]
  BY DEF clean_recycler, Expired
<1> HIDE DEF c, m
<1>3. /\ d \in CollectionOf(Keys) /\ RemovedUpTo(d, m + 1)
      /\ \A k : HoldsKey(d, k) <=> HoldsKey(c, k) /\ k \notin RingKeys(c, m + 1)
      /\ d.waiting = c.waiting
      /\ \A i : RingKeys(d, i) = IF i = m + 1 THEN {} ELSE RingKeys(c, i)
      /\ m + 1 \in 1..MaxRings
  BY <1>1, <1>2, RecyclerRemoved
<1> HIDE DEF d
<1>4. /\ Recycler(v)' = d /\ IsPartialFunction(recyclers', Values, CollectionOf(Keys))
      /\ \A w \in Values : w # v => Recycler(w)' = Recycler(w)
  BY <1>0, <1>2, <1>3, RecyclerChanged
<1>5. lastRemoved' \in [Values -> Nat] /\ lastRemoved'[v] = m + 1
      /\ \A w \in Values : w # v => lastRemoved'[w] = lastRemoved[w]
  <2>1. m + 1 \in Nat /\ lastRemoved \in [Values -> Nat]
    BY <1>1 DEF RecyclerInv, RecyclerTypes
  <2> QED BY <1>2, <2>1
<1>6. IsPartialFunction(coinToRecycler', Keys, Values)
  BY <1>2, WithoutAllType DEF RecyclerInv, RecyclerTypes
<1>7. RingsRemovedInOrder'
  BY <1>3, <1>4, <1>5 DEF RingsRemovedInOrder, RecyclerInv
<1>8. \A w \in Values : \A k \in Keys :
        HoldsKey(Recycler(w), k) <=> k \in DOMAIN coinToRecycler /\ coinToRecycler[k] = w
  BY DEF RecyclerInv, KeysRegistered
<1>9. \A k \in RingKeys(c, m + 1) : HoldsKey(c, k)
  BY <1>1 DEF HoldsKey
<1>10. KeysRegistered'
  <2>1. DOMAIN coinToRecycler' = DOMAIN coinToRecycler \ RingKeys(c, m + 1)
        /\ \A k \in DOMAIN coinToRecycler' : coinToRecycler'[k] = coinToRecycler[k]
    BY <1>2 DEF WithoutAll
  <2>2. ASSUME NEW k \in Keys
        PROVE  HoldsKey(d, k) <=> k \in DOMAIN coinToRecycler' /\ coinToRecycler'[k] = v
    BY <1>0, <1>3, <1>8, <2>1
  <2>3. ASSUME NEW w \in Values, w # v, NEW k \in Keys
        PROVE  HoldsKey(Recycler(w), k) <=> k \in DOMAIN coinToRecycler' /\ coinToRecycler'[k] = w
    <3>1. k \in RingKeys(c, m + 1) => coinToRecycler[k] = v
      BY <1>0, <1>8, <1>9
    <3> QED BY <1>8, <2>1, <2>3, <3>1
  <2> QED BY <1>4, <2>2, <2>3 DEF KeysRegistered
<1>11. /\ Recycler(v)'.waiting = Recycler(v).waiting /\ m + 1 \in 1..MaxRings
       /\ \A i : RingKeys(Recycler(v)', i) = IF i = m + 1 THEN {} ELSE RingKeys(Recycler(v), i)
  BY <1>0, <1>3, <1>4
<1>12. Recycler(v) = recyclers[v] /\ m = lastRemoved[v]
  BY <1>0 DEF m, c
<1>13. lastRemoved' \in [Values -> Nat]
  BY <1>5
<1> QED BY <1>4, <1>6, <1>7, <1>10, <1>11, <1>12, <1>13, Zenon

\* Keys in rings.
RingVouchers ==
  {x \in Values \X (1..MaxRings) \X Keys : x[3] \in RingKeys(Recycler(x[1]), x[2])}

\* The vouchers of a call are keys in rings.
LEMMA VoucherFacts ==
  ASSUME RecyclerInv, NEW v \in Values, NEW i \in 1..MaxRings
  PROVE  Vouchers(v, i) \in SUBSET RingVouchers /\ \A x \in Vouchers(v, i) : x[1] = v
<1> SUFFICES ASSUME NEW x \in Vouchers(v, i) PROVE x \in RingVouchers /\ x[1] = v
  OBVIOUS
<1>1. /\ v \in DOMAIN recyclers /\ x \in {<<v, i, k>> : k \in RingKeys(recyclers[v], i)}
  BY DEF Vouchers, validate_recycler_revision
<1>2. PICK k \in RingKeys(recyclers[v], i) : x = <<v, i, k>>
  BY <1>1
<1>3. Recycler(v) = recyclers[v] /\ k \in Keys
  <2>1. Recycler(v) = recyclers[v] /\ Recycler(v) \in CollectionOf(Keys)
    BY <1>1, RecyclerFacts DEF Recycler
  <2>2. RingKeys(Recycler(v), i) \in SUBSET Keys
    BY <2>1, RingFacts
  <2> QED BY <2>1, <2>2
<1> QED BY <1>2, <1>3 DEF RingVouchers

\* What happens to recyclers in a step of the worker or of maintenance.
Upkeep ==
  \/ do_initialize
  \/ \E v \in Values : clean_recycler(v)
  \/ \E ring \in dusting, batch \in SUBSET unloaded : clean_recycler_dust(ring, batch)
  \/ \E v \in DOMAIN recyclers : MembersWork(v)

\* What a call does to recyclers: nothing, or load keys and unload vouchers.
CallsRecyclers ==
  /\ UNCHANGED <<lastRemoved, dusting>>
  /\ \/ UNCHANGED <<recyclers, coinToRecycler>>
     \/ \E new : IsPartialFunction(new, Keys, Values) /\ load(new)
  /\ \/ UNCHANGED unloaded
     \/ \E A \in SUBSET RingVouchers : unload(A)

\* Every key-value map a call loads has keys and values.
LEMMA NewVouchersType ==
  /\ \A new \in NewVouchers : IsPartialFunction(new, Keys, Values)
  /\ \A k \in Keys, v \in Values : IsPartialFunction(Insert(<<>>, k, v), Keys, Values)
<1>1. ASSUME NEW new \in NewVouchers PROVE IsPartialFunction(new, Keys, Values)
  <2>1. PICK S \in SUBSET (Keys \ DOMAIN coinToRecycler) : new \in [S -> Values]
    BY DEF NewVouchers
  <2> QED BY <2>1 DEF IsPartialFunction
<1>2. ASSUME NEW k \in Keys, NEW v \in Values
      PROVE  IsPartialFunction(Insert(<<>>, k, v), Keys, Values)
  <2>1. IsPartialFunction(<<>>, Keys, Values)
    BY EmptyMapType
  <2> QED BY <2>1, InsertType
<1> QED BY <1>1, <1>2

\* The calls of coin holders.
LEMMA CoinCalls == RecyclerInv /\ CoinNext => CallsRecyclers
<1> SUFFICES ASSUME RecyclerInv, NEW a \in Accounts,
                    \/ \E out \in Outputs : split(a, out)
                    \/ \E b \in Accounts : transfer(a, b)
                    \/ \E k \in Keys : load_recycler_with_coin(a, k)
                    \/ \E ok \in BOOLEAN : direct_offboard_coin_into_external_asset(a, ok)
                    \/ \E k \in PaidKeys, fee \in Fees, ok \in BOOLEAN :
                         pay_for_recycler_unload_fee_token_with_coin(a, k, fee, ok)
             PROVE  CallsRecyclers
  BY DEF CoinNext
<1>1. ASSUME UNCHANGED ringVars PROVE CallsRecyclers
  BY <1>1 DEF ringVars, CallsRecyclers
<1>2. ASSUME DispatchFailed(a) PROVE CallsRecyclers
  BY <1>1, <1>2 DEF DispatchFailed
<1>3. ASSUME NEW out, split(a, out) PROVE CallsRecyclers
  BY <1>1, <1>3 DEF split
<1>4. ASSUME NEW b, transfer(a, b) PROVE CallsRecyclers
  BY <1>1, <1>4 DEF transfer
<1>5. ASSUME NEW k \in Keys, load_recycler_with_coin(a, k) PROVE CallsRecyclers
  <2> DEFINE new == Insert(<<>>, k, coins[a].value)
  <2>1. coins[a].value \in Values
    BY <1>5 DEF load_recycler_with_coin, CanUseCoin, RecyclerInv, RecyclerTypes,
                IsPartialFunction, Coin
  <2>2. IsPartialFunction(new, Keys, Values)
    BY <2>1, NewVouchersType
  <2>3. \/ load(new) /\ UNCHANGED <<lastRemoved, unloaded, dusting>>
        \/ DispatchFailed(a)
    BY <1>5 DEF load_recycler_with_coin
  <2> HIDE DEF new
  <2> QED BY <1>2, <2>2, <2>3 DEF CallsRecyclers
<1>6. ASSUME NEW ok, direct_offboard_coin_into_external_asset(a, ok) PROVE CallsRecyclers
  BY <1>1, <1>2, <1>6 DEF direct_offboard_coin_into_external_asset
<1>7. ASSUME NEW k, NEW fee, NEW ok, pay_for_recycler_unload_fee_token_with_coin(a, k, fee, ok)
      PROVE  CallsRecyclers
  BY <1>1, <1>2, <1>7 DEF pay_for_recycler_unload_fee_token_with_coin
<1> QED BY <1>3, <1>4, <1>5, <1>6, <1>7

\* The calls of signed accounts.
LEMMA SignedCalls == RecyclerInv /\ SignedNext => CallsRecyclers
<1> SUFFICES ASSUME RecyclerInv, SignedNext PROVE CallsRecyclers
  OBVIOUS
<1>1. ASSUME NEW k, pay_for_recycler_unload_fee_token(k) PROVE CallsRecyclers
  BY <1>1 DEF pay_for_recycler_unload_fee_token, ringVars, CallsRecyclers
<1>2. ASSUME NEW k \in Keys, NEW v \in Values, load_recycler_with_external_asset(k, v)
      PROVE  CallsRecyclers
  <2>1. load(Insert(<<>>, k, v)) /\ UNCHANGED <<lastRemoved, unloaded, dusting>>
    BY <1>2 DEF load_recycler_with_external_asset
  <2> QED BY <2>1, NewVouchersType DEF CallsRecyclers
<1>3. ASSUME NEW new \in NewVouchers, load_recycler_with_external_asset_unpaid(new)
      PROVE  CallsRecyclers
  <2>1. load(new) /\ UNCHANGED <<lastRemoved, unloaded, dusting>>
    BY <1>3 DEF load_recycler_with_external_asset_unpaid
  <2> QED BY <2>1, NewVouchersType DEF CallsRecyclers
<1>4. ASSUME NEW A \in SUBSET UNION {Vouchers(v, i) : v \in Values, i \in 1..MaxRings},
             unload_recyclers_into_external_asset_non_anonymous(A)
      PROVE  CallsRecyclers
  <2>1. A \in SUBSET RingVouchers
    BY VoucherFacts
  <2>2. unload(A) /\ UNCHANGED <<recyclers, lastRemoved, coinToRecycler, dusting>>
    BY <1>4 DEF unload_recyclers_into_external_asset_non_anonymous
  <2> QED BY <2>1, <2>2 DEF CallsRecyclers
<1> QED BY <1>1, <1>2, <1>3, <1>4 DEF SignedNext

\* The anonymous calls.
LEMMA AnonymousCalls == RecyclerInv /\ AnonymousNext => CallsRecyclers
<1> SUFFICES ASSUME RecyclerInv, NEW v \in Values, NEW i \in 1..MaxRings,
                    NEW A \in SUBSET Vouchers(v, i),
                    \/ \E a \in Accounts : unload_recycler_into_coin(A, v, a)
                    \/ \E out \in Outputs, fee \in Fees : unload_recycler_into_coins(A, out, fee)
                    \/ \E fee \in Fees : unload_recycler_into_external_asset(A, fee)
                    \/ \E new \in NewVouchers, fee \in Fees :
                         unload_recycler_into_external_asset_and_vouchers(A, new, fee)
                    \/ PrepaidUnloadFails(A)
                    \/ \E x \in A : FromOutputUnloadFails(x)
             PROVE  CallsRecyclers
  BY DEF AnonymousNext
<1>0. A \in SUBSET RingVouchers
  BY VoucherFacts
<1>1. ASSUME unload(A), UNCHANGED <<recyclers, lastRemoved, coinToRecycler, dusting>>
      PROVE  CallsRecyclers
  BY <1>0, <1>1 DEF CallsRecyclers
<1>2. ASSUME NEW a, unload_recycler_into_coin(A, v, a) PROVE CallsRecyclers
  BY <1>1, <1>2 DEF unload_recycler_into_coin
<1>3. ASSUME NEW out, NEW fee, unload_recycler_into_coins(A, out, fee) PROVE CallsRecyclers
  BY <1>1, <1>3 DEF unload_recycler_into_coins
<1>4. ASSUME NEW fee, unload_recycler_into_external_asset(A, fee) PROVE CallsRecyclers
  BY <1>1, <1>4 DEF unload_recycler_into_external_asset
<1>5. ASSUME NEW new \in NewVouchers, NEW fee,
             unload_recycler_into_external_asset_and_vouchers(A, new, fee)
      PROVE  CallsRecyclers
  <2>1. unload(A) /\ load(new) /\ UNCHANGED <<lastRemoved, dusting>>
    BY <1>5 DEF unload_recycler_into_external_asset_and_vouchers
  <2> QED BY <1>0, <2>1, NewVouchersType DEF CallsRecyclers
<1>6. ASSUME PrepaidUnloadFails(A) PROVE CallsRecyclers
  BY <1>6 DEF PrepaidUnloadFails, ringVars, CallsRecyclers
<1>7. ASSUME NEW x \in A, FromOutputUnloadFails(x) PROVE CallsRecyclers
  <2>1. {x} \in SUBSET RingVouchers
    BY <1>0
  <2>2. unload({x}) /\ UNCHANGED <<recyclers, lastRemoved, coinToRecycler, dusting>>
    BY <1>7 DEF FromOutputUnloadFails
  <2> QED BY <2>1, <2>2 DEF CallsRecyclers
<1> QED BY <1>2, <1>3, <1>4, <1>5, <1>6, <1>7

\* Maintenance.
LEMMA MaintenanceCalls == MaintenanceNext => CallsRecyclers \/ Upkeep
<1>1. set_underlying_asset_id => CallsRecyclers
  BY DEF set_underlying_asset_id, ringVars, CallsRecyclers
<1>2. UNCHANGED ringVars => CallsRecyclers
  BY DEF ringVars, CallsRecyclers
<1> QED BY <1>1, <1>2 DEF MaintenanceNext, Upkeep

\* Aliases stay explained while rings keep their keys.
LEMMA AliasesFollow ==
  ASSUME RecyclerInv, UNCHANGED <<lastRemoved, dusting>>,
         \A v \in Values : \A i \in Nat : RingKeys(Recycler(v), i) \subseteq RingKeys(Recycler(v)', i),
         UNCHANGED unloaded \/ \E A \in SUBSET RingVouchers : unload(A)
  PROVE  AliasesKept' /\ unloaded' \subseteq Values \X Nat \X Keys
<1>1. PICK A \in SUBSET RingVouchers : unloaded' = unloaded \cup A
  <2>1. CASE UNCHANGED unloaded
    <3>1. {} \in SUBSET RingVouchers /\ unloaded' = unloaded \cup {}
      BY <2>1
    <3> QED BY <3>1
  <2>2. ASSUME NEW A \in SUBSET RingVouchers, unload(A)
        PROVE  \E B \in SUBSET RingVouchers : unloaded' = unloaded \cup B
    BY <2>2 DEF unload
  <2> QED BY <2>1, <2>2
<1>2. MaxRings \in Nat
  BY CollectionAssumption
<1>3. RingVouchers \subseteq Values \X Nat \X Keys
  BY <1>2 DEF RingVouchers
<1>4. ASSUME NEW x \in unloaded'
      PROVE  x[3] \in RingKeys(Recycler(x[1])', x[2]) \/ <<x[1], x[2]>> \in dusting
  <2>1. x \in Values \X Nat \X Keys
    BY <1>1, <1>3, <1>4 DEF RecyclerInv, RecyclerTypes
  <2>2. x[3] \in RingKeys(Recycler(x[1]), x[2]) \/ <<x[1], x[2]>> \in dusting
    BY <1>1, <1>4 DEF RecyclerInv, AliasesKept, RingVouchers
  <2>3. x[1] \in Values /\ x[2] \in Nat
    BY <2>1
  <2> QED BY <2>2, <2>3
<1>5. unloaded' \subseteq Values \X Nat \X Keys
  BY <1>1, <1>3 DEF RecyclerInv, RecyclerTypes
<1> QED BY <1>4, <1>5 DEF AliasesKept, RecyclerInv

\* Calls keep the invariant.
LEMMA CallsKeep ==
  ASSUME RecyclerInv, CallsRecyclers, now' \in Nat, IsPartialFunction(coins', Accounts, Coin)
  PROVE  RecyclerInv'
<1>1. /\ UNCHANGED <<lastRemoved, dusting>>
      /\ UNCHANGED unloaded \/ \E A \in SUBSET RingVouchers : unload(A)
  BY DEF CallsRecyclers
<1>2. /\ IsPartialFunction(recyclers', Values, CollectionOf(Keys))
      /\ IsPartialFunction(coinToRecycler', Keys, Values)
      /\ RingsRemovedInOrder' /\ KeysRegistered'
      /\ \A v \in Values : \A i : RingKeys(Recycler(v)', i) = RingKeys(Recycler(v), i)
  <2>1. CASE UNCHANGED <<recyclers, coinToRecycler>>
    <3>1. \A v : Recycler(v)' = Recycler(v)
      BY <2>1 DEF Recycler
    <3> QED BY <1>1, <2>1, <3>1
            DEF RecyclerInv, RecyclerTypes, RingsRemovedInOrder, KeysRegistered
  <2>2. ASSUME NEW new, IsPartialFunction(new, Keys, Values), load(new)
        PROVE  /\ IsPartialFunction(recyclers', Values, CollectionOf(Keys))
               /\ IsPartialFunction(coinToRecycler', Keys, Values)
               /\ RingsRemovedInOrder' /\ KeysRegistered'
               /\ \A v \in Values : \A i : RingKeys(Recycler(v)', i) = RingKeys(Recycler(v), i)
    BY <1>1, <2>2, LoadKeeps
  <2> QED BY <2>1, <2>2 DEF CallsRecyclers
<1>3. AliasesKept' /\ unloaded' \subseteq Values \X Nat \X Keys
  <2>1. \A v \in Values : \A i \in Nat : RingKeys(Recycler(v), i) \subseteq RingKeys(Recycler(v)', i)
    BY <1>2
  <2> QED BY <1>1, <2>1, AliasesFollow
<1>4. lastRemoved' \in [Values -> Nat] /\ dusting' \subseteq Values \X Nat
  BY <1>1 DEF RecyclerInv, RecyclerTypes
<1> QED BY <1>2, <1>3, <1>4 DEF RecyclerInv, RecyclerTypes

\* So does the worker.
LEMMA UpkeepKeeps ==
  ASSUME RecyclerInv, Upkeep
  PROVE  RecyclerInv'
<1>1. CASE do_initialize
  <2>1. /\ recyclers' = WithRecyclers(Values)
        /\ UNCHANGED <<now, coins, lastRemoved, coinToRecycler, unloaded, dusting>>
    BY <1>1 DEF do_initialize, tokenVars, coinVars
  <2>2. DOMAIN recyclers \subseteq Values
    BY DEF RecyclerInv, RecyclerTypes, IsPartialFunction
  <2>3. /\ IsPartialFunction(recyclers', Values, CollectionOf(Keys))
        /\ DOMAIN recyclers' = Values /\ \A v \in Values : recyclers'[v] = Recycler(v)
    BY <2>1, <2>2, WithRecyclersFacts
  <2>4. \A v \in Values : Recycler(v)' = Recycler(v)
    BY <2>3 DEF Recycler
  <2>5. RingsRemovedInOrder' /\ KeysRegistered'
    BY <2>1, <2>4 DEF RecyclerInv, RingsRemovedInOrder, KeysRegistered
  <2>6. AliasesKept'
    BY <2>1, <2>4, AliasesFollow
  <2> QED BY <2>1, <2>3, <2>5, <2>6 DEF RecyclerInv, RecyclerTypes
<1>2. ASSUME NEW v \in Values, clean_recycler(v) PROVE RecyclerInv'
  <2>1. /\ IsPartialFunction(recyclers', Values, CollectionOf(Keys))
        /\ IsPartialFunction(coinToRecycler', Keys, Values)
        /\ lastRemoved' \in [Values -> Nat]
        /\ RingsRemovedInOrder' /\ KeysRegistered'
        /\ \A w \in Values : w # v => Recycler(w)' = Recycler(w)
        /\ \A i : RingKeys(Recycler(v)', i)
                    = IF i = lastRemoved[v] + 1 THEN {} ELSE RingKeys(Recycler(v), i)
    BY <1>2, CleanKeeps
  <2>2. /\ dusting' = Dusted(v, lastRemoved[v] + 1)
        /\ lastRemoved' = [lastRemoved EXCEPT ![v] = lastRemoved[v] + 1]
        /\ UNCHANGED <<now, coins, unloaded>>
    BY <1>2 DEF clean_recycler, tokenVars, coinVars
  <2>3. PICK m \in Nat : m = lastRemoved[v]
    BY DEF RecyclerInv, RecyclerTypes
  <2>4. /\ dusting' \subseteq dusting \cup {<<v, m + 1>>}
        /\ dusting \subseteq dusting'
        /\ \A x \in unloaded : x[1] = v /\ x[2] = m + 1 => <<v, m + 1>> \in dusting'
    BY <2>2, <2>3 DEF Dusted
  <2>5. dusting' \subseteq Values \X Nat /\ dusting \subseteq Values \X Nat
    BY <2>3, <2>4 DEF RecyclerInv, RecyclerTypes
  <2>6. ASSUME NEW x \in unloaded
        PROVE  x[3] \in RingKeys(Recycler(x[1])', x[2]) \/ <<x[1], x[2]>> \in dusting'
    <3>1. x \in Values \X Nat \X Keys
      BY <2>6 DEF RecyclerInv, RecyclerTypes
    <3>2. x[3] \in RingKeys(Recycler(x[1]), x[2]) \/ <<x[1], x[2]>> \in dusting
      BY <2>6 DEF RecyclerInv, AliasesKept
    <3>3. CASE x[1] = v /\ x[2] = m + 1
      BY <2>4, <2>6, <3>3
    <3>4. CASE ~(x[1] = v /\ x[2] = m + 1)
      <4>1. x[3] \in RingKeys(Recycler(x[1]), x[2]) => x[3] \in RingKeys(Recycler(x[1])', x[2])
        BY <2>1, <2>3, <3>1, <3>4
      <4> QED BY <2>4, <3>2, <4>1
    <3> QED BY <3>3, <3>4
  <2>7. ASSUME NEW ring \in dusting' PROVE ring[2] <= lastRemoved'[ring[1]]
    <3>0. lastRemoved \in [Values -> Nat]
      BY DEF RecyclerInv, RecyclerTypes
    <3>1. lastRemoved'[v] = m + 1 /\ \A w \in Values : w # v => lastRemoved'[w] = lastRemoved[w]
      BY <2>2, <2>3, <3>0
    <3>2. CASE ring = <<v, m + 1>>
      BY <3>1, <3>2
    <3>3. CASE ring \in dusting
      <4>1. ring[1] \in Values /\ ring[2] \in Nat /\ ring[2] <= lastRemoved[ring[1]]
        BY <2>5, <3>3 DEF RecyclerInv, AliasesKept
      <4>2. CASE ring[1] = v
        <5>1. ring[2] <= m + 1
          BY <2>3, <4>1, <4>2
        <5> QED BY <3>1, <4>2, <5>1
      <4>3. CASE ring[1] # v
        BY <3>1, <4>1, <4>3
      <4> QED BY <4>2, <4>3
    <3> QED BY <2>4, <3>2, <3>3
  <2>8. AliasesKept'
    BY <2>2, <2>6, <2>7 DEF AliasesKept
  <2> QED BY <2>1, <2>2, <2>5, <2>8 DEF RecyclerInv, RecyclerTypes
<1>3. ASSUME NEW ring \in dusting, NEW batch \in SUBSET unloaded,
             clean_recycler_dust(ring, batch)
      PROVE  RecyclerInv'
  <2>1. /\ batch \subseteq {x \in unloaded : <<x[1], x[2]>> = ring}
        /\ unloaded' = unloaded \ batch
        /\ dusting' = IF batch = {x \in unloaded : <<x[1], x[2]>> = ring}
                      THEN dusting \ {ring} ELSE dusting
        /\ UNCHANGED <<now, coins, recyclers, lastRemoved, coinToRecycler>>
    BY <1>3 DEF clean_recycler_dust, BatchOf, tokenVars, coinVars
  <2>2. \A v : Recycler(v)' = Recycler(v)
    BY <2>1 DEF Recycler
  <2>3. RingsRemovedInOrder' /\ KeysRegistered'
    BY <2>1, <2>2 DEF RecyclerInv, RingsRemovedInOrder, KeysRegistered
  <2>4. AliasesKept'
    BY <2>1, <2>2 DEF RecyclerInv, AliasesKept
  <2> QED BY <2>1, <2>3, <2>4 DEF RecyclerInv, RecyclerTypes
<1>4. ASSUME NEW v \in DOMAIN recyclers, MembersWork(v) PROVE RecyclerInv'
  <2>1. UNCHANGED <<now, coins, lastRemoved, coinToRecycler, unloaded, dusting>>
    BY <1>4 DEF MembersWork, tokenVars, coinVars
  <2>2. SUFFICES /\ IsPartialFunction(recyclers', Values, CollectionOf(Keys))
                 /\ RingsRemovedInOrder' /\ KeysRegistered'
                 /\ \A w \in Values : \A i \in Nat :
                      RingKeys(Recycler(w), i) \subseteq RingKeys(Recycler(w)', i)
    BY <2>1, AliasesFollow DEF RecyclerInv, RecyclerTypes
  <2>3. ASSUME NEW k \in Keys, CanOnboard(recyclers[v], k),
               recyclers' = [recyclers EXCEPT ![v] = Onboarded(@, k, now)]
        PROVE  /\ IsPartialFunction(recyclers', Values, CollectionOf(Keys))
               /\ RingsRemovedInOrder' /\ KeysRegistered'
               /\ \A w \in Values : \A i \in Nat :
                    RingKeys(Recycler(w), i) \subseteq RingKeys(Recycler(w)', i)
    <3>1. /\ IsPartialFunction(recyclers', Values, CollectionOf(Keys))
          /\ RingsRemovedInOrder' /\ KeysRegistered'
          /\ \A w \in Values : w # v => Recycler(w)' = Recycler(w)
      BY <2>1, <2>3, OnboardKeeps
    <3>2. \E n \in 1..MaxRings : \A i \in Nat : RingKeys(Recycler(v)', i)
            = IF i = n THEN RingKeys(Recycler(v), i) \cup {k} ELSE RingKeys(Recycler(v), i)
      BY <2>1, <2>3, OnboardKeeps
    <3>3. \A i \in Nat : RingKeys(Recycler(v), i) \subseteq RingKeys(Recycler(v)', i)
      BY <3>2
    <3> QED BY <3>1, <3>3
  <2>4. ASSUME NEW page, recyclers' = [recyclers EXCEPT ![v] = delete_ring_page(@, page)]
        PROVE  /\ IsPartialFunction(recyclers', Values, CollectionOf(Keys))
               /\ RingsRemovedInOrder' /\ KeysRegistered'
               /\ \A w \in Values : \A i \in Nat :
                    RingKeys(Recycler(w), i) \subseteq RingKeys(Recycler(w)', i)
    <3>1. /\ IsPartialFunction(recyclers', Values, CollectionOf(Keys))
          /\ RingsRemovedInOrder' /\ KeysRegistered'
          /\ \A w \in Values : \A i : RingKeys(Recycler(w)', i) = RingKeys(Recycler(w), i)
      BY <2>1, <2>4, PagesKeep
    <3> QED BY <3>1
  <2> QED BY <1>4, <2>3, <2>4 DEF MembersWork
<1> QED BY <1>1, <1>2, <1>3, <1>4 DEF Upkeep

\* Accounts that get coins hold one each.
LEMMA WithCoinsType ==
  ASSUME NEW base, IsPartialFunction(base, Accounts, Coin),
         NEW out, IsPartialFunction(out, Accounts, Values), NEW age \in Nat
  PROVE  IsPartialFunction(WithCoins(base, out, age), Accounts, Coin)
BY DEF WithCoins, IsPartialFunction, Coin

\* What a call makes coins of are accounts without a coin.
LEMMA OutputsType ==
  /\ \A out \in Outputs : IsPartialFunction(out, Accounts, Values) /\ DOMAIN out \cap DOMAIN coins = {}
  /\ \A a \in Accounts, v \in Values : IsPartialFunction(Insert(<<>>, a, v), Accounts, Values)
<1>1. ASSUME NEW out \in Outputs
      PROVE  IsPartialFunction(out, Accounts, Values) /\ DOMAIN out \cap DOMAIN coins = {}
  <2>1. PICK D \in SUBSET (Accounts \ DOMAIN coins) : out \in [D -> Values]
    BY DEF Outputs
  <2> QED BY <2>1 DEF IsPartialFunction
<1>2. ASSUME NEW a \in Accounts, NEW v \in Values
      PROVE  IsPartialFunction(Insert(<<>>, a, v), Accounts, Values)
  <2>1. IsPartialFunction(<<>>, Accounts, Values)
    BY EmptyMapType
  <2> QED BY <2>1, InsertType
<1> QED BY <1>1, <1>2

\* Every step keeps coins well formed.
LEMMA CoinsStep == RecyclerInv /\ [Next]_vars => IsPartialFunction(coins', Accounts, Coin)
<1> SUFFICES ASSUME RecyclerInv, [Next]_vars PROVE IsPartialFunction(coins', Accounts, Coin)
  OBVIOUS
<1>0. IsPartialFunction(coins, Accounts, Coin)
  BY DEF RecyclerInv, RecyclerTypes
<1>1. ASSUME UNCHANGED coins PROVE IsPartialFunction(coins', Accounts, Coin)
  BY <1>0, <1>1
<1>2. \A a : IsPartialFunction(Without(coins, a), Accounts, Coin)
  BY <1>0, WithoutType
<1>3. ASSUME NEW a \in DOMAIN coins
      PROVE  a \in Accounts /\ coins[a].value \in Values /\ coins[a].age + 1 \in Nat
  BY <1>0 DEF IsPartialFunction, Coin
<1>4. ASSUME NEW a, NEW out \in Outputs, split(a, out)
      PROVE  IsPartialFunction(coins', Accounts, Coin)
  <2>1. /\ a \in DOMAIN coins
        /\ coins' = WithCoins(Without(coins, a), out, coins[a].age + 1)
    BY <1>4 DEF split, CanUseCoin
  <2> QED BY <1>2, <1>3, <2>1, OutputsType, WithCoinsType
<1>5. ASSUME NEW a, NEW b \in Accounts, transfer(a, b)
      PROVE  IsPartialFunction(coins', Accounts, Coin)
  <2>1. /\ a \in DOMAIN coins
        /\ coins' = WithCoins(Without(coins, a), Insert(<<>>, b, coins[a].value), coins[a].age + 1)
    BY <1>5 DEF transfer, CanUseCoin
  <2> QED BY <1>2, <1>3, <2>1, OutputsType, WithCoinsType
<1>6. ASSUME NEW a, CoinSpent(a) \/ DispatchFailed(a)
      PROVE  IsPartialFunction(coins', Accounts, Coin)
  BY <1>1, <1>2, <1>6 DEF CoinSpent, DispatchFailed
<1>7. CASE CoinNext
  <2>1. \A a, k : load_recycler_with_coin(a, k) => CoinSpent(a) \/ DispatchFailed(a)
    BY DEF load_recycler_with_coin
  <2>2. \A a, ok : direct_offboard_coin_into_external_asset(a, ok)
                     => CoinSpent(a) \/ DispatchFailed(a)
    BY DEF direct_offboard_coin_into_external_asset
  <2>3. \A a, k, fee, ok : pay_for_recycler_unload_fee_token_with_coin(a, k, fee, ok)
                             => CoinSpent(a) \/ DispatchFailed(a)
    BY DEF pay_for_recycler_unload_fee_token_with_coin
  <2> QED BY <1>4, <1>5, <1>6, <1>7, <2>1, <2>2, <2>3 DEF CoinNext
<1>8. CASE SignedNext
  <2>1. \A k : pay_for_recycler_unload_fee_token(k) => UNCHANGED coins
    BY DEF pay_for_recycler_unload_fee_token, coinVars
  <2>2. \A k, v : load_recycler_with_external_asset(k, v) => UNCHANGED coins
    BY DEF load_recycler_with_external_asset, coinVars
  <2>3. \A new : load_recycler_with_external_asset_unpaid(new) => UNCHANGED coins
    BY DEF load_recycler_with_external_asset_unpaid, coinVars
  <2>4. \A A : unload_recyclers_into_external_asset_non_anonymous(A) => UNCHANGED coins
    BY DEF unload_recyclers_into_external_asset_non_anonymous, coinVars
  <2>5. UNCHANGED coins
    BY <1>8, <2>1, <2>2, <2>3, <2>4 DEF SignedNext
  <2> QED BY <1>1, <2>5
<1>9. CASE AnonymousNext
  <2>1. ASSUME NEW A, NEW v, NEW a \in Accounts, unload_recycler_into_coin(A, v, a)
        PROVE  IsPartialFunction(coins', Accounts, Coin)
    <3>1. PICK e : v + e \in Values /\ coins' = WithCoins(coins, Insert(<<>>, a, v + e), 0)
      BY <2>1 DEF unload_recycler_into_coin
    <3> QED BY <1>0, <3>1, OutputsType, WithCoinsType
  <2>2. ASSUME NEW A, NEW out \in Outputs, NEW fee, unload_recycler_into_coins(A, out, fee)
        PROVE  IsPartialFunction(coins', Accounts, Coin)
    <3>1. coins' = WithCoins(coins, out, 1)
      BY <2>2 DEF unload_recycler_into_coins
    <3> QED BY <1>0, <3>1, OutputsType, WithCoinsType
  <2>3. \A A, fee : unload_recycler_into_external_asset(A, fee) => UNCHANGED coins
    BY DEF unload_recycler_into_external_asset, coinVars
  <2>4. \A A, new, fee : unload_recycler_into_external_asset_and_vouchers(A, new, fee)
                           => UNCHANGED coins
    BY DEF unload_recycler_into_external_asset_and_vouchers, coinVars
  <2>5. \A A : PrepaidUnloadFails(A) => UNCHANGED coins
    BY DEF PrepaidUnloadFails, coinVars
  <2>6. \A x : FromOutputUnloadFails(x) => UNCHANGED coins
    BY DEF FromOutputUnloadFails, coinVars
  <2> QED BY <1>1, <1>9, <2>1, <2>2, <2>3, <2>4, <2>5, <2>6 DEF AnonymousNext
<1>10. CASE MaintenanceNext
  <2>1. set_underlying_asset_id \/ do_initialize => UNCHANGED coins
    BY DEF set_underlying_asset_id, do_initialize, coinVars
  <2>2. \A v : clean_recycler(v) \/ MembersWork(v) => UNCHANGED coins
    BY DEF clean_recycler, MembersWork, coinVars
  <2>3. \A ring, batch : clean_recycler_dust(ring, batch) => UNCHANGED coins
    BY DEF clean_recycler_dust, coinVars
  <2>4. UNCHANGED coins
    BY <1>10, <2>1, <2>2, <2>3 DEF MaintenanceNext, coinVars
  <2> QED BY <1>1, <2>4
<1>11. CASE UNCHANGED vars
  BY <1>1, <1>11 DEF vars, coinVars
<1> QED BY <1>7, <1>8, <1>9, <1>10, <1>11 DEF Next

\* As far as tokens are concerned, every step is one of UnloadTokens.
LEMMA TokenPart == [Next]_vars => [TokenNext]_tokenVars
<1> SUFFICES ASSUME [Next]_vars PROVE [TokenNext]_tokenVars
  OBVIOUS
<1>1. ASSUME NEW a, DispatchFailed(a) PROVE UNCHANGED tokenVars
  BY <1>1 DEF DispatchFailed
<1>2. CASE CoinNext
  <2>1. \A a, out : split(a, out) => UNCHANGED tokenVars
    BY DEF split
  <2>2. \A a, b : transfer(a, b) => UNCHANGED tokenVars
    BY DEF transfer
  <2>3. \A a, k : load_recycler_with_coin(a, k) => UNCHANGED tokenVars
    BY <1>1 DEF load_recycler_with_coin
  <2>4. \A a, ok : direct_offboard_coin_into_external_asset(a, ok) => UNCHANGED tokenVars
    BY <1>1 DEF direct_offboard_coin_into_external_asset
  <2>5. \A a, k, fee, ok : pay_for_recycler_unload_fee_token_with_coin(a, k, fee, ok)
                             => add_member(k) \/ UNCHANGED tokenVars
    BY <1>1 DEF pay_for_recycler_unload_fee_token_with_coin
  <2> QED BY <1>2, <2>1, <2>2, <2>3, <2>4, <2>5 DEF CoinNext, TokenNext
<1>3. CASE SignedNext
  <2>1. \A k : pay_for_recycler_unload_fee_token(k) => add_member(k)
    BY DEF pay_for_recycler_unload_fee_token
  <2>2. \A k, v : load_recycler_with_external_asset(k, v) => UNCHANGED tokenVars
    BY DEF load_recycler_with_external_asset
  <2>3. \A new : load_recycler_with_external_asset_unpaid(new) => UNCHANGED tokenVars
    BY DEF load_recycler_with_external_asset_unpaid
  <2>4. \A A : unload_recyclers_into_external_asset_non_anonymous(A) => UNCHANGED tokenVars
    BY DEF unload_recyclers_into_external_asset_non_anonymous
  <2> QED BY <1>3, <2>1, <2>2, <2>3, <2>4 DEF SignedNext, TokenNext
<1>4. CASE AnonymousNext
  <2>0. \A A : FromOutput(A) => UNCHANGED tokenVars
    BY DEF FromOutput
  <2>1. \A A, v, a : unload_recycler_into_coin(A, v, a) => SpendToken
    BY DEF unload_recycler_into_coin, Prepaid
  <2>2. \A A, out, fee : unload_recycler_into_coins(A, out, fee)
                           => SpendToken \/ UNCHANGED tokenVars
    BY <2>0 DEF unload_recycler_into_coins, Prepaid
  <2>3. \A A, fee : unload_recycler_into_external_asset(A, fee)
                      => SpendToken \/ UNCHANGED tokenVars
    BY <2>0 DEF unload_recycler_into_external_asset, Prepaid
  <2>4. \A A, new, fee : unload_recycler_into_external_asset_and_vouchers(A, new, fee)
                           => SpendToken \/ UNCHANGED tokenVars
    BY <2>0 DEF unload_recycler_into_external_asset_and_vouchers, Prepaid
  <2>5. \A A : PrepaidUnloadFails(A) => SpendToken
    BY DEF PrepaidUnloadFails, Prepaid
  <2>6. \A x : FromOutputUnloadFails(x) => UNCHANGED tokenVars
    BY <2>0 DEF FromOutputUnloadFails
  <2> QED BY <1>4, <2>1, <2>2, <2>3, <2>4, <2>5, <2>6 DEF AnonymousNext, TokenNext
<1>5. CASE MaintenanceNext
  <2>1. set_underlying_asset_id \/ do_initialize => UNCHANGED tokenVars
    BY DEF set_underlying_asset_id, do_initialize
  <2>2. \A v : clean_recycler(v) \/ MembersWork(v) => UNCHANGED tokenVars
    BY DEF clean_recycler, MembersWork
  <2>3. \A ring, batch : clean_recycler_dust(ring, batch) => UNCHANGED tokenVars
    BY DEF clean_recycler_dust
  <2> QED BY <1>5, <2>1, <2>2, <2>3 DEF MaintenanceNext, TokenNext
<1>6. CASE UNCHANGED vars
  BY <1>6 DEF vars
<1> QED BY <1>2, <1>3, <1>4, <1>5, <1>6 DEF Next

\* The tokens of the composed pallet.
LEMMA TokensStep == SpentInv /\ KeptInv /\ [Next]_vars => SpentInv' /\ KeptInv'
BY TokenPart, SpentStep, KeptStep

\* No token entitles to two unloads and none that was paid for is lost, in the
\* whole pallet: whatever else AsCoinage does around a call with a token.
THEOREM ComposedTokensCorrect == Spec => [](TokensSpentOnce /\ PaidTokensKept)
<1>1. Init => SpentInv /\ KeptInv
  BY SpentInit, KeptInit DEF Init
<1>2. SpentInv => TokensSpentOnce
  BY DEF SpentInv, TokensSpentOnce, IsPartialFunction
<1> QED BY <1>1, <1>2, TokensStep, KeptKeys, PTL DEF Spec

\* All recyclers are empty in the beginning.
LEMMA RecyclerInit == Init => RecyclerInv
<1> SUFFICES ASSUME Init PROVE RecyclerInv
  OBVIOUS
<1>1. /\ now = 0 /\ coins = <<>> /\ recyclers = <<>> /\ lastRemoved = [v \in Values |-> 0]
      /\ coinToRecycler = <<>> /\ unloaded = {} /\ dusting = {}
  BY DEF Init, TokenInit
<1>2. RecyclerTypes
  BY <1>1, EmptyMapType DEF RecyclerTypes
<1>3. \A v \in Values : Recycler(v) = create_collection /\ lastRemoved[v] = 0
  BY <1>1 DEF Recycler
<1>4. RingsRemovedInOrder
  BY <1>3, RecyclerCreated DEF RingsRemovedInOrder
<1>5. KeysRegistered
  BY <1>1, <1>3, RecyclerCreated DEF KeysRegistered
<1>6. AliasesKept
  BY <1>1 DEF AliasesKept
<1> QED BY <1>2, <1>4, <1>5, <1>6 DEF RecyclerInv

\* Every step keeps the invariant of the recyclers.
LEMMA RecyclerStep ==
  RecyclerInv /\ now' \in Nat /\ [Next]_vars => RecyclerInv'
<1> SUFFICES ASSUME RecyclerInv, now' \in Nat, [Next]_vars PROVE RecyclerInv'
  OBVIOUS
<1>1. IsPartialFunction(coins', Accounts, Coin)
  BY CoinsStep
<1>2. CASE UNCHANGED vars
  <2>1. CallsRecyclers
    BY <1>2 DEF vars, ringVars, CallsRecyclers
  <2> QED BY <1>1, <2>1, CallsKeep
<1>3. CASE Next
  <2>1. CallsRecyclers \/ Upkeep
    BY <1>3, CoinCalls, SignedCalls, AnonymousCalls, MaintenanceCalls DEF Next
  <2> QED BY <1>1, <2>1, CallsKeep, UpkeepKeeps
<1> QED BY <1>2, <1>3

\* The invariant in the words of the property.
LEMMA RecyclersMatch == RecyclerInv => RecyclersExact
<1> SUFFICES ASSUME RecyclerInv PROVE RecyclersExact
  OBVIOUS
<1>0. \A v \in Values : \A k :
        /\ Recycler(v) \in CollectionOf(Keys) /\ RemovedUpTo(Recycler(v), lastRemoved[v])
        /\ k \in AllRingKeys(Recycler(v)) <=> \E i \in Nat : k \in RingKeys(Recycler(v), i)
  BY RecyclerFacts, AllRingKeysFacts
<1>1. ASSUME NEW k \in Keys, NEW v \in Values
      PROVE  (k \in DOMAIN coinToRecycler /\ coinToRecycler[k] = v)
               <=> /\ v \in DOMAIN recyclers
                   /\ k \in recyclers[v].waiting \cup AllRingKeys(recyclers[v])
  <2>1. (k \in DOMAIN coinToRecycler /\ coinToRecycler[k] = v) <=> HoldsKey(Recycler(v), k)
    BY DEF RecyclerInv, KeysRegistered
  <2>2. HoldsKey(Recycler(v), k) <=> k \in Recycler(v).waiting \cup AllRingKeys(Recycler(v))
    BY <1>0 DEF HoldsKey
  <2>3. CASE v \in DOMAIN recyclers
    BY <2>1, <2>2, <2>3 DEF Recycler
  <2>4. CASE v \notin DOMAIN recyclers
    BY <2>1, <2>4, RecyclerCreated DEF Recycler
  <2> QED BY <2>3, <2>4
<1>2. ASSUME NEW k \in DOMAIN coinToRecycler
      PROVE  LET c == recyclers[coinToRecycler[k]]
             IN Cardinality({i \in DOMAIN c.rings : k \in c.rings[i].keys})
                  = (IF k \in c.waiting THEN 0 ELSE 1)
  <2> DEFINE v == coinToRecycler[k]
             c == recyclers[v]
             S == {i \in DOMAIN c.rings : k \in c.rings[i].keys}
  <2>1. k \in Keys /\ v \in Values
    BY DEF RecyclerInv, RecyclerTypes, IsPartialFunction
  <2>2. v \in DOMAIN recyclers /\ k \in c.waiting \cup AllRingKeys(c)
    BY <1>1, <2>1
  <2>3. c \in CollectionOf(Keys) /\ Disjoint(c) /\ Recycler(v) = c
    BY <1>0, <2>1, <2>2 DEF Recycler, RemovedUpTo
  <2> HIDE DEF c, v
  <2>4. DOMAIN c.rings \subseteq Nat
    BY <2>3, RingFacts
  <2>5. S = {i \in DOMAIN c.rings : k \in RingKeys(c, i)}
    BY DEF RingKeys
  <2>6. CASE k \in c.waiting
    <3>1. S = {}
      BY <2>3, <2>4, <2>5, <2>6 DEF Disjoint
    <3> QED BY <2>6, <3>1, FS_EmptySet DEF c, v
  <2>7. CASE k \notin c.waiting
    <3>1. PICK i \in DOMAIN c.rings : k \in c.rings[i].keys
      BY <2>2, <2>7 DEF AllRingKeys
    <3>2. S = {i}
      <4>1. \A j \in DOMAIN c.rings : j # i => RingKeys(c, i) \cap RingKeys(c, j) = {}
        BY <2>3, <2>4 DEF Disjoint
      <4>2. k \in RingKeys(c, i)
        BY <3>1 DEF RingKeys
      <4> QED BY <2>5, <3>1, <4>1, <4>2
    <3> HIDE DEF S
    <3>3. Cardinality(S) = 1
      BY <3>2, FS_Singleton
    <3> QED BY <2>7, <3>3 DEF S, c, v
  <2> QED BY <2>6, <2>7
<1>3. ASSUME NEW x \in unloaded
      PROVE  x[3] \in RingKeys(recyclers[x[1]], x[2]) \/ <<x[1], x[2]>> \in dusting
  <2>1. x[3] \in RingKeys(Recycler(x[1]), x[2]) \/ <<x[1], x[2]>> \in dusting
    BY <1>3 DEF RecyclerInv, AliasesKept
  <2> QED BY <2>1, EmptyCollection DEF Recycler
<1>4. \A ring \in dusting : ring[2] <= lastRemoved[ring[1]]
  BY DEF RecyclerInv, AliasesKept
<1> QED BY <1>1, <1>2, <1>3, <1>4 DEF RecyclersExact

\* What the pallet knows of a key agrees with where the members pallet has it,
\* for any rings, limits and batch sizes: RecyclersCoinToRecycler,
\* RecyclersUnloaded and RecyclersDusting are exact, although rings are removed
\* while keys wait and aliases go in batches.
THEOREM RecyclersExactCorrect == Spec => []RecyclersExact
<1>1. Init => SpentInv /\ KeptInv /\ RecyclerInv
  BY SpentInit, KeptInit, RecyclerInit DEF Init
<1>2. SpentInv /\ KeptInv /\ RecyclerInv /\ [Next]_vars => (SpentInv /\ KeptInv /\ RecyclerInv)'
  <2>1. SpentInv' => now' \in Nat
    BY DEF SpentInv
  <2> QED BY <2>1, TokensStep, RecyclerStep
<1> QED BY <1>1, <1>2, RecyclersMatch, PTL DEF Spec

-----------------------------------------------------------------------------
(* What circulates.                                                        *)

\* A voucher is a key that waits in a recycler, at 0, or is in one of its rings
\* and was not unloaded.
Places == Values \X (0..MaxRings) \X Keys
Worth == [x \in Places |-> Amount(x[1])]
Live ==
  {x \in Places :
     \/ x[2] = 0 /\ x[3] \in Recycler(x[1]).waiting
     \/ x[2] # 0 /\ x[3] \in RingKeys(Recycler(x[1]), x[2]) /\ x \notin unloaded}

\* What coins and what vouchers are worth.
CoinWorth(c) == [a \in DOMAIN c |-> Amount(c[a].value)]
CoinTotal(c) == Total(DOMAIN c, CoinWorth(c))
LiveTotal == Total(Live, Worth)

\* Coins have whole values.
LEMMA AmountType ==
  ASSUME NEW v \in Values
  PROVE  v \in Nat /\ Units(v) \in Nat /\ Amount(v) \in Nat /\ Amount(v) = Units(v) * UnitAmount
<1>1. v \in Nat /\ UnitAmount \in Nat
  BY CoinageAssumption DEF Values
<1>2. Units(v) \in Nat
  BY <1>1, PowerType DEF Units
<1> QED BY <1>1, <1>2 DEF Amount

\* There are finitely many places.
LEMMA PlacesFinite ==
  /\ IsFiniteSet(Places) /\ IsFiniteSet(Live) /\ Live \subseteq Places
  /\ \A x \in Places : Worth[x] = Amount(x[1]) /\ Worth[x] \in Nat
  /\ IsFiniteSet(Accounts) /\ IsFiniteSet(Keys) /\ IsFiniteSet(Values)
<1>1. IsFiniteSet(Accounts) /\ IsFiniteSet(Keys) /\ MaximumExponent \in Nat /\ MaxRings \in Nat
  BY CoinageAssumption, CollectionAssumption
<1>2. IsFiniteSet(Values) /\ IsFiniteSet(0..MaxRings)
  BY <1>1, FS_Interval DEF Values
<1>3. IsFiniteSet((Values \X (0..MaxRings)) \X Keys)
  <2>1. IsFiniteSet(Values \X (0..MaxRings))
    BY <1>2, FS_Product
  <2> QED BY <1>1, <2>1, FS_Product
<1>4. IsFiniteSet(Places)
  <2> DEFINE P == (Values \X (0..MaxRings)) \X Keys
             f == [p \in P |-> <<p[1][1], p[1][2], p[2]>>]
  <2>1. f \in [P -> Places]
    BY DEF Places
  <2>2. \A x \in Places : \E p \in P : f[p] = x
    <3> SUFFICES ASSUME NEW x \in Places PROVE \E p \in P : f[p] = x
      OBVIOUS
    <3>1. <<<<x[1], x[2]>>, x[3]>> \in P /\ x = <<x[1], x[2], x[3]>>
      BY DEF Places
    <3>2. f[<<<<x[1], x[2]>>, x[3]>>] = x
      BY <3>1
    <3> QED BY <3>1, <3>2
  <2> HIDE DEF f, P
  <2>3. f \in Surjection(P, Places)
    BY <2>1, <2>2 DEF Surjection
  <2>4. IsFiniteSet(P)
    BY <1>3 DEF P
  <2> QED BY <2>3, <2>4, FS_Surjection
<1>5. IsFiniteSet(Live) /\ Live \subseteq Places
  <2>1. Live \in SUBSET Places
    BY DEF Live
  <2> QED BY <1>4, <2>1, FS_Subset
<1>6. \A x \in Places : Worth[x] = Amount(x[1]) /\ Worth[x] \in Nat
  BY AmountType DEF Worth, Places
<1> QED BY <1>1, <1>2, <1>4, <1>5, <1>6

\* The sums of the model.
LEMMA AmountSum ==
  ASSUME NEW A, IsFiniteSet(A), NEW f, \A x \in A : f[x] = Amount(x[1]) /\ f[x] \in Nat
  PROVE  TotalAmount(A) = Total(A, f) /\ TotalAmount(A) \in Nat
<1> DEFINE Sums(iter) ==
      iter = [s \in SUBSET A |->
                IF s = {} THEN 0
                ELSE Amount((CHOOSE x \in s : TRUE)[1]) + iter[s \ {CHOOSE x \in s : TRUE}]]
<1>1. \A iter : Sums(iter) <=> SumsUp(iter, A, f)
  <2>1. \A s \in SUBSET A : s # {} =>
          Amount((CHOOSE x \in s : TRUE)[1]) = f[CHOOSE x \in s : TRUE]
    BY Picked
  <2> QED BY <2>1 DEF SumsUp
<1>2. TotalAmount(A) = (CHOOSE iter : Sums(iter))[A]
  BY DEF TotalAmount, MapThenSumSet, MapThenFoldSet
<1> HIDE DEF Sums
<1>3. /\ \E iter : SumsUp(iter, A, f)
      /\ \A iter : SumsUp(iter, A, f) => iter[A] = Total(A, f)
  BY SumsUpUnique
<1>4. SumsUp((CHOOSE iter : Sums(iter)), A, f)
  BY <1>1, <1>3
<1>5. Total(A, f) \in Nat
  BY TotalType
<1> QED BY <1>2, <1>3, <1>4, <1>5

\* The same for what coins or vouchers are made of.
LEMMA UnitsSum ==
  ASSUME NEW out, IsFiniteSet(DOMAIN out), NEW f,
         \A x \in DOMAIN out : f[x] = Units(out[x]) /\ f[x] \in Nat
  PROVE  TotalUnits(out) = Total(DOMAIN out, f) /\ TotalUnits(out) \in Nat
<1> DEFINE A == DOMAIN out
<1> DEFINE Sums(iter) ==
      iter = [s \in SUBSET A |->
                IF s = {} THEN 0
                ELSE Units(out[CHOOSE x \in s : TRUE]) + iter[s \ {CHOOSE x \in s : TRUE}]]
<1>1. \A iter : Sums(iter) <=> SumsUp(iter, A, f)
  <2>1. \A s \in SUBSET A : s # {} =>
          Units(out[CHOOSE x \in s : TRUE]) = f[CHOOSE x \in s : TRUE]
    BY Picked
  <2> QED BY <2>1 DEF SumsUp
<1>2. TotalUnits(out) = (CHOOSE iter : Sums(iter))[A]
  BY DEF TotalUnits, MapThenSumSet, MapThenFoldSet
<1> HIDE DEF Sums
<1>3. /\ \E iter : SumsUp(iter, A, f)
      /\ \A iter : SumsUp(iter, A, f) => iter[A] = Total(A, f)
  BY SumsUpUnique
<1>4. SumsUp((CHOOSE iter : Sums(iter)), A, f)
  BY <1>1, <1>3
<1>5. Total(A, f) \in Nat
  BY TotalType
<1> QED BY <1>2, <1>3, <1>4, <1>5

\* The same for the coins there are.
LEMMA CoinSum ==
  ASSUME RecyclerInv
  PROVE  /\ MapThenSumSet(LAMBDA a : Amount(coins[a].value), DOMAIN coins) = CoinTotal(coins)
         /\ CoinTotal(coins) \in Nat
<1> DEFINE A == DOMAIN coins
           f == CoinWorth(coins)
<1>0. IsFiniteSet(A) /\ \A x \in A : f[x] = Amount(coins[x].value) /\ f[x] \in Nat
  <2>1. A \in SUBSET Accounts /\ \A x \in A : coins[x].value \in Values
    BY DEF RecyclerInv, RecyclerTypes, IsPartialFunction, Coin
  <2> QED BY <2>1, AmountType, PlacesFinite, FS_Subset DEF CoinWorth
<1> DEFINE Sums(iter) ==
      iter = [s \in SUBSET A |->
                IF s = {} THEN 0
                ELSE Amount(coins[CHOOSE x \in s : TRUE].value)
                       + iter[s \ {CHOOSE x \in s : TRUE}]]
<1>1. \A iter : Sums(iter) <=> SumsUp(iter, A, f)
  <2>1. \A s \in SUBSET A : s # {} =>
          Amount(coins[CHOOSE x \in s : TRUE].value) = f[CHOOSE x \in s : TRUE]
    BY <1>0, Picked
  <2> HIDE DEF f, A
  <2> QED BY <2>1 DEF SumsUp
<1>2. MapThenSumSet(LAMBDA a : Amount(coins[a].value), DOMAIN coins)
        = (CHOOSE iter : Sums(iter))[A]
  BY DEF MapThenSumSet, MapThenFoldSet
<1> HIDE DEF Sums
<1>3. /\ \E iter : SumsUp(iter, A, f)
      /\ \A iter : SumsUp(iter, A, f) => iter[A] = Total(A, f)
  BY <1>0, SumsUpUnique
<1>4. SumsUp((CHOOSE iter : Sums(iter)), A, f)
  BY <1>1, <1>3
<1>5. Total(A, f) \in Nat
  BY <1>0, TotalType
<1>6. CoinTotal(coins) = Total(A, f)
  BY DEF CoinTotal
<1> QED BY <1>2, <1>3, <1>4, <1>5, <1>6

\* The keys that wait are worth what they are as vouchers.
LEMMA WaitingSum ==
  ASSUME RecyclerInv,
         NEW W, W = {x \in (DOMAIN recyclers) \X Keys : x[2] \in recyclers[x[1]].waiting}
  PROVE  TotalAmount(W) = Total({x \in Live : x[2] = 0}, Worth) /\ TotalAmount(W) \in Nat
<1> DEFINE f == [x \in W |-> Amount(x[1])]
           h == [x \in W |-> <<x[1], 0, x[2]>>]
           V == {x \in Live : x[2] = 0}
<1>1. DOMAIN recyclers \subseteq Values /\ MaxRings \in Nat
  BY CollectionAssumption DEF RecyclerInv, RecyclerTypes, IsPartialFunction
<1>2. W \in SUBSET (Values \X Keys) /\ IsFiniteSet(W)
  <2>1. W \in SUBSET (Values \X Keys)
    BY <1>1
  <2>2. IsFiniteSet(Values \X Keys)
    BY PlacesFinite, FS_Product
  <2> QED BY <2>1, <2>2, FS_Subset
<1>3. \A x \in W : f[x] = Amount(x[1]) /\ f[x] \in Nat
  BY <1>2, AmountType
<1>4. TotalAmount(W) = Total(W, f) /\ TotalAmount(W) \in Nat
  <2> HIDE DEF f
  <2> QED BY <1>2, <1>3, AmountSum
<1>5. {h[x] : x \in W} = V
  <2>1. ASSUME NEW x \in W PROVE h[x] \in V
    <3>1. /\ x[1] \in DOMAIN recyclers /\ x[1] \in Values /\ x[2] \in Keys
          /\ x[2] \in recyclers[x[1]].waiting
      BY <1>1
    <3>2. <<x[1], 0, x[2]>> \in Places
      BY <1>1, <3>1 DEF Places
    <3>3. x[2] \in Recycler(x[1]).waiting
      BY <3>1 DEF Recycler
    <3> QED BY <3>2, <3>3 DEF Live
  <2>2. ASSUME NEW y \in V PROVE \E x \in W : h[x] = y
    <3>1. y \in Places /\ y[2] = 0 /\ y[3] \in Recycler(y[1]).waiting
      BY DEF Live
    <3>2. y[1] \in DOMAIN recyclers /\ y[3] \in recyclers[y[1]].waiting
      BY <3>1, EmptyCollection DEF Recycler
    <3>3. y[3] \in Keys /\ y = <<y[1], 0, y[3]>>
      BY <3>1 DEF Places
    <3>4. <<y[1], y[3]>> \in W
      BY <3>2, <3>3
    <3> QED BY <3>3, <3>4
  <2> HIDE DEF h, V
  <2> QED BY <2>1, <2>2
<1>6. \A x, y \in W : h[x] = h[y] => x = y
  BY <1>2
<1>7. \A x \in W : f[x] = Worth[h[x]]
  <2> SUFFICES ASSUME NEW x \in W PROVE f[x] = Worth[h[x]]
    OBVIOUS
  <2>1. h[x] \in Places /\ h[x][1] = x[1]
    BY <1>1, <1>2 DEF Places
  <2> QED BY <2>1 DEF Worth
<1>8. Total(W, f) = Total({h[x] : x \in W}, Worth)
  <2>1. \A x \in W : f[x] = Worth[h[x]] /\ f[x] \in Nat
    BY <1>3, <1>7
  <2>2. IsFiniteSet(W)
    BY <1>2
  <2> HIDE DEF f, h
  <2> QED BY ONLY <2>1, <2>2, <1>6, TotalReindex
<1> QED BY <1>4, <1>5, <1>8

\* What circulates is what coins and vouchers are worth.
LEMMA CirculatingSum ==
  ASSUME RecyclerInv
  PROVE  /\ Circulating = CoinTotal(coins) + LiveTotal
         /\ CoinTotal(coins) \in Nat /\ LiveTotal \in Nat
<1> DEFINE W == {x \in (DOMAIN recyclers) \X Keys : x[2] \in recyclers[x[1]].waiting}
           I == {x \in (DOMAIN recyclers) \X (1..MaxRings) \X Keys :
                   x[3] \in RingKeys(recyclers[x[1]], x[2])}
           V == {x \in Live : x[2] = 0}
           R == I \ unloaded
<1>1. TotalAmount(W) = Total(V, Worth) /\ TotalAmount(W) \in Nat
  BY WaitingSum
<1>2. R = Live \ V
  <2>0. DOMAIN recyclers \subseteq Values /\ MaxRings \in Nat
    BY CollectionAssumption DEF RecyclerInv, RecyclerTypes, IsPartialFunction
  <2>1. ASSUME NEW x \in R PROVE x \in Live \ V
    <3>1. /\ x[1] \in DOMAIN recyclers /\ x[3] \in RingKeys(recyclers[x[1]], x[2])
          /\ x[2] # 0 /\ x \notin unloaded /\ x \in Places
      BY <2>0 DEF Places
    <3> QED BY <3>1 DEF Live, Recycler
  <2>2. ASSUME NEW x \in Live \ V PROVE x \in R
    <3>1. /\ x \in Places /\ x[2] # 0 /\ x \notin unloaded
          /\ x[3] \in RingKeys(Recycler(x[1]), x[2])
      BY DEF Live
    <3>2. x[1] \in DOMAIN recyclers /\ x[3] \in RingKeys(recyclers[x[1]], x[2])
      BY <3>1, EmptyCollection DEF Recycler
    <3>3. x \in (DOMAIN recyclers) \X (1..MaxRings) \X Keys
      BY <2>0, <3>1, <3>2 DEF Places
    <3> QED BY <3>1, <3>2, <3>3
  <2> HIDE DEF R, V
  <2> QED BY <2>1, <2>2
<1> HIDE DEF W, I
<1>3. V \in SUBSET Live /\ R \in SUBSET Places
  BY <1>2, PlacesFinite
<1>4. /\ Total(R, Worth) = LiveTotal - Total(V, Worth) /\ IsFiniteSet(R)
      /\ Total(V, Worth) \in Nat /\ LiveTotal \in Nat /\ Total(R, Worth) \in Nat
  <2>1. \A x \in Live : Worth[x] \in Nat
    BY PlacesFinite
  <2> HIDE DEF V, R
  <2> QED BY <1>2, <1>3, <2>1, PlacesFinite, TotalDifference DEF LiveTotal
<1>5. TotalAmount(R) = Total(R, Worth)
  <2>1. \A x \in R : Worth[x] = Amount(x[1]) /\ Worth[x] \in Nat
    BY <1>3, PlacesFinite
  <2> HIDE DEF R
  <2> QED BY <1>4, <2>1, AmountSum
<1>6. Circulating = CoinTotal(coins) + TotalAmount(W) + TotalAmount(R)
  BY CoinSum DEF Circulating, W, I
<1> HIDE DEF R, V
<1> QED BY <1>1, <1>4, <1>5, <1>6, CoinSum

\* Of coins or vouchers that are made, the amount is that of their units.
LEMMA MadeAmount ==
  ASSUME NEW K, IsFiniteSet(K), NEW out, IsPartialFunction(out, K, Values),
         NEW f, \A x \in DOMAIN out : f[x] = Amount(out[x])
  PROVE  /\ Total(DOMAIN out, f) = TotalUnits(out) * UnitAmount
         /\ TotalUnits(out) \in Nat /\ TotalUnits(out) * UnitAmount \in Nat
         /\ IsFiniteSet(DOMAIN out)
<1> DEFINE D == DOMAIN out
           g == [x \in D |-> Units(out[x])]
<1>1. D \in SUBSET K /\ IsFiniteSet(D) /\ \A x \in D : out[x] \in Values
  BY FS_Subset DEF IsPartialFunction
<1>2. \A x \in D : /\ g[x] = Units(out[x]) /\ g[x] \in Nat
                   /\ f[x] \in Nat /\ f[x] = g[x] * UnitAmount
  BY <1>1, AmountType
<1>3. UnitAmount \in Nat
  BY CoinageAssumption
<1> HIDE DEF g
<1>4. TotalUnits(out) = Total(D, g) /\ TotalUnits(out) \in Nat
  BY <1>1, <1>2, UnitsSum
<1>5. Total(D, f) = Total(D, g) * UnitAmount
  <2> HIDE DEF D
  <2> QED BY <1>1, <1>2, <1>3, TotalTimes
<1>6. \A m \in Nat : m * UnitAmount \in Nat
  BY <1>3
<1> QED BY <1>1, <1>4, <1>5, <1>6

\* One coin or voucher.
LEMMA OneMade ==
  ASSUME NEW k, NEW v \in Values
  PROVE  TotalUnits(Insert(<<>>, k, v)) = Units(v)
<1> DEFINE out == Insert(<<>>, k, v)
           g == [x \in {k} |-> Units(v)]
<1>1. DOMAIN out = {k} /\ out[k] = v
  BY DEF Insert
<1>2. IsFiniteSet({k}) /\ Cardinality({k}) = 1 /\ Units(v) \in Nat
  BY FS_Singleton, AmountType
<1>3. \A x \in DOMAIN out : g[x] = Units(out[x]) /\ g[x] \in Nat
  BY <1>1, <1>2
<1>4. TotalUnits(out) = Total({k}, g)
  <2> HIDE DEF out, g
  <2> QED BY <1>1, <1>2, <1>3, UnitsSum
<1>5. Total({k}, g) = Cardinality({k}) * Units(v)
  BY <1>2, TotalConstant
<1>6. 1 * Units(v) = Units(v)
  BY <1>2
<1> QED BY <1>2, <1>4, <1>5, <1>6

\* Coins are finitely many.
LEMMA CoinTotalType ==
  ASSUME NEW c, IsPartialFunction(c, Accounts, Coin)
  PROVE  /\ IsFiniteSet(DOMAIN c) /\ CoinTotal(c) \in Nat
         /\ \A a \in DOMAIN c : /\ c[a].value \in Values /\ Amount(c[a].value) \in Nat
                                /\ CoinWorth(c)[a] = Amount(c[a].value)
<1>1. DOMAIN c \in SUBSET Accounts /\ \A a \in DOMAIN c : c[a].value \in Values
  BY DEF IsPartialFunction, Coin
<1>2. IsFiniteSet(DOMAIN c)
  BY <1>1, PlacesFinite, FS_Subset
<1>3. \A a \in DOMAIN c : CoinWorth(c)[a] = Amount(c[a].value) /\ Amount(c[a].value) \in Nat
  BY <1>1, AmountType DEF CoinWorth
<1>4. CoinTotal(c) \in Nat
  BY <1>2, <1>3, TotalType DEF CoinTotal
<1> QED BY <1>1, <1>2, <1>3, <1>4

\* A coin that is taken no longer counts.
LEMMA CoinTaken ==
  ASSUME NEW c, IsPartialFunction(c, Accounts, Coin), NEW a \in DOMAIN c
  PROVE  /\ CoinTotal(Without(c, a)) = CoinTotal(c) - Amount(c[a].value)
         /\ Amount(c[a].value) <= CoinTotal(c)
         /\ CoinTotal(Without(c, a)) \in Nat
<1> DEFINE d == Without(c, a)
<1>1. DOMAIN d = DOMAIN c \ {a} /\ \A x \in DOMAIN c \ {a} : d[x] = c[x]
  BY DEF Without
<1>2. IsPartialFunction(d, Accounts, Coin)
  BY WithoutType
<1> HIDE DEF d
<1>3. \A x \in DOMAIN c : CoinWorth(c)[x] \in Nat
  BY CoinTotalType
<1>4. CoinTotal(c) = CoinWorth(c)[a] + Total(DOMAIN c \ {a}, CoinWorth(c))
  BY <1>3, CoinTotalType, TotalStep DEF CoinTotal
<1>5. CoinTotal(d) = Total(DOMAIN c \ {a}, CoinWorth(c))
  <2>1. \A x \in DOMAIN d : CoinWorth(d)[x] = CoinWorth(c)[x]
    BY <1>1 DEF CoinWorth
  <2> QED BY <1>1, <2>1, TotalSame DEF CoinTotal
<1>6. CoinTotal(c) = Amount(c[a].value) + CoinTotal(d)
  BY <1>4, <1>5, CoinTotalType
<1>7. CoinTotal(c) \in Nat /\ CoinTotal(d) \in Nat /\ Amount(c[a].value) \in Nat
  BY <1>2, CoinTotalType
<1>8. \A m, n, k \in Nat : m = n + k => k = m - n /\ n <= m
  OBVIOUS
<1> QED BY <1>6, <1>7, <1>8 DEF d

\* Coins that are made count as their units.
LEMMA CoinsMade ==
  ASSUME NEW c, IsPartialFunction(c, Accounts, Coin),
         NEW out, IsPartialFunction(out, Accounts, Values), DOMAIN out \cap DOMAIN c = {},
         NEW age
  PROVE  /\ CoinTotal(WithCoins(c, out, age)) = CoinTotal(c) + TotalUnits(out) * UnitAmount
         /\ TotalUnits(out) \in Nat
         /\ CoinTotal(c) \in Nat /\ TotalUnits(out) * UnitAmount \in Nat
<1> DEFINE d == WithCoins(c, out, age)
           f == CoinWorth(d)
<1>1. /\ DOMAIN d = DOMAIN c \cup DOMAIN out
      /\ \A x \in DOMAIN c : f[x] = Amount(c[x].value)
      /\ \A x \in DOMAIN out : f[x] = Amount(out[x])
  BY DEF WithCoins, CoinWorth
<1> HIDE DEF f
<1>2. /\ Total(DOMAIN out, f) = TotalUnits(out) * UnitAmount /\ IsFiniteSet(DOMAIN out)
      /\ TotalUnits(out) \in Nat /\ TotalUnits(out) * UnitAmount \in Nat
  BY <1>1, PlacesFinite, MadeAmount
<1>3. /\ IsFiniteSet(DOMAIN c) /\ CoinTotal(c) \in Nat
      /\ \A x \in DOMAIN c : Amount(c[x].value) \in Nat /\ CoinWorth(c)[x] = Amount(c[x].value)
  BY CoinTotalType
<1>4. Total(DOMAIN c, f) = CoinTotal(c)
  <2>1. \A x \in DOMAIN c : f[x] = CoinWorth(c)[x]
    BY <1>1, <1>3
  <2> QED BY <2>1, TotalSame DEF CoinTotal
<1>5. \A x \in DOMAIN c \cup DOMAIN out : f[x] \in Nat
  <2>1. \A x \in DOMAIN out : out[x] \in Values
    BY DEF IsPartialFunction
  <2> QED BY <1>1, <1>3, <2>1, AmountType
<1>6. Total(DOMAIN c \cup DOMAIN out, f) = Total(DOMAIN c, f) + Total(DOMAIN out, f)
  BY <1>2, <1>3, <1>5, TotalUnion
<1>7. CoinTotal(d) = Total(DOMAIN c \cup DOMAIN out, f)
  BY <1>1 DEF CoinTotal, f
<1> QED BY <1>2, <1>3, <1>4, <1>6, <1>7

\* Calls take vouchers out of rings and add waiting ones.
LEMMA LiveCalls ==
  ASSUME RecyclerInv,
         NEW A \in SUBSET RingVouchers, A \cap unloaded = {}, unloaded' = unloaded \cup A,
         NEW new, IsPartialFunction(new, Keys, Values),
         \A v \in Values :
           /\ Recycler(v)'.waiting = Recycler(v).waiting \cup {k \in DOMAIN new : new[k] = v}
           /\ \A i : RingKeys(Recycler(v)', i) = RingKeys(Recycler(v), i),
         \A k \in DOMAIN new : ~HoldsKey(Recycler(new[k]), k)
  PROVE  /\ LiveTotal' = LiveTotal - TotalAmount(A) + TotalUnits(new) * UnitAmount
         /\ TotalAmount(A) \in Nat /\ TotalAmount(A) <= LiveTotal /\ LiveTotal \in Nat
         /\ TotalUnits(new) \in Nat /\ TotalUnits(new) * UnitAmount \in Nat
<1> DEFINE h == [k \in DOMAIN new |-> <<new[k], 0, k>>]
           g == [k \in DOMAIN new |-> Amount(new[k])]
           B == {h[k] : k \in DOMAIN new}
<1>0. MaxRings \in Nat /\ DOMAIN new \subseteq Keys /\ \A k \in DOMAIN new : new[k] \in Values
  BY CollectionAssumption DEF IsPartialFunction
<1>1. A \in SUBSET Live
  <2> SUFFICES ASSUME NEW x \in A PROVE x \in Live
    OBVIOUS
  <2>1. /\ x \in Values \X (1..MaxRings) \X Keys /\ x \notin unloaded
        /\ x[3] \in RingKeys(Recycler(x[1]), x[2])
    BY DEF RingVouchers
  <2>2. x \in Places /\ x[2] # 0
    BY <1>0, <2>1 DEF Places
  <2> QED BY <2>1, <2>2 DEF Live
<1>2. B \subseteq Places /\ B \cap Live = {}
  <2> SUFFICES ASSUME NEW k \in DOMAIN new PROVE h[k] \in Places /\ h[k] \notin Live
    OBVIOUS
  <2>1. h[k] = <<new[k], 0, k>> /\ h[k] \in Places
    BY <1>0 DEF Places
  <2>2. k \notin Recycler(new[k]).waiting
    BY DEF HoldsKey
  <2> HIDE DEF h
  <2> QED BY <2>1, <2>2 DEF Live
<1>3. Live' = (Live \ A) \cup B
  <2>1. ASSUME NEW x \in Live' PROVE x \in (Live \ A) \cup B
    <3>1. /\ x \in Places
          /\ \/ x[2] = 0 /\ x[3] \in Recycler(x[1])'.waiting
             \/ x[2] # 0 /\ x[3] \in RingKeys(Recycler(x[1])', x[2]) /\ x \notin unloaded'
      BY DEF Live, Places
    <3>2. x[1] \in Values /\ x = <<x[1], x[2], x[3]>>
      BY <3>1 DEF Places
    <3>3. CASE x[2] # 0
      <4>1. x[3] \in RingKeys(Recycler(x[1]), x[2]) /\ x \notin unloaded /\ x \notin A
        BY <3>1, <3>2, <3>3
      <4> QED BY <3>1, <3>3, <4>1 DEF Live
    <3>4. CASE x[2] = 0
      <4>1. CASE x[3] \in Recycler(x[1]).waiting
        <5>1. x \notin A
          BY <3>4 DEF RingVouchers
        <5> QED BY <3>1, <3>4, <4>1, <5>1 DEF Live
      <4>2. CASE x[3] \in DOMAIN new /\ new[x[3]] = x[1]
        <5>1. h[x[3]] = x
          BY <3>2, <3>4, <4>2
        <5> QED BY <4>2, <5>1
      <4> QED BY <3>1, <3>2, <3>4, <4>1, <4>2
    <3> QED BY <3>3, <3>4
  <2>2. ASSUME NEW x \in Live, x \notin A PROVE x \in Live'
    <3>1. /\ x \in Places /\ x[1] \in Values
          /\ \/ x[2] = 0 /\ x[3] \in Recycler(x[1]).waiting
             \/ x[2] # 0 /\ x[3] \in RingKeys(Recycler(x[1]), x[2]) /\ x \notin unloaded
      BY DEF Live, Places
    <3>2. \/ x[2] = 0 /\ x[3] \in Recycler(x[1])'.waiting
          \/ x[2] # 0 /\ x[3] \in RingKeys(Recycler(x[1])', x[2]) /\ x \notin unloaded'
      BY <2>2, <3>1
    <3> QED BY <3>1, <3>2 DEF Live, Places
  <2>3. ASSUME NEW k \in DOMAIN new PROVE h[k] \in Live'
    <3>1. h[k] = <<new[k], 0, k>> /\ new[k] \in Values /\ h[k] \in Places
      BY <1>0, <1>2
    <3>2. k \in Recycler(new[k])'.waiting
      BY <3>1
    <3> HIDE DEF h
    <3> QED BY <3>1, <3>2 DEF Live, Places
  <2> HIDE DEF h
  <2> QED BY <2>1, <2>2, <2>3
<1>4. /\ Total(DOMAIN new, g) = TotalUnits(new) * UnitAmount /\ IsFiniteSet(DOMAIN new)
      /\ TotalUnits(new) \in Nat /\ TotalUnits(new) * UnitAmount \in Nat
  <2>1. \A k \in DOMAIN new : g[k] = Amount(new[k])
    OBVIOUS
  <2> HIDE DEF g
  <2> QED BY <2>1, PlacesFinite, MadeAmount
<1>5. Total(DOMAIN new, g) = Total(B, Worth)
  <2>1. \A k, l \in DOMAIN new : h[k] = h[l] => k = l
    OBVIOUS
  <2>2. \A k \in DOMAIN new : g[k] = Worth[h[k]] /\ g[k] \in Nat
    BY <1>0, <1>2, AmountType DEF Worth
  <2>3. IsFiniteSet(DOMAIN new)
    BY <1>4
  <2> HIDE DEF h, g
  <2> QED BY ONLY <2>1, <2>2, <2>3, TotalReindex DEF B
<1>6. \A x \in Places : Worth[x] = Amount(x[1]) /\ Worth[x] \in Nat
  BY PlacesFinite
<1> HIDE DEF B, g, h
<1>7. /\ IsFiniteSet(A) /\ IsFiniteSet(Live \ A) /\ Total(A, Worth) <= LiveTotal
      /\ Total(Live \ A, Worth) = LiveTotal - Total(A, Worth)
      /\ Total(A, Worth) \in Nat /\ LiveTotal \in Nat /\ Total(Live \ A, Worth) \in Nat
  <2>1. \A x \in Live : Worth[x] \in Nat
    BY <1>6, PlacesFinite
  <2> QED BY <1>1, <2>1, PlacesFinite, TotalDifference DEF LiveTotal
<1>8. TotalAmount(A) = Total(A, Worth)
  <2>1. \A x \in A : Worth[x] = Amount(x[1]) /\ Worth[x] \in Nat
    BY <1>1, <1>6, PlacesFinite
  <2> QED BY <1>7, <2>1, AmountSum
<1>9. Total((Live \ A) \cup B, Worth) = Total(Live \ A, Worth) + Total(B, Worth)
  <2>1. (Live \ A) \cap B = {} /\ \A x \in (Live \ A) \cup B : Worth[x] \in Nat
    BY <1>2, <1>6, PlacesFinite
  <2>2. IsFiniteSet(B)
    BY <1>2, PlacesFinite, FS_Subset
  <2> QED BY <1>7, <2>1, <2>2, TotalUnion
<1>10. LiveTotal' = Total((Live \ A) \cup B, Worth)
  BY <1>3 DEF LiveTotal, Worth, Places
<1> QED BY <1>4, <1>5, <1>7, <1>8, <1>9, <1>10

\* What a call does to vouchers: A are unloaded, or none, and new are loaded,
\* or none.
CallOn(A, new) ==
  /\ UNCHANGED lastRemoved
  /\ \/ A = {} /\ UNCHANGED unloaded
     \/ A \in SUBSET RingVouchers /\ unload(A)
  /\ \/ new = <<>> /\ UNCHANGED recyclers
     \/ IsPartialFunction(new, Keys, Values) /\ load(new)

\* Vouchers count for as much less as was unloaded, for as much more as was
\* loaded.
LEMMA LiveAfterCall ==
  ASSUME RecyclerInv, NEW A, NEW new, CallOn(A, new)
  PROVE  /\ LiveTotal' = LiveTotal - TotalAmount(A) + TotalUnits(new) * UnitAmount
         /\ TotalAmount(A) \in Nat /\ TotalAmount(A) <= LiveTotal /\ LiveTotal \in Nat
         /\ TotalUnits(new) \in Nat /\ TotalUnits(new) * UnitAmount \in Nat
<1>1. /\ A \in SUBSET RingVouchers /\ A \cap unloaded = {} /\ unloaded' = unloaded \cup A
  <2>1. CASE A = {} /\ UNCHANGED unloaded
    BY <2>1
  <2>2. CASE A \in SUBSET RingVouchers /\ unload(A)
    BY <2>2 DEF unload, NotUnloaded
  <2> QED BY <2>1, <2>2 DEF CallOn
<1>2. /\ IsPartialFunction(new, Keys, Values)
      /\ \A v \in Values :
           /\ Recycler(v)'.waiting = Recycler(v).waiting \cup {k \in DOMAIN new : new[k] = v}
           /\ \A i : RingKeys(Recycler(v)', i) = RingKeys(Recycler(v), i)
      /\ \A k \in DOMAIN new : ~HoldsKey(Recycler(new[k]), k)
  <2>1. CASE new = <<>> /\ UNCHANGED recyclers
    <3>1. IsPartialFunction(new, Keys, Values) /\ DOMAIN new = {}
      BY <2>1, EmptyMapType
    <3>2. \A v : Recycler(v)' = Recycler(v)
      BY <2>1 DEF Recycler
    <3> QED BY <3>1, <3>2
  <2>2. CASE IsPartialFunction(new, Keys, Values) /\ load(new)
    BY <2>2, LoadKeeps DEF CallOn
  <2> QED BY <2>1, <2>2 DEF CallOn
<1> QED BY <1>1, <1>2, LiveCalls

\* Nothing is worth nothing.
LEMMA NothingWorth == TotalAmount({}) = 0 /\ TotalUnits(<<>>) = 0
<1> DEFINE f == [x \in {} |-> 0]
<1>1. IsFiniteSet({}) /\ DOMAIN <<>> = {}
  BY FS_EmptySet
<1>2. TotalAmount({}) = Total({}, f)
  BY <1>1, AmountSum
<1>3. TotalUnits(<<>>) = Total(DOMAIN <<>>, f)
  BY <1>1, UnitsSum
<1>4. Total({}, f) = 0
  BY TotalStep
<1> QED BY <1>1, <1>2, <1>3, <1>4, Zenon

\* Vouchers of one recycler.
LEMMA SameAmount ==
  ASSUME NEW v \in Values, NEW A, IsFiniteSet(A), \A x \in A : x[1] = v
  PROVE  TotalAmount(A) = Cardinality(A) * Amount(v)
<1> DEFINE f == [x \in A |-> Amount(v)]
<1>1. Amount(v) \in Nat
  BY AmountType
<1>2. \A x \in A : f[x] = Amount(v)
  OBVIOUS
<1>3. \A x \in A : f[x] = Amount(x[1]) /\ f[x] \in Nat
  BY <1>1
<1> HIDE DEF f
<1>4. TotalAmount(A) = Total(A, f)
  BY <1>3, AmountSum
<1>5. Total(A, f) = Cardinality(A) * Amount(v)
  BY <1>1, <1>2, TotalConstant
<1> QED BY <1>4, <1>5

\* Vouchers count the same while queues, rings and the aliases of keys in them
\* stay.
LEMMA LiveSame ==
  ASSUME \A v \in Values :
           /\ Recycler(v)'.waiting = Recycler(v).waiting
           /\ \A i : RingKeys(Recycler(v)', i) = RingKeys(Recycler(v), i),
         \A x \in Places : x[3] \in RingKeys(Recycler(x[1]), x[2])
                             => (x \in unloaded <=> x \in unloaded')
  PROVE  LiveTotal' = LiveTotal
<1>1. \A x \in Places : x[1] \in Values
  BY DEF Places
<1>2. Live' = Live
  <2>1. Live' = {x \in Places :
                   \/ x[2] = 0 /\ x[3] \in Recycler(x[1])'.waiting
                   \/ x[2] # 0 /\ x[3] \in RingKeys(Recycler(x[1])', x[2]) /\ x \notin unloaded'}
    BY DEF Live, Places
  <2> QED BY <1>1, <2>1 DEF Live
<1>3. LiveTotal' = Total(Live', Worth)
  BY DEF LiveTotal, Worth, Places
<1> QED BY <1>2, <1>3 DEF LiveTotal

\* A key that is onboarded counts in the ring as it did in the queue.
LEMMA LiveOnboard ==
  ASSUME RecyclerInv, NEW v \in DOMAIN recyclers, NEW k \in Keys,
         CanOnboard(recyclers[v], k),
         recyclers' = [recyclers EXCEPT ![v] = Onboarded(@, k, now)],
         UNCHANGED <<lastRemoved, coinToRecycler, unloaded>>
  PROVE  LiveTotal' = LiveTotal
<1>1. /\ v \in Values /\ \A w \in Values : w # v => Recycler(w)' = Recycler(w)
      /\ Recycler(v)'.waiting = Recycler(v).waiting \ {k} /\ k \in Recycler(v).waiting
  BY OnboardKeeps
<1>2. PICK n \in 1..MaxRings :
        /\ lastRemoved[v] < n
        /\ \A i \in Nat : RingKeys(Recycler(v)', i)
             = IF i = n THEN RingKeys(Recycler(v), i) \cup {k} ELSE RingKeys(Recycler(v), i)
  BY OnboardKeeps
<1> DEFINE old == <<v, 0, k>>
           new == <<v, n, k>>
<1>3. MaxRings \in Nat /\ n \in Nat /\ n # 0 /\ lastRemoved[v] \in Nat
  BY CollectionAssumption, <1>1 DEF RecyclerInv, RecyclerTypes
<1>4. old \in Places /\ new \in Places
  BY <1>1, <1>3 DEF Places
<1>5. k \notin RingKeys(Recycler(v), n) /\ \A i \in Nat : k \notin RingKeys(Recycler(v), i)
  <2>1. Disjoint(Recycler(v))
    BY <1>1 DEF RecyclerInv, RingsRemovedInOrder, RemovedUpTo
  <2> QED BY <1>1, <1>3, <2>1 DEF Disjoint
<1>6. new \notin unloaded
  <2>1. SUFFICES ASSUME new \in unloaded PROVE FALSE
    OBVIOUS
  <2>2. new[3] \in RingKeys(Recycler(new[1]), new[2]) \/ <<new[1], new[2]>> \in dusting
    BY <2>1 DEF RecyclerInv, AliasesKept
  <2>3. <<v, n>> \in dusting
    BY <1>5, <2>2
  <2>4. <<v, n>>[2] <= lastRemoved[<<v, n>>[1]]
    BY <2>3 DEF RecyclerInv, AliasesKept
  <2> QED BY <1>2, <1>3, <2>4
<1>7. old \in Live /\ new \notin Live
  BY <1>1, <1>3, <1>4, <1>5 DEF Live
<1>8. Live' = (Live \ {old}) \cup {new}
  <2>1. Live' = {x \in Places :
                   \/ x[2] = 0 /\ x[3] \in Recycler(x[1])'.waiting
                   \/ x[2] # 0 /\ x[3] \in RingKeys(Recycler(x[1])', x[2]) /\ x \notin unloaded}
    BY DEF Live, Places
  <2>2. ASSUME NEW x \in Places PROVE x \in Live' <=> (x \in Live /\ x # old) \/ x = new
    <3>1. x = <<x[1], x[2], x[3]>> /\ x[1] \in Values /\ x[2] \in Nat
      BY <1>3 DEF Places
    <3>2. CASE x[1] # v
      <4>1. Recycler(x[1])' = Recycler(x[1]) /\ x # old /\ x # new
        BY <1>1, <3>1, <3>2
      <4> HIDE DEF old, new
      <4> QED BY <2>1, <4>1 DEF Live
    <3>3. CASE x[1] = v /\ x[2] = 0
      <4>1. x # new /\ (x = old <=> x[3] = k)
        BY <1>3, <3>1, <3>3
      <4> HIDE DEF old, new
      <4> QED BY <1>1, <2>1, <3>3, <4>1 DEF Live
    <3>4. CASE x[1] = v /\ x[2] # 0 /\ x[2] # n
      <4>1. x # old /\ x # new
        BY <3>1, <3>4
      <4> HIDE DEF old, new
      <4> QED BY <1>2, <2>1, <3>1, <3>4, <4>1 DEF Live
    <3>5. CASE x[1] = v /\ x[2] = n
      <4>1. x # old /\ (x = new <=> x[3] = k)
        BY <1>3, <3>1, <3>5
      <4>2. x[3] \in RingKeys(Recycler(v)', n) <=> x[3] \in RingKeys(Recycler(v), n) \/ x[3] = k
        BY <1>2, <1>3
      <4> HIDE DEF old, new
      <4> QED BY <1>3, <1>6, <2>1, <3>5, <4>1, <4>2 DEF Live
    <3> QED BY <1>3, <3>2, <3>3, <3>4, <3>5
  <2>3. Live' \subseteq Places /\ Live \subseteq Places
    BY <2>1 DEF Live
  <2> HIDE DEF old, new
  <2> QED BY <1>4, <2>2, <2>3
<1>9. Worth[old] = Amount(v) /\ Worth[new] = Amount(v) /\ Amount(v) \in Nat
  BY <1>1, <1>4, AmountType DEF Worth
<1> HIDE DEF old, new
<1>10. Total(Live, Worth) = Amount(v) + Total(Live \ {old}, Worth)
  <2>1. \A x \in Live : Worth[x] \in Nat
    BY PlacesFinite
  <2> QED BY <1>7, <1>9, <2>1, PlacesFinite, TotalStep
<1>11. Total((Live \ {old}) \cup {new}, Worth) = Total(Live \ {old}, Worth) + Amount(v)
  <2>1. IsFiniteSet(Live \ {old}) /\ \A x \in Live \ {old} : Worth[x] \in Nat
    BY PlacesFinite, FS_RemoveElement
  <2>2. IsFiniteSet(UnitsOf(Live \ {old}, Worth))
    BY <2>1, TotalType
  <2>3. new \notin Live \ {old} /\ Worth[new] \in Nat
    BY <1>7, <1>9
  <2>4. Total((Live \ {old}) \cup {new}, Worth) = Total(Live \ {old}, Worth) + Worth[new]
    BY ONLY <2>2, <2>3, UnitsStep
  <2> QED BY <1>9, <2>4
<1>12. Total(Live \ {old}, Worth) \in Nat
  <2>1. IsFiniteSet(Live \ {old}) /\ \A x \in Live \ {old} : Worth[x] \in Nat
    BY PlacesFinite, FS_RemoveElement
  <2> QED BY <2>1, TotalType
<1>13. LiveTotal' = Total((Live \ {old}) \cup {new}, Worth)
  BY <1>8 DEF LiveTotal, Worth, Places
<1> QED BY <1>9, <1>10, <1>11, <1>12, <1>13 DEF LiveTotal

\* Cleaning a recycler takes the vouchers of the ring that were not unloaded.
LEMMA LiveClean ==
  ASSUME RecyclerInv, NEW v \in Values, clean_recycler(v)
  PROVE  LET n == Remaining(v, lastRemoved[v] + 1)
         IN /\ n \in Nat /\ Amount(v) * n \in Nat /\ Amount(v) * n <= LiveTotal
            /\ LiveTotal' = LiveTotal - Amount(v) * n
            /\ LiveTotal \in Nat
<1>1. PICK m \in Nat : m = lastRemoved[v]
  BY DEF RecyclerInv, RecyclerTypes
<1>2. PICK i \in Nat : i = m + 1
  BY <1>1
<1>3. /\ \A w \in Values : w # v => Recycler(w)' = Recycler(w)
      /\ Recycler(v)'.waiting = Recycler(v).waiting
      /\ \A j : RingKeys(Recycler(v)', j) = IF j = i THEN {} ELSE RingKeys(Recycler(v), j)
      /\ Recycler(v) = recyclers[v] /\ i \in 1..MaxRings
  BY <1>1, <1>2, CleanKeeps
<1>4. UNCHANGED unloaded
  BY DEF clean_recycler
<1> DEFINE R == RingKeys(Recycler(v), i)
           P == {<<v, i, k>> : k \in R}
           U == {x \in unloaded : x[1] = v /\ x[2] = i}
           G == P \ U
<1>5. R \in SUBSET Keys /\ IsFiniteSet(R)
  <2>1. R \in SUBSET Keys
    BY RecyclerFacts, RingFacts
  <2> QED BY <2>1, PlacesFinite, FS_Subset
<1>6. Cardinality(P) = Cardinality(R) /\ IsFiniteSet(P)
  <2> DEFINE f == [k \in R |-> <<v, i, k>>]
  <2>1. f \in [R -> P] /\ \A x, y \in R : f[x] = f[y] => x = y
    OBVIOUS
  <2>2. \A p \in P : \E k \in R : f[k] = p
    OBVIOUS
  <2> HIDE DEF f, P, R
  <2>3. f \in Bijection(R, P)
    BY <2>1, <2>2 DEF Bijection, Injection, Surjection, IsInjective
  <2> QED BY <1>5, <2>3, FS_Bijection DEF ExistsBijection
<1>7. U \in SUBSET P
  <2> SUFFICES ASSUME NEW x \in unloaded, x[1] = v, x[2] = i PROVE x \in P
    OBVIOUS
  <2>1. x[3] \in R \/ <<v, i>> \in dusting
    BY DEF RecyclerInv, AliasesKept
  <2>2. <<v, i>> \notin dusting
    <3>1. SUFFICES ASSUME <<v, i>> \in dusting PROVE FALSE
      OBVIOUS
    <3>2. <<v, i>>[2] <= lastRemoved[<<v, i>>[1]]
      BY <3>1 DEF RecyclerInv, AliasesKept
    <3> QED BY <1>1, <1>2, <3>2
  <2>3. x \in Values \X Nat \X Keys
    BY DEF RecyclerInv, RecyclerTypes
  <2>4. x = <<v, i, x[3]>>
    BY <2>3
  <2> HIDE DEF R
  <2> QED BY <2>1, <2>2, <2>4
<1>8. MaxRings \in Nat /\ i # 0 /\ P \subseteq Places
  BY <1>3, <1>5, CollectionAssumption DEF Places
<1>9. Live' = Live \ G /\ G \in SUBSET Live
  <2>1. Live' = {x \in Places :
                   \/ x[2] = 0 /\ x[3] \in Recycler(x[1])'.waiting
                   \/ x[2] # 0 /\ x[3] \in RingKeys(Recycler(x[1])', x[2]) /\ x \notin unloaded}
    BY <1>4 DEF Live, Places
  <2>2. ASSUME NEW x \in P PROVE x \in U <=> x \in unloaded
    OBVIOUS
  <2>3. ASSUME NEW x \in P PROVE x[1] = v /\ x[2] = i /\ x[3] \in RingKeys(Recycler(v), i)
    OBVIOUS
  <2>4. ASSUME NEW x \in Places, x[1] = v, x[2] = i, x[3] \in RingKeys(Recycler(v), i) PROVE x \in P
    <3>1. x = <<v, i, x[3]>>
      BY <2>4 DEF Places
    <3> QED BY <2>4, <3>1
  <2> HIDE DEF P, U, R
  <2>5. ASSUME NEW x \in Places PROVE x \in Live' <=> x \in Live /\ x \notin G
    <3>0. x[1] \in Values
      BY DEF Places
    <3>1. CASE x[1] # v
      <4>1. Recycler(x[1])' = Recycler(x[1]) /\ x \notin P
        BY <1>3, <2>3, <3>0, <3>1
      <4> QED BY <2>1, <4>1 DEF Live
    <3>2. CASE x[1] = v /\ x[2] # i
      <4>1. RingKeys(Recycler(v)', x[2]) = RingKeys(Recycler(v), x[2]) /\ x \notin P
        BY <1>3, <2>3, <3>2
      <4> QED BY <1>3, <2>1, <3>2, <4>1 DEF Live
    <3>3. CASE x[1] = v /\ x[2] = i
      <4>1. x \notin Live'
        BY <1>3, <1>8, <2>1, <3>3
      <4>2. x \in Live => x \in P /\ x \notin unloaded
        BY <1>8, <2>4, <3>3 DEF Live
      <4> QED BY <2>2, <4>1, <4>2
    <3> QED BY <3>1, <3>2, <3>3
  <2>6. Live' \subseteq Places /\ Live \subseteq Places
    BY <2>1 DEF Live
  <2>7. ASSUME NEW x \in G PROVE x \in Live
    <3>1. x \in P /\ x \in Places /\ x \notin unloaded
      BY <1>8, <2>2
    <3> QED BY <1>8, <2>3, <3>1 DEF Live
  <2> QED BY <2>5, <2>6, <2>7
<1>10. Remaining(v, i) = Cardinality(P) - Cardinality(U)
  BY <1>3, <1>6 DEF Remaining
<1>11. \A x \in P : x[1] = v
  OBVIOUS
<1> HIDE DEF P, U, R
<1>12. IsFiniteSet(G) /\ Cardinality(G) = Cardinality(P) - Cardinality(U) /\ Cardinality(G) \in Nat
  <2>1. P \cap U = U /\ IsFiniteSet(P)
    BY <1>6, <1>7
  <2>2. IsFiniteSet(P \ U) /\ Cardinality(P \ U) = Cardinality(P) - Cardinality(P \cap U)
    BY ONLY <2>1, FS_Difference
  <2>3. Cardinality(P \ U) \in Nat
    BY ONLY <2>2, FS_CardinalityType
  <2> QED BY <2>1, <2>2, <2>3
<1> DEFINE n == Cardinality(G)
<1>13. Total(G, Worth) = n * Amount(v) /\ Amount(v) \in Nat
  <2>1. \A x \in G : Worth[x] = Amount(v)
    BY <1>8, <1>11, PlacesFinite
  <2>2. Amount(v) \in Nat
    BY AmountType
  <2> HIDE DEF G
  <2> QED BY <1>12, <2>1, <2>2, TotalConstant
<1> HIDE DEF G
<1>14. /\ Total(Live \ G, Worth) = LiveTotal - Total(G, Worth) /\ Total(G, Worth) <= LiveTotal
       /\ LiveTotal \in Nat /\ Total(G, Worth) \in Nat
  <2>1. \A x \in Live : Worth[x] \in Nat
    BY PlacesFinite
  <2> QED BY <1>9, <2>1, PlacesFinite, TotalDifference DEF LiveTotal
<1>15. LiveTotal' = Total(Live \ G, Worth)
  BY <1>9 DEF LiveTotal, Worth, Places
<1>16. Remaining(v, lastRemoved[v] + 1) = n
  BY <1>1, <1>2, <1>10, <1>12
<1>17. n * Amount(v) = Amount(v) * n /\ n \in Nat
  BY <1>12, <1>13
<1> HIDE DEF n
<1> QED BY <1>13, <1>14, <1>15, <1>16, <1>17

-----------------------------------------------------------------------------
(* The ledger.                                                             *)

\* What is on hold covers everything in circulation, exactly.
Backed ==
  /\ held \in Nat /\ Circulating \in Nat /\ destroyed \in Nat
  /\ held = Circulating + destroyed

\* A step of the pallet that the ledger allows.
LedgerStep == Backed' /\ [Ledger!LedgerNext]_(Ledger!ledgerVars)

\* The sum of what circulates, after a step.
LEMMA CirculatingNext ==
  (RecyclerInv => /\ Circulating = CoinTotal(coins) + LiveTotal
                  /\ CoinTotal(coins) \in Nat /\ LiveTotal \in Nat)'
<1>1. RecyclerInv => /\ Circulating = CoinTotal(coins) + LiveTotal
                     /\ CoinTotal(coins) \in Nat /\ LiveTotal \in Nat
  BY CirculatingSum
<1> QED BY <1>1, PTL

\* Value that enters.
LEMMA DepositStep ==
  ASSUME Backed, RecyclerInv, RecyclerInv', NEW n \in Nat,
         CoinTotal(coins') + LiveTotal' = CoinTotal(coins) + LiveTotal + n,
         held' = held + n, UNCHANGED destroyed
  PROVE  LedgerStep
<1>1. Circulating = CoinTotal(coins) + LiveTotal /\ Circulating' = CoinTotal(coins') + LiveTotal'
  BY CirculatingSum, CirculatingNext
<1>2. Circulating' = Circulating + n
  BY <1>1
<1>3. Backed'
  BY <1>2 DEF Backed
<1>4. n \in 0..held'
  BY DEF Backed
<1>5. Ledger!Deposit(n)
  BY <1>2 DEF Ledger!Deposit
<1> QED BY <1>3, <1>4, <1>5 DEF LedgerStep, Ledger!LedgerNext

\* Value that is only moved.
LEMMA MoveStep ==
  ASSUME Backed, RecyclerInv, RecyclerInv',
         CoinTotal(coins') + LiveTotal' = CoinTotal(coins) + LiveTotal,
         UNCHANGED fundVars
  PROVE  LedgerStep
<1>1. /\ Circulating = CoinTotal(coins) + LiveTotal
      /\ Circulating \in Nat /\ held \in Nat
  BY CirculatingSum DEF Backed
<1>2. /\ CoinTotal(coins') + LiveTotal' = CoinTotal(coins) + LiveTotal + 0
      /\ held' = held + 0 /\ UNCHANGED destroyed /\ 0 \in Nat
  BY <1>1 DEF fundVars
<1> QED BY <1>2, DepositStep

\* Value that leaves or is destroyed.
LEMMA WithdrawStep ==
  ASSUME Backed, RecyclerInv, RecyclerInv', NEW n \in Nat, NEW burnt \in Nat,
         n + burnt <= CoinTotal(coins) + LiveTotal,
         CoinTotal(coins') + LiveTotal' = CoinTotal(coins) + LiveTotal - n - burnt,
         held' = held - n, destroyed' = destroyed + burnt
  PROVE  LedgerStep
<1>1. Circulating = CoinTotal(coins) + LiveTotal /\ Circulating' = CoinTotal(coins') + LiveTotal'
  BY CirculatingSum, CirculatingNext
<1>2. n + burnt <= Circulating /\ Circulating' = Circulating - n - burnt
  <2>1. CoinTotal(coins) \in Nat /\ LiveTotal \in Nat
    BY CirculatingSum
  <2> QED BY <1>1, <2>1
<1>3. Backed'
  BY <1>2 DEF Backed
<1>4. n \in 0..held /\ burnt \in 0..Circulating
  BY <1>2 DEF Backed
<1>5. Ledger!Withdraw(n, burnt)
  BY <1>2 DEF Ledger!Withdraw
<1> QED BY <1>3, <1>4, <1>5 DEF LedgerStep, Ledger!LedgerNext

\* While recyclers and aliases stay, so does the worth of vouchers.
LEMMA LiveStays ==
  ASSUME RecyclerInv, UNCHANGED <<recyclers, lastRemoved, unloaded>>
  PROVE  LiveTotal' = LiveTotal
<1>1. \A v : Recycler(v)' = Recycler(v)
  BY DEF Recycler
<1> QED BY <1>1, LiveSame

\* What the sums are before a step.
LEMMA SumTypes ==
  ASSUME RecyclerInv
  PROVE  /\ IsPartialFunction(coins, Accounts, Coin) /\ CoinTotal(coins) \in Nat
         /\ LiveTotal \in Nat /\ UnitAmount \in Nat
         /\ \A a \in DOMAIN coins :
              LET v == coins[a].value
              IN /\ v \in Values /\ Units(v) \in Nat /\ Amount(v) \in Nat
                 /\ Amount(v) = Units(v) * UnitAmount
<1>1. IsPartialFunction(coins, Accounts, Coin)
  BY DEF RecyclerInv, RecyclerTypes
<1>2. \A a \in DOMAIN coins : coins[a].value \in Values
  BY <1>1 DEF IsPartialFunction, Coin
<1> QED BY <1>1, <1>2, AmountType, CirculatingSum, CoinageAssumption

\* A coin is replaced by coins of the same value.
LEMMA Replaced ==
  ASSUME Backed, RecyclerInv, RecyclerInv', NEW a \in DOMAIN coins,
         NEW out, IsPartialFunction(out, Accounts, Values), DOMAIN out \cap DOMAIN coins = {},
         TotalUnits(out) = Units(coins[a].value), NEW age,
         coins' = WithCoins(Without(coins, a), out, age), UNCHANGED <<ringVars, fundVars>>
  PROVE  LedgerStep
<1> DEFINE rest == Without(coins, a)
<1>1. IsPartialFunction(coins, Accounts, Coin) /\ CoinTotal(coins) \in Nat
  BY SumTypes
<1>2. /\ CoinTotal(rest) = CoinTotal(coins) - Amount(coins[a].value)
      /\ Amount(coins[a].value) <= CoinTotal(coins)
  BY <1>1, CoinTaken
<1>3. IsPartialFunction(rest, Accounts, Coin) /\ DOMAIN out \cap DOMAIN rest = {}
  BY <1>1, WithoutType DEF Without
<1> HIDE DEF rest
<1>4. CoinTotal(WithCoins(rest, out, age)) = CoinTotal(rest) + TotalUnits(out) * UnitAmount
  BY <1>3, CoinsMade
<1>5. TotalUnits(out) * UnitAmount = Amount(coins[a].value) /\ Amount(coins[a].value) \in Nat
  BY SumTypes
<1>6. coins' = WithCoins(rest, out, age)
  BY DEF rest
<1>7. CoinTotal(coins') = CoinTotal(coins)
  <2>1. CoinTotal(coins') = CoinTotal(rest) + Amount(coins[a].value)
    BY <1>4, <1>5, <1>6, Zenon
  <2> QED BY <1>1, <1>2, <1>5, <2>1
<1>8. LiveTotal' = LiveTotal
  BY LiveStays DEF ringVars
<1> QED BY <1>7, <1>8, MoveStep

\* The calls of coin holders.
LEMMA CoinLedger ==
  ASSUME Backed, RecyclerInv, RecyclerInv', CoinNext
  PROVE  LedgerStep
<1> SUFFICES ASSUME NEW a \in Accounts,
                    \/ \E out \in Outputs : split(a, out)
                    \/ \E b \in Accounts : transfer(a, b)
                    \/ \E k \in Keys : load_recycler_with_coin(a, k)
                    \/ \E ok \in BOOLEAN : direct_offboard_coin_into_external_asset(a, ok)
                    \/ \E k \in PaidKeys, fee \in Fees, ok \in BOOLEAN :
                         pay_for_recycler_unload_fee_token_with_coin(a, k, fee, ok)
             PROVE  LedgerStep
  BY DEF CoinNext
<1> DEFINE v == coins[a].value
<1>0. a \in DOMAIN coins
  BY DEF split, transfer, load_recycler_with_coin, direct_offboard_coin_into_external_asset,
         pay_for_recycler_unload_fee_token_with_coin, CanUseCoin
<1>1. /\ IsPartialFunction(coins, Accounts, Coin) /\ CoinTotal(coins) \in Nat
      /\ LiveTotal \in Nat /\ UnitAmount \in Nat
      /\ v \in Values /\ Units(v) \in Nat /\ Amount(v) \in Nat
      /\ Amount(v) = Units(v) * UnitAmount
  BY <1>0, SumTypes
<1>2. ASSUME CoinSpent(a)
      PROVE  /\ CoinTotal(coins') = CoinTotal(coins) - Amount(v)
             /\ Amount(v) <= CoinTotal(coins)
  BY <1>0, <1>1, <1>2, CoinTaken DEF CoinSpent
<1>3. ASSUME DispatchFailed(a) PROVE LedgerStep
  <2>1. coins' = coins /\ UNCHANGED <<ringVars, fundVars>>
    BY <1>3 DEF DispatchFailed
  <2>2. LiveTotal' = LiveTotal
    BY <2>1, LiveStays DEF ringVars
  <2> QED BY <2>1, <2>2, MoveStep
<1>4. ASSUME NEW out \in Outputs, split(a, out) PROVE LedgerStep
  <2>1. /\ TotalUnits(out) = Units(coins[a].value) /\ UNCHANGED <<ringVars, fundVars>>
        /\ coins' = WithCoins(Without(coins, a), out, coins[a].age + 1)
    BY <1>4 DEF split
  <2>2. IsPartialFunction(out, Accounts, Values) /\ DOMAIN out \cap DOMAIN coins = {}
    BY OutputsType
  <2> QED BY <1>0, <2>1, <2>2, Replaced
<1>5. ASSUME NEW b \in Accounts, transfer(a, b) PROVE LedgerStep
  <2> DEFINE out == Insert(<<>>, b, coins[a].value)
  <2>1. /\ b \notin DOMAIN coins /\ UNCHANGED <<ringVars, fundVars>>
        /\ coins' = WithCoins(Without(coins, a), out, coins[a].age + 1)
    BY <1>5 DEF transfer
  <2>2. IsPartialFunction(out, Accounts, Values) /\ TotalUnits(out) = Units(coins[a].value)
    BY <1>1, OutputsType, OneMade
  <2>3. DOMAIN out \cap DOMAIN coins = {}
    BY <2>1 DEF Insert
  <2> HIDE DEF out
  <2> QED BY <1>0, <2>1, <2>2, <2>3, Replaced
<1>6. ASSUME NEW k \in Keys, load_recycler_with_coin(a, k) PROVE LedgerStep
  <2> DEFINE new == Insert(<<>>, k, v)
  <2>1. CASE DispatchFailed(a)
    BY <1>3, <2>1
  <2>2. CASE CoinSpent(a) /\ load(new) /\ UNCHANGED <<lastRemoved, unloaded, dusting, fundVars>>
    <3>1. CallOn({}, new)
      BY <1>1, <2>2, NewVouchersType DEF CallOn
    <3>2. TotalUnits(new) = Units(v)
      BY <1>1, OneMade
    <3> HIDE DEF new
    <3>3. LiveTotal' = LiveTotal - TotalAmount({}) + TotalUnits(new) * UnitAmount
      BY <3>1, LiveAfterCall
    <3>4. LiveTotal' = LiveTotal - 0 + Amount(v)
      BY <1>1, <3>2, <3>3, NothingWorth, Zenon
    <3>5. CoinTotal(coins') + LiveTotal' = CoinTotal(coins) + LiveTotal
      BY <1>1, <1>2, <2>2, <3>4
    <3> QED BY <2>2, <3>5, MoveStep
  <2> QED BY <1>6, <2>1, <2>2 DEF load_recycler_with_coin
<1>7. ASSUME NEW ok, direct_offboard_coin_into_external_asset(a, ok) PROVE LedgerStep
  <2>1. CASE DispatchFailed(a)
    BY <1>3, <2>1
  <2>2. CASE CoinSpent(a) /\ held' = held - Amount(v) /\ UNCHANGED <<ringVars, destroyed>>
    <3>1. LiveTotal' = LiveTotal
      BY <2>2, LiveStays DEF ringVars
    <3>2. /\ Amount(v) + 0 <= CoinTotal(coins) + LiveTotal
          /\ CoinTotal(coins') + LiveTotal' = CoinTotal(coins) + LiveTotal - Amount(v) - 0
          /\ destroyed' = destroyed + 0
      BY <1>1, <1>2, <2>2, <3>1 DEF Backed
    <3> HIDE DEF v
    <3> QED BY <1>1, <2>2, <3>2, WithdrawStep
  <2> QED BY <1>7, <2>1, <2>2 DEF direct_offboard_coin_into_external_asset
<1>8. ASSUME NEW k, NEW fee \in Fees, NEW ok,
             pay_for_recycler_unload_fee_token_with_coin(a, k, fee, ok)
      PROVE  LedgerStep
  <2>1. CASE DispatchFailed(a)
    BY <1>3, <2>1
  <2>2. CASE /\ CoinSpent(a) /\ held' = held - fee /\ Amount(v) >= fee
             /\ destroyed' = destroyed + (Amount(v) - fee) /\ UNCHANGED ringVars
    <3>1. LiveTotal' = LiveTotal
      BY <2>2, LiveStays DEF ringVars
    <3>2. fee \in Nat
      BY CoinageAssumption
    <3>3. PICK burnt \in Nat : burnt = Amount(v) - fee
      BY <1>1, <2>2, <3>2
    <3>4. /\ fee + burnt <= CoinTotal(coins) + LiveTotal
          /\ CoinTotal(coins') + LiveTotal' = CoinTotal(coins) + LiveTotal - fee - burnt
          /\ held' = held - fee /\ destroyed' = destroyed + burnt
      BY <1>1, <1>2, <2>2, <3>1, <3>2, <3>3
    <3> HIDE DEF v
    <3> QED BY <3>2, <3>4, WithdrawStep
  <2> QED BY <1>8, <2>1, <2>2 DEF pay_for_recycler_unload_fee_token_with_coin
<1> QED BY <1>4, <1>5, <1>6, <1>7, <1>8

\* The calls of signed accounts.
LEMMA SignedLedger ==
  ASSUME Backed, RecyclerInv, RecyclerInv', SignedNext
  PROVE  LedgerStep
<1>1. /\ CoinTotal(coins) \in Nat /\ LiveTotal \in Nat /\ UnitAmount \in Nat
      /\ destroyed \in Nat /\ held \in Nat
  BY SumTypes DEF Backed
<1>2. ASSUME NEW k, pay_for_recycler_unload_fee_token(k) PROVE LedgerStep
  <2>1. coins' = coins /\ UNCHANGED <<ringVars, fundVars>>
    BY <1>2 DEF pay_for_recycler_unload_fee_token, coinVars
  <2>2. LiveTotal' = LiveTotal
    BY <2>1, LiveStays DEF ringVars
  <2> QED BY <2>1, <2>2, MoveStep
<1>3. ASSUME NEW new, NEW n, n = TotalUnits(new) * UnitAmount,
             IsPartialFunction(new, Keys, Values), load(new), held' = held + n,
             UNCHANGED <<coins, lastRemoved, unloaded, destroyed>>
      PROVE  LedgerStep
  <2>1. CallOn({}, new)
    BY <1>3 DEF CallOn
  <2>2. /\ LiveTotal' = LiveTotal - TotalAmount({}) + TotalUnits(new) * UnitAmount
        /\ TotalUnits(new) * UnitAmount \in Nat
    BY <2>1, LiveAfterCall
  <2>3. LiveTotal' = LiveTotal - 0 + n /\ n \in Nat
    BY <1>3, <2>2, NothingWorth, Zenon
  <2>4. CoinTotal(coins') + LiveTotal' = CoinTotal(coins) + LiveTotal + n
    BY <1>1, <1>3, <2>3
  <2> QED BY <1>3, <2>3, <2>4, DepositStep
<1>4. ASSUME NEW k \in Keys, NEW v \in Values, load_recycler_with_external_asset(k, v)
      PROVE  LedgerStep
  <2> DEFINE new == Insert(<<>>, k, v)
  <2>1. /\ load(new) /\ held' = held + Amount(v)
        /\ UNCHANGED <<coins, lastRemoved, unloaded, destroyed>>
    BY <1>4 DEF load_recycler_with_external_asset, coinVars
  <2>2. IsPartialFunction(new, Keys, Values) /\ Amount(v) = TotalUnits(new) * UnitAmount
    BY NewVouchersType, OneMade, AmountType
  <2> HIDE DEF new
  <2> QED BY <1>3, <2>1, <2>2
<1>5. ASSUME NEW new \in NewVouchers, load_recycler_with_external_asset_unpaid(new)
      PROVE  LedgerStep
  <2>1. /\ load(new) /\ held' = held + TotalUnits(new) * UnitAmount
        /\ UNCHANGED <<coins, lastRemoved, unloaded, destroyed>>
    BY <1>5 DEF load_recycler_with_external_asset_unpaid, coinVars
  <2> QED BY <1>3, <2>1, NewVouchersType
<1>6. ASSUME NEW A \in SUBSET UNION {Vouchers(v, i) : v \in Values, i \in 1..MaxRings},
             unload_recyclers_into_external_asset_non_anonymous(A)
      PROVE  LedgerStep
  <2>1. A \in SUBSET RingVouchers
    BY VoucherFacts
  <2>2. /\ unload(A) /\ held' = held - TotalAmount(A)
        /\ UNCHANGED <<coins, recyclers, lastRemoved, destroyed>>
    BY <1>6 DEF unload_recyclers_into_external_asset_non_anonymous, coinVars
  <2>3. CallOn(A, <<>>)
    BY <2>1, <2>2 DEF CallOn
  <2>4. /\ LiveTotal' = LiveTotal - TotalAmount(A) + TotalUnits(<<>>) * UnitAmount
        /\ TotalAmount(A) \in Nat /\ TotalAmount(A) <= LiveTotal
    BY <2>3, LiveAfterCall
  <2>5. TotalUnits(<<>>) * UnitAmount = 0
    BY <1>1, NothingWorth
  <2>6. PICK n \in Nat : n = TotalAmount(A)
    BY <2>4
  <2>7. /\ n + 0 <= CoinTotal(coins) + LiveTotal
        /\ CoinTotal(coins') + LiveTotal' = CoinTotal(coins) + LiveTotal - n - 0
        /\ held' = held - n /\ destroyed' = destroyed + 0
    BY <1>1, <2>2, <2>4, <2>5, <2>6
  <2> QED BY <2>7, WithdrawStep
<1> QED BY <1>2, <1>4, <1>5, <1>6 DEF SignedNext

\* The anonymous calls.
LEMMA AnonymousLedger ==
  ASSUME Backed, RecyclerInv, RecyclerInv', AnonymousNext
  PROVE  LedgerStep
<1> SUFFICES ASSUME NEW v \in Values, NEW i \in 1..MaxRings,
                    NEW A \in SUBSET Vouchers(v, i),
                    \/ \E a \in Accounts : unload_recycler_into_coin(A, v, a)
                    \/ \E out \in Outputs, fee \in Fees : unload_recycler_into_coins(A, out, fee)
                    \/ \E fee \in Fees : unload_recycler_into_external_asset(A, fee)
                    \/ \E new \in NewVouchers, fee \in Fees :
                         unload_recycler_into_external_asset_and_vouchers(A, new, fee)
                    \/ PrepaidUnloadFails(A)
                    \/ \E x \in A : FromOutputUnloadFails(x)
             PROVE  LedgerStep
  BY DEF AnonymousNext
<1>1. /\ CoinTotal(coins) \in Nat /\ LiveTotal \in Nat /\ UnitAmount \in Nat
      /\ IsPartialFunction(coins, Accounts, Coin)
      /\ destroyed \in Nat /\ held \in Nat /\ Fees \subseteq Nat
  BY SumTypes, CoinageAssumption DEF Backed
<1>2. A \in SUBSET RingVouchers /\ (\A x \in A : x[1] = v) /\ IsFiniteSet(A)
  <2>1. A \in SUBSET RingVouchers /\ (\A x \in A : x[1] = v)
    BY VoucherFacts
  <2>2. MaxRings \in Nat
    BY CollectionAssumption
  <2>3. A \in SUBSET Places
    BY <2>1, <2>2 DEF RingVouchers, Places
  <2> QED BY <2>1, <2>3, PlacesFinite, FS_Subset
<1>3. ASSUME unload(A), UNCHANGED <<recyclers, lastRemoved>>
      PROVE  /\ LiveTotal' = LiveTotal - TotalAmount(A)
             /\ TotalAmount(A) \in Nat /\ TotalAmount(A) <= LiveTotal
  <2>1. CallOn(A, <<>>)
    BY <1>2, <1>3 DEF CallOn
  <2>2. /\ LiveTotal' = LiveTotal - TotalAmount(A) + TotalUnits(<<>>) * UnitAmount
        /\ TotalAmount(A) \in Nat /\ TotalAmount(A) <= LiveTotal
    BY <2>1, LiveAfterCall
  <2>3. TotalUnits(<<>>) * UnitAmount = 0
    BY <1>1, NothingWorth
  <2> QED BY <1>1, <2>2, <2>3
<1>4. ASSUME NEW a \in Accounts, unload_recycler_into_coin(A, v, a) PROVE LedgerStep
  <2>1. PICK e \in Values :
          /\ Cardinality(A) = 2 ^ e /\ v + e \in Values
          /\ coins' = WithCoins(coins, Insert(<<>>, a, v + e), 0)
    BY <1>4 DEF unload_recycler_into_coin
  <2>2. /\ a \notin DOMAIN coins /\ unload(A)
        /\ UNCHANGED <<recyclers, lastRemoved, fundVars>>
    BY <1>4 DEF unload_recycler_into_coin
  <2>3. PICK w \in Values : w = v + e
    BY <2>1
  <2> DEFINE out == Insert(<<>>, a, w)
  <2>4. IsPartialFunction(out, Accounts, Values) /\ TotalUnits(out) = Units(w)
    BY OutputsType, OneMade
  <2>5. DOMAIN out \cap DOMAIN coins = {} /\ coins' = WithCoins(coins, out, 0)
    BY <2>1, <2>2, <2>3 DEF Insert
  <2> HIDE DEF out
  <2>6. CoinTotal(coins') = CoinTotal(coins) + Units(w) * UnitAmount
    BY <1>1, <2>4, <2>5, CoinsMade
  <2>7. Units(w) * UnitAmount = TotalAmount(A)
    <3>1. TotalAmount(A) = 2 ^ e * Amount(v)
      BY <1>2, <2>1, SameAmount
    <3>2. v \in Nat /\ e \in Nat /\ Units(v) \in Nat /\ Amount(v) = Units(v) * UnitAmount
      BY AmountType
    <3>3. PICK p \in Nat : p = 2 ^ e
      BY <3>2, PowerType
    <3>4. Units(w) = Units(v) * p
      BY <2>3, <3>2, <3>3, PowerSum DEF Units
    <3>5. \A x, y, z \in Nat : x * y * z = y * (x * z)
      OBVIOUS
    <3> QED BY <1>1, <3>1, <3>2, <3>3, <3>4, <3>5
  <2>8. CoinTotal(coins') + LiveTotal' = CoinTotal(coins) + LiveTotal
    BY <1>1, <1>3, <2>2, <2>6, <2>7
  <2> QED BY <2>2, <2>8, MoveStep
<1>5. ASSUME NEW out \in Outputs, NEW fee \in Fees, unload_recycler_into_coins(A, out, fee)
      PROVE  LedgerStep
  <2>1. /\ unload(A) /\ coins' = WithCoins(coins, out, 1)
        /\ UNCHANGED <<recyclers, lastRemoved>>
    BY <1>5 DEF unload_recycler_into_coins
  <2>2. IsPartialFunction(out, Accounts, Values) /\ DOMAIN out \cap DOMAIN coins = {}
    BY OutputsType
  <2>3. /\ CoinTotal(coins') = CoinTotal(coins) + TotalUnits(out) * UnitAmount
        /\ TotalUnits(out) * UnitAmount \in Nat
    BY <1>1, <2>1, <2>2, CoinsMade
  <2>4. PICK t \in Nat : t = TotalAmount(A)
    BY <1>3, <2>1
  <2>5. PICK u \in Nat : u = TotalUnits(out) * UnitAmount
    BY <2>3
  <2>6. /\ CoinTotal(coins') + LiveTotal' = CoinTotal(coins) + LiveTotal - t + u
        /\ t <= LiveTotal
    BY <1>1, <1>3, <2>1, <2>3, <2>4, <2>5
  <2>7. CASE t - u = 0 /\ UNCHANGED fundVars
    <3>1. CoinTotal(coins') + LiveTotal' = CoinTotal(coins) + LiveTotal
      BY <1>1, <2>6, <2>7
    <3> QED BY <2>7, <3>1, MoveStep
  <2>8. CASE t - u >= fee /\ held' = held - fee /\ destroyed' = destroyed + (t - u - fee)
    <3>1. fee \in Nat
      BY <1>1
    <3>2. PICK burnt \in Nat : burnt = t - u - fee
      BY <2>8, <3>1
    <3>3. /\ fee + burnt <= CoinTotal(coins) + LiveTotal
          /\ CoinTotal(coins') + LiveTotal' = CoinTotal(coins) + LiveTotal - fee - burnt
      BY <1>1, <2>6, <3>1, <3>2
    <3>4. held' = held - fee /\ destroyed' = destroyed + burnt
      BY <2>8, <3>2
    <3> QED BY <3>1, <3>3, <3>4, WithdrawStep
  <2> QED BY <1>5, <2>4, <2>5, <2>7, <2>8 DEF unload_recycler_into_coins, ChangeBurnt
<1>6. ASSUME NEW fee \in Fees, unload_recycler_into_external_asset(A, fee)
      PROVE  LedgerStep
  <2>1. /\ unload(A) /\ coins' = coins /\ held' = held - TotalAmount(A)
        /\ UNCHANGED <<recyclers, lastRemoved, destroyed>>
    BY <1>6 DEF unload_recycler_into_external_asset, coinVars
  <2>2. PICK t \in Nat : t = TotalAmount(A)
    BY <1>3, <2>1
  <2>3. /\ t + 0 <= CoinTotal(coins) + LiveTotal
        /\ CoinTotal(coins') + LiveTotal' = CoinTotal(coins) + LiveTotal - t - 0
        /\ held' = held - t /\ destroyed' = destroyed + 0
    BY <1>1, <1>3, <2>1, <2>2
  <2> QED BY <2>3, WithdrawStep
<1>7. ASSUME NEW new \in NewVouchers, NEW fee \in Fees,
             unload_recycler_into_external_asset_and_vouchers(A, new, fee)
      PROVE  LedgerStep
  <2>1. /\ unload(A) /\ load(new) /\ coins' = coins
        /\ UNCHANGED <<lastRemoved, destroyed>>
    BY <1>7 DEF unload_recycler_into_external_asset_and_vouchers, coinVars
  <2>2. CallOn(A, new)
    BY <1>2, <2>1, NewVouchersType DEF CallOn
  <2>3. /\ LiveTotal' = LiveTotal - TotalAmount(A) + TotalUnits(new) * UnitAmount
        /\ TotalAmount(A) \in Nat /\ TotalAmount(A) <= LiveTotal
        /\ TotalUnits(new) * UnitAmount \in Nat
    BY <2>2, LiveAfterCall
  <2>4. PICK t \in Nat : t = TotalAmount(A)
    BY <2>3
  <2>5. PICK u \in Nat : u = TotalUnits(new) * UnitAmount
    BY <2>3
  <2>6. t - u >= 0 /\ held' = held - (t - u)
    BY <1>7, <2>4, <2>5 DEF unload_recycler_into_external_asset_and_vouchers
  <2>7. PICK n \in Nat : n = t - u
    BY <2>6
  <2>8. /\ n + 0 <= CoinTotal(coins) + LiveTotal
        /\ CoinTotal(coins') + LiveTotal' = CoinTotal(coins) + LiveTotal - n - 0
        /\ held' = held - n /\ destroyed' = destroyed + 0
    BY <1>1, <2>1, <2>3, <2>4, <2>5, <2>6, <2>7
  <2> QED BY <2>8, WithdrawStep
<1>8. ASSUME PrepaidUnloadFails(A) PROVE LedgerStep
  <2>1. coins' = coins /\ UNCHANGED <<ringVars, fundVars>>
    BY <1>8 DEF PrepaidUnloadFails, coinVars
  <2>2. LiveTotal' = LiveTotal
    BY <2>1, LiveStays DEF ringVars
  <2> QED BY <2>1, <2>2, MoveStep
<1>9. ASSUME NEW x \in A, FromOutputUnloadFails(x) PROVE LedgerStep
  <2>1. /\ unload({x}) /\ coins' = coins /\ destroyed' = destroyed + Amount(x[1])
        /\ UNCHANGED <<recyclers, lastRemoved, held>>
    BY <1>9 DEF FromOutputUnloadFails, coinVars
  <2>2. CallOn({x}, <<>>)
    BY <1>2, <2>1 DEF CallOn
  <2>3. /\ LiveTotal' = LiveTotal - TotalAmount({x}) + TotalUnits(<<>>) * UnitAmount
        /\ TotalAmount({x}) \in Nat /\ TotalAmount({x}) <= LiveTotal
    BY <2>2, LiveAfterCall
  <2>4. TotalUnits(<<>>) * UnitAmount = 0
    BY <1>1, NothingWorth
  <2>5. TotalAmount({x}) = Amount(v) /\ x[1] = v
    <3>1. x[1] = v /\ IsFiniteSet({x}) /\ Cardinality({x}) = 1 /\ Amount(v) \in Nat
      BY <1>2, FS_Singleton, AmountType
    <3>2. TotalAmount({x}) = Cardinality({x}) * Amount(v)
      BY <3>1, SameAmount
    <3> QED BY <3>1, <3>2
  <2>6. PICK n \in Nat : n = Amount(v)
    BY AmountType
  <2>7. /\ 0 + n <= CoinTotal(coins) + LiveTotal
        /\ CoinTotal(coins') + LiveTotal' = CoinTotal(coins) + LiveTotal - 0 - n
        /\ held' = held - 0 /\ destroyed' = destroyed + n
    BY <1>1, <2>1, <2>3, <2>4, <2>5, <2>6
  <2> QED BY <2>7, WithdrawStep
<1> QED BY <1>4, <1>5, <1>6, <1>7, <1>8, <1>9

\* Maintenance.
LEMMA MaintenanceLedger ==
  ASSUME Backed, RecyclerInv, RecyclerInv', MaintenanceNext
  PROVE  LedgerStep
<1>1. /\ CoinTotal(coins) \in Nat /\ LiveTotal \in Nat /\ UnitAmount \in Nat
      /\ destroyed \in Nat /\ held \in Nat
  BY SumTypes DEF Backed
<1>2. ASSUME UNCHANGED <<coins, held, destroyed>>, LiveTotal' = LiveTotal PROVE LedgerStep
  BY <1>2, MoveStep DEF fundVars
<1>3. CASE set_underlying_asset_id
  BY <1>2, <1>3, LiveStays DEF set_underlying_asset_id, coinVars, ringVars, fundVars
<1>4. CASE do_initialize
  <2>1. /\ recyclers' = WithRecyclers(Values)
        /\ UNCHANGED <<coins, unloaded, held, destroyed>>
    BY <1>4 DEF do_initialize, coinVars, fundVars
  <2>2. DOMAIN recyclers \subseteq Values
    BY DEF RecyclerInv, RecyclerTypes, IsPartialFunction
  <2>3. DOMAIN recyclers' = Values /\ \A v \in Values : recyclers'[v] = Recycler(v)
    BY <2>1, <2>2, WithRecyclersFacts
  <2>4. \A v \in Values : Recycler(v)' = Recycler(v)
    BY <2>3 DEF Recycler
  <2>5. LiveTotal' = LiveTotal
    BY <2>1, <2>4, LiveSame
  <2> QED BY <1>2, <2>1, <2>5
<1>5. ASSUME NEW v \in Values, clean_recycler(v) PROVE LedgerStep
  <2>1. PICK n : n = Amount(v) * Remaining(v, lastRemoved[v] + 1)
    OBVIOUS
  <2>2. n \in Nat /\ n <= LiveTotal /\ LiveTotal' = LiveTotal - n
    BY <1>5, <2>1, LiveClean
  <2>3. coins' = coins /\ held' = held /\ destroyed' = destroyed + n
    BY <1>5, <2>1 DEF clean_recycler, coinVars
  <2>4. /\ 0 + n <= CoinTotal(coins) + LiveTotal
        /\ CoinTotal(coins') + LiveTotal' = CoinTotal(coins) + LiveTotal - 0 - n
        /\ held' = held - 0
    BY <1>1, <2>2, <2>3
  <2> QED BY <2>2, <2>3, <2>4, WithdrawStep
<1>6. ASSUME NEW ring \in dusting, NEW batch \in SUBSET unloaded,
             clean_recycler_dust(ring, batch)
      PROVE  LedgerStep
  <2>1. /\ batch \subseteq {x \in unloaded : <<x[1], x[2]>> = ring}
        /\ unloaded' = unloaded \ batch
        /\ UNCHANGED <<coins, recyclers, held, destroyed>>
    BY <1>6 DEF clean_recycler_dust, BatchOf, coinVars, fundVars
  <2>2. \A v : Recycler(v)' = Recycler(v)
    BY <2>1 DEF Recycler
  <2>3. ASSUME NEW x \in Places, x[3] \in RingKeys(Recycler(x[1]), x[2])
        PROVE  x \notin batch
    <3>1. SUFFICES ASSUME <<x[1], x[2]>> = ring PROVE FALSE
      BY <2>1
    <3>2. x[2] <= lastRemoved[x[1]]
      <4>1. ring[2] <= lastRemoved[ring[1]]
        BY DEF RecyclerInv, AliasesKept
      <4>2. ring[1] = x[1] /\ ring[2] = x[2]
        BY <3>1
      <4> QED BY <4>1, <4>2
    <3>3. x[1] \in Values /\ x[2] \in Nat
      BY CollectionAssumption DEF Places
    <3>4. RingKeys(Recycler(x[1]), x[2]) = {}
      BY <3>2, <3>3 DEF RecyclerInv, RingsRemovedInOrder, RemovedUpTo
    <3> QED BY <2>3, <3>4
  <2>4. LiveTotal' = LiveTotal
    BY <2>1, <2>2, <2>3, LiveSame
  <2> QED BY <1>2, <2>1, <2>4
<1>7. ASSUME NEW v \in DOMAIN recyclers, MembersWork(v) PROVE LedgerStep
  <2>1. UNCHANGED <<coins, lastRemoved, coinToRecycler, unloaded, dusting, held, destroyed>>
    BY <1>7 DEF MembersWork, coinVars, fundVars
  <2>2. ASSUME NEW k \in Keys, CanOnboard(recyclers[v], k),
               recyclers' = [recyclers EXCEPT ![v] = Onboarded(@, k, now)]
        PROVE  LiveTotal' = LiveTotal
    BY <2>1, <2>2, LiveOnboard
  <2>3. ASSUME NEW page, recyclers' = [recyclers EXCEPT ![v] = delete_ring_page(@, page)]
        PROVE  LiveTotal' = LiveTotal
    <3>1. \A w \in Values :
            /\ Recycler(w)'.waiting = Recycler(w).waiting
            /\ \A i : RingKeys(Recycler(w)', i) = RingKeys(Recycler(w), i)
      BY <2>1, <2>3, PagesKeep
    <3> QED BY <2>1, <3>1, LiveSame
  <2>4. LiveTotal' = LiveTotal
    BY <1>7, <2>2, <2>3 DEF MembersWork
  <2> QED BY <1>2, <2>1, <2>4
<1>8. CASE UNCHANGED <<setupVars, coinVars, ringVars, fundVars>>
  BY <1>2, <1>8, LiveStays DEF coinVars, ringVars, fundVars
<1> QED BY <1>3, <1>4, <1>5, <1>6, <1>7, <1>8 DEF MaintenanceNext

\* Every step of the pallet is one of the ledger, or leaves it alone.
LEMMA LedgerSteps ==
  Backed /\ RecyclerInv /\ RecyclerInv' /\ [Next]_vars => LedgerStep
<1> SUFFICES ASSUME Backed, RecyclerInv, RecyclerInv', [Next]_vars PROVE LedgerStep
  OBVIOUS
<1>1. CASE UNCHANGED vars
  <2>1. coins' = coins /\ UNCHANGED <<ringVars, fundVars>>
    BY <1>1 DEF vars, coinVars
  <2>2. LiveTotal' = LiveTotal
    BY <2>1, LiveStays DEF ringVars
  <2> QED BY <2>1, <2>2, MoveStep
<1> QED BY <1>1, CoinLedger, SignedLedger, AnonymousLedger, MaintenanceLedger DEF Next

\* Nothing circulates in the beginning.
LEMMA LedgerStart == Init => Backed /\ Ledger!LedgerInit
<1> SUFFICES ASSUME Init PROVE Backed /\ Ledger!LedgerInit
  OBVIOUS
<1>1. /\ held = 0 /\ destroyed = 0 /\ coins = <<>> /\ recyclers = <<>>
  BY DEF Init
<1>2. Circulating = CoinTotal(coins) + LiveTotal
  BY RecyclerInit, CirculatingSum
<1>3. CoinTotal(coins) = 0
  <2>1. DOMAIN coins = {}
    BY <1>1
  <2> QED BY <2>1, TotalStep DEF CoinTotal
<1>4. LiveTotal = 0
  <2>1. Live = {}
    BY <1>1, EmptyCollection DEF Live, Recycler
  <2> QED BY <2>1, TotalStep DEF LiveTotal
<1>5. Circulating = 0
  BY <1>2, <1>3, <1>4
<1> QED BY <1>1, <1>5 DEF Backed, Ledger!LedgerInit

\* All invariants of the pallet.
PalletInv == SpentInv /\ KeptInv /\ RecyclerInv /\ Backed

\* They hold in every reachable state.
LEMMA PalletInvariant == Spec => []PalletInv
<1>1. Init => PalletInv
  BY SpentInit, KeptInit, RecyclerInit, LedgerStart DEF Init, PalletInv
<1>2. PalletInv /\ [Next]_vars => PalletInv'
  <2> SUFFICES ASSUME PalletInv, [Next]_vars PROVE PalletInv'
    OBVIOUS
  <2>1. SpentInv' /\ KeptInv'
    BY TokensStep DEF PalletInv
  <2>2. RecyclerInv'
    BY <2>1, RecyclerStep DEF PalletInv, SpentInv
  <2>3. Backed'
    BY <2>2, LedgerSteps DEF PalletInv, LedgerStep
  <2> QED BY <2>1, <2>2, <2>3 DEF PalletInv
<1> QED BY <1>1, <1>2, PTL DEF Spec

\* What is on hold is at any time worth the coins and vouchers in circulation
\* and what was destroyed: whoever holds a coin or a voucher can withdraw it.
THEOREM BackedCorrect == Spec => []Backed
<1>1. PalletInv => Backed
  BY DEF PalletInv
<1> QED BY PalletInvariant, <1>1, PTL

\* The pallet keeps the promise of the ledger: whatever a call does to coins,
\* rings and aliases, a deposit, a withdrawal or burnt change is all that
\* whoever wrapped the asset can see of it.
THEOREM ImplementsLedgerCorrect == Spec => ImplementsLedger
<1>1. Init => Ledger!LedgerInit
  BY LedgerStart
<1>2. PalletInv /\ PalletInv' /\ [Next]_vars => [Ledger!LedgerNext]_(Ledger!ledgerVars)
  BY LedgerSteps DEF PalletInv, LedgerStep
<1> QED BY PalletInvariant, <1>1, <1>2, PTL DEF Spec, ImplementsLedger, Ledger!LedgerSpec
==============================================================================
