---------------------- MODULE MembersSubscriber_proofs ----------------------
(***************************************************************************)
(* The books of a subscriber, for any stream of messages whatever and any  *)
(* number of collections, rings, updates in a message and limits.          *)
(***************************************************************************)
EXTENDS MembersSubscriber, StorageMaps_proofs

-----------------------------------------------------------------------------
(* Types.                                                                  *)

\* The stored roots of a collection, its index sets and its state.
Windows == [RingIndices -> Seq(Nat)]
MissingType == UNION {[D -> Nat] : D \in SUBSET RingIndices}
StateType == [ring_count : Int, next_ring_index : 0..(MaxRingIndex + 1),
              missing_indices : MissingType, deleted_indices : SUBSET RingIndices]

\* An update for one collection and a set of different rings, as sent.
IsBatch(m) ==
  /\ m.identifier \in Collections
  /\ m.sequence \in Nat /\ m.next_ring_index \in 0..(MaxRingIndex + 1)
  /\ IsPartialFunction(m.updates, RingIndices, Nat \cup {Deleted})

\* The books of one collection, as a function of its windows and its state.
BooksExact(windows, state) ==
  LET stored == StoredIn(windows)
      missing == DOMAIN state.missing_indices
  IN /\ state.ring_count = Cardinality(stored)
     /\ stored \cap state.deleted_indices = {}
     /\ missing \cap (stored \cup state.deleted_indices) = {}
     /\ \A r \in missing : /\ r < state.next_ring_index
                            /\ state.missing_indices[r] < ReplayAbandonThreshold
     /\ Cardinality(missing) <= MaxMissingRootsPerCollection
     /\ Cardinality(state.deleted_indices) <= MaxDeletedRingsPerCollection

\* Only finitely many rings: every set of them is finite.
LEMMA RingsFinite ==
  /\ IsFiniteSet(RingIndices)
  /\ Cardinality(RingIndices) = MaxRingIndex + 1
  /\ \A T \in SUBSET RingIndices : IsFiniteSet(T) /\ Cardinality(T) \in Nat
<1>1. IsFiniteSet(RingIndices) /\ Cardinality(RingIndices) = MaxRingIndex + 1
  <2>1. 0 \in Int /\ MaxRingIndex \in Int /\ MaxRingIndex >= 0
    BY SubscriberAssumption
  <2>2. IsFiniteSet(0..MaxRingIndex)
        /\ Cardinality(0..MaxRingIndex) = IF 0 > MaxRingIndex THEN 0 ELSE MaxRingIndex - 0 + 1
    BY <2>1, FS_Interval
  <2> QED BY <2>1, <2>2 DEF RingIndices
<1>2. \A T \in SUBSET RingIndices : IsFiniteSet(T) /\ Cardinality(T) \in Nat
  BY <1>1, FS_Subset, FS_CardinalityType
<1> QED BY <1>1, <1>2

\* The updates of a message are of known rings.
LEMMA BatchSets ==
  ASSUME NEW m, IsBatch(m)
  PROVE  /\ BuiltIn(m) \in SUBSET RingIndices /\ DeletedIn(m) \in SUBSET RingIndices
         /\ BuiltIn(m) \cap DeletedIn(m) = {}
         /\ BuiltIn(m) \cup DeletedIn(m) = DOMAIN m.updates
         /\ \A r \in BuiltIn(m) : m.updates[r] \in Nat
BY DEF IsBatch, IsPartialFunction, BuiltIn, DeletedIn

-----------------------------------------------------------------------------
(* The windows and ring_count.                                             *)

\* A batch stores the rings it says were built and drops the deleted ones.
LEMMA StoredAfter ==
  ASSUME NEW windows \in Windows, NEW m, IsBatch(m)
  PROVE  /\ StoreWindows(windows, m) \in Windows
         /\ StoredIn(StoreWindows(windows, m))
              = (StoredIn(windows) \ DeletedIn(m)) \cup BuiltIn(m)
<1>1. ASSUME NEW r \in RingIndices
      PROVE  /\ StoreWindow(windows[r], r, m) \in Seq(Nat)
             /\ StoreWindow(windows[r], r, m) # <<>>
                  <=> r \in (StoredIn(windows) \ DeletedIn(m)) \cup BuiltIn(m)
  <2>1. windows[r] \in Seq(Nat)
    BY DEF Windows
  <2>2. CASE r \in DeletedIn(m)
    <3>0. r \notin BuiltIn(m)
      BY <2>2, BatchSets
    <3>1. StoreWindow(windows[r], r, m) = <<>>
      BY <2>2, <3>0 DEF StoreWindow
    <3> QED BY <2>2, <3>0, <3>1
  <2>3. CASE r \in BuiltIn(m)
    <3>1. r \notin DeletedIn(m) /\ m.updates[r] \in Nat
      BY <2>3, BatchSets
    <3>2. PICK w \in Seq(Nat) : StoreWindow(windows[r], r, m) = Append(w, m.updates[r])
      <4>1. CASE Len(windows[r]) = MaxRecentRootsPerRing
        <5>1. Len(windows[r]) > 0
          BY <4>1, SubscriberAssumption
        <5>2. Tail(windows[r]) \in Seq(Nat)
          BY <2>1, <5>1
        <5> QED BY <2>3, <3>1, <4>1, <5>2 DEF StoreWindow
      <4>2. CASE Len(windows[r]) # MaxRecentRootsPerRing
        BY <2>1, <2>3, <3>1, <4>2 DEF StoreWindow
      <4> QED BY <4>1, <4>2
    <3>3. Append(w, m.updates[r]) \in Seq(Nat) /\ Append(w, m.updates[r]) # <<>>
      <4>1. PICK v \in Nat : v = m.updates[r]
        BY <3>1
      <4>2. Append(w, v) \in Seq(Nat) /\ Len(Append(w, v)) = Len(w) + 1 /\ Len(w) \in Nat
        OBVIOUS
      <4>3. Append(w, v) # <<>>
        BY <4>2
      <4> QED BY <4>1, <4>2, <4>3
    <3> QED BY <2>3, <3>2, <3>3
  <2>4. CASE r \notin DeletedIn(m) \cup BuiltIn(m)
    <3>1. StoreWindow(windows[r], r, m) = windows[r]
      BY <2>4 DEF StoreWindow
    <3> QED BY <2>1, <2>4, <3>1 DEF StoredIn
  <2> QED BY <2>2, <2>3, <2>4
<1>2. StoreWindows(windows, m) \in Windows
  BY <1>1 DEF StoreWindows, Windows
<1>3. \A r \in RingIndices : StoreWindows(windows, m)[r] = StoreWindow(windows[r], r, m)
  BY DEF StoreWindows
<1>4. StoredIn(windows) \in SUBSET RingIndices /\ BuiltIn(m) \in SUBSET RingIndices
  BY BatchSets DEF StoredIn
<1>5. \A r : r \in StoredIn(StoreWindows(windows, m))
               <=> r \in (StoredIn(windows) \ DeletedIn(m)) \cup BuiltIn(m)
  BY <1>1, <1>3, <1>4 DEF StoredIn
<1> QED BY <1>2, <1>5

\* The elements of disjoint sets are counted separately.
LEMMA DisjointCount ==
  ASSUME NEW A, IsFiniteSet(A), NEW B, IsFiniteSet(B), A \cap B = {}
  PROVE  Cardinality(A \cup B) = Cardinality(A) + Cardinality(B)
<1>1. Cardinality(A \cup B) = Cardinality(A) + Cardinality(B) - Cardinality(A \cap B)
  BY FS_Union
<1>2. Cardinality(A \cap B) = 0
  BY FS_EmptySet
<1>3. Cardinality(A) \in Nat /\ Cardinality(B) \in Nat
  BY FS_CardinalityType
<1> QED BY <1>1, <1>2, <1>3

\* Counting by hand counts right: what is new is added, what was there and is
\* dropped is taken off.
LEMMA CountAfter ==
  ASSUME NEW stored \in SUBSET RingIndices, NEW built \in SUBSET RingIndices,
         NEW deleted \in SUBSET RingIndices, built \cap deleted = {}
  PROVE  Cardinality((stored \ deleted) \cup built)
           = Cardinality(stored) + Cardinality(built \ stored)
               - Cardinality(deleted \cap stored)
<1>1. PICK kept \in SUBSET RingIndices : kept = stored \ deleted
  OBVIOUS
<1>2. PICK new \in SUBSET RingIndices : new = built \ stored
  OBVIOUS
<1>3. PICK gone \in SUBSET RingIndices : gone = deleted \cap stored
  OBVIOUS
<1>4. /\ (stored \ deleted) \cup built = kept \cup new
      /\ kept \cap new = {}
      /\ stored = kept \cup gone /\ kept \cap gone = {}
  BY <1>1, <1>2, <1>3
<1>5. /\ IsFiniteSet(kept) /\ IsFiniteSet(new) /\ IsFiniteSet(gone)
      /\ Cardinality(kept) \in Nat /\ Cardinality(new) \in Nat /\ Cardinality(gone) \in Nat
  BY RingsFinite
<1>6. Cardinality(kept \cup new) = Cardinality(kept) + Cardinality(new)
  BY <1>4, <1>5, DisjointCount
<1>7. Cardinality(kept \cup gone) = Cardinality(kept) + Cardinality(gone)
  BY <1>4, <1>5, DisjointCount
<1>8. Cardinality((stored \ deleted) \cup built) = Cardinality(kept) + Cardinality(new)
  BY <1>4, <1>6
<1>9. Cardinality(stored) = Cardinality(kept) + Cardinality(gone)
  BY <1>4, <1>7
<1> QED BY <1>2, <1>3, <1>5, <1>8, <1>9

-----------------------------------------------------------------------------
(* The limits of the index sets.                                           *)

\* The smallest members of a set, as many as there is room for.
LEMMA SmallestBound ==
  ASSUME NEW T \in SUBSET RingIndices, NEW room \in Nat
  PROVE  /\ Smallest(T, room) \in SUBSET T
         /\ Cardinality(Smallest(T, room)) <= room
<1>1. PICK U \in SUBSET T : U = Smallest(T, room)
  BY DEF Smallest
<1>2. IsFiniteSet(U) /\ U \in SUBSET Int
  BY RingsFinite DEF RingIndices
<1>3. CASE U = {}
  <2>1. Cardinality(U) = 0
    BY <1>3, FS_EmptySet
  <2> QED BY <1>1, <2>1
<1>4. CASE U # {}
  <2>1. PICK x \in U : \A y \in U : x >= y
    BY <1>2, <1>4, MaxExists
  <2>2. PICK below \in SUBSET T : below = {q \in T : q < x}
    OBVIOUS
  <2>3. IsFiniteSet(below) /\ Cardinality(below) \in Nat
    BY RingsFinite
  <2>4. Cardinality(below) < room
    BY <1>1, <2>1, <2>2 DEF Smallest
  <2>5. U \subseteq below \cup {x}
    BY <1>2, <2>1, <2>2
  <2>6. IsFiniteSet(below \cup {x})
        /\ Cardinality(below \cup {x}) = IF x \in below THEN Cardinality(below)
                                                        ELSE Cardinality(below) + 1
    BY <2>3, FS_AddElement
  <2>7. Cardinality(U) \in Nat /\ Cardinality(U) <= Cardinality(below \cup {x})
    BY <1>2, <2>5, <2>6, FS_Subset, FS_CardinalityType
  <2>8. Cardinality(U) <= Cardinality(below) + 1
    BY <2>3, <2>6, <2>7
  <2> QED BY <1>1, <2>3, <2>4, <2>7, <2>8
<1> QED BY <1>3, <1>4

\* Which rings count as deleted when the update of ring r is stored.
DeletedBefore(tracked, deleted, m, r) ==
  (deleted \ {q \in BuiltIn(m) : q < r}) \cup {q \in tracked : q < r}
\* Ring r is marked deleted already, or there is room to mark it.
HasPlace(tracked, deleted, m, r) ==
  LET before == DeletedBefore(tracked, deleted, m, r)
  IN r \in before \/ Cardinality(before) < MaxDeletedRingsPerCollection

\* The deletions that are tracked are well defined: decided in ascending order.
LEMMA TrackedExists ==
  ASSUME NEW deleted \in SUBSET RingIndices, NEW m, IsBatch(m)
  PROVE  \E tracked \in SUBSET DeletedIn(m) :
           \A r \in DeletedIn(m) : r \in tracked <=> HasPlace(tracked, deleted, m, r)
<1> DEFINE Decided(n, t) ==
             \A r \in DeletedIn(m) : r < n => (r \in t <=> HasPlace(t, deleted, m, r))
           Bad == {n \in Nat : ~\E t \in SUBSET DeletedIn(m) : Decided(n, t)}
<1>1. /\ DeletedIn(m) \in SUBSET RingIndices
      /\ \A r \in RingIndices : r \in Nat /\ r < MaxRingIndex + 1
      /\ MaxRingIndex + 1 \in Nat
  BY BatchSets, SubscriberAssumption DEF RingIndices
<1>2. Decided(0, {})
  BY <1>1
<1>3. ASSUME NEW n \in Nat, n # 0, NEW t \in SUBSET DeletedIn(m), Decided(n - 1, t)
      PROVE  \E u \in SUBSET DeletedIn(m) : Decided(n, u)
  <2>1. PICK u \in SUBSET DeletedIn(m) :
          u = {q \in t : q < n - 1}
                \cup {r \in DeletedIn(m) : r = n - 1 /\ HasPlace(t, deleted, m, r)}
    OBVIOUS
  <2>2. ASSUME NEW r \in DeletedIn(m), r < n
        PROVE  r \in u <=> HasPlace(u, deleted, m, r)
    <3>1. r \in Int /\ t \subseteq Int /\ u \subseteq Int
      BY <1>1
    <3>2. \A q \in Int : q < r => q < n - 1 /\ q # n - 1
      BY <2>2, <3>1
    <3>3. {q \in u : q < r} = {q \in t : q < r}
      BY <2>1, <3>1, <3>2
    <3>4. DeletedBefore(u, deleted, m, r) = DeletedBefore(t, deleted, m, r)
      BY <3>3 DEF DeletedBefore
    <3>5. HasPlace(u, deleted, m, r) <=> HasPlace(t, deleted, m, r)
      BY <3>4 DEF HasPlace
    <3>6. CASE r < n - 1
      <4>1. r \in u <=> r \in t
        BY <2>1, <3>1, <3>6
      <4> QED BY <1>3, <3>5, <3>6, <4>1
    <3>7. CASE r = n - 1
      <4>1. r \in u <=> HasPlace(t, deleted, m, r)
        BY <2>1, <3>1, <3>7
      <4> QED BY <3>5, <4>1
    <3>8. r < n - 1 \/ r = n - 1
      BY <2>2, <3>1
    <3> QED BY <3>6, <3>7, <3>8
  <2>3. Decided(n, u)
    BY <2>2
  <2> QED BY <2>3
<1> HIDE DEF Decided
<1>4. Bad = {}
  <2> SUFFICES ASSUME Bad # {} PROVE FALSE
    OBVIOUS
  <2>1. PICK n \in Bad : \A y \in Bad : n <= y
    <3>1. Bad \in SUBSET Nat
      OBVIOUS
    <3> HIDE DEF Bad
    <3> QED BY <3>1, MinExists
  <2>2. n # 0
    BY <1>2
  <2>3. n \in Nat /\ n - 1 \in Nat /\ ~(n <= n - 1)
    BY <2>2
  <2>4. n - 1 \notin Bad
    <3> HIDE DEF Bad
    <3> QED BY <2>1, <2>3
  <2>5. PICK t \in SUBSET DeletedIn(m) : Decided(n - 1, t)
    BY <2>3, <2>4
  <2>6. \E u \in SUBSET DeletedIn(m) : Decided(n, u)
    BY <1>3, <2>2, <2>3, <2>5
  <2> QED BY <2>1, <2>6
<1>5. PICK t \in SUBSET DeletedIn(m) : Decided(MaxRingIndex + 1, t)
  BY <1>1, <1>4
<1>6. \A r \in DeletedIn(m) : r \in t <=> HasPlace(t, deleted, m, r)
  BY <1>1, <1>5 DEF Decided
<1> QED BY <1>6

\* TrackedDeletions is such a set.
LEMMA TrackedChosen ==
  ASSUME NEW deleted \in SUBSET RingIndices, NEW m, IsBatch(m)
  PROVE  \E tracked \in SUBSET DeletedIn(m) :
           /\ TrackedDeletions(deleted, m) = tracked
           /\ \A r \in DeletedIn(m) : r \in tracked <=> HasPlace(tracked, deleted, m, r)
<1> DEFINE Right(t) == \A r \in DeletedIn(m) : r \in t <=> HasPlace(t, deleted, m, r)
           c == CHOOSE t \in SUBSET DeletedIn(m) : Right(t)
<1>1. \E t \in SUBSET DeletedIn(m) : Right(t)
  BY TrackedExists
<1>2. c \in SUBSET DeletedIn(m) /\ Right(c)
  <2> HIDE DEF Right
  <2> QED BY <1>1
<1>3. TrackedDeletions(deleted, m) = DeletedIn(m) \cap c
  BY DEF TrackedDeletions, HasPlace, DeletedBefore
<1> HIDE DEF c
<1> QED BY <1>2, <1>3

\* Built rings free their place, deleted ones take one only if there is one.
LEMMA TrackedBound ==
  ASSUME NEW deleted \in SUBSET RingIndices, NEW m, IsBatch(m),
         Cardinality(deleted) <= MaxDeletedRingsPerCollection
  PROVE  /\ TrackedDeletions(deleted, m) \in SUBSET DeletedIn(m)
         /\ Cardinality((deleted \ BuiltIn(m)) \cup TrackedDeletions(deleted, m))
              <= MaxDeletedRingsPerCollection
<1>1. PICK tracked \in SUBSET DeletedIn(m) :
        /\ TrackedDeletions(deleted, m) = tracked
        /\ \A r \in DeletedIn(m) : r \in tracked <=> HasPlace(tracked, deleted, m, r)
  BY TrackedChosen
<1>2. PICK after \in SUBSET RingIndices : after = (deleted \ BuiltIn(m)) \cup tracked
  BY BatchSets
<1>3. /\ IsFiniteSet(after) /\ Cardinality(after) \in Nat
      /\ IsFiniteSet(deleted) /\ Cardinality(deleted) \in Nat
      /\ MaxDeletedRingsPerCollection \in Nat
  BY RingsFinite, SubscriberAssumption
<1>4. CASE tracked \subseteq deleted
  <2>1. after \subseteq deleted
    BY <1>2, <1>4
  <2>2. Cardinality(after) <= Cardinality(deleted)
    BY <1>3, <2>1, FS_Subset
  <2> QED BY <1>1, <1>2, <1>3, <2>2
<1>5. CASE ~(tracked \subseteq deleted)
  <2>1. PICK fresh \in SUBSET RingIndices : fresh = tracked \ deleted
    BY BatchSets
  <2>2. IsFiniteSet(fresh) /\ fresh \in SUBSET Int /\ fresh # {}
    BY <1>5, <2>1, RingsFinite DEF RingIndices
  <2>3. PICK x \in fresh : \A y \in fresh : x >= y
    BY <2>2, MaxExists
  <2>4. PICK before \in SUBSET RingIndices : before = DeletedBefore(tracked, deleted, m, x)
    BY BatchSets DEF DeletedBefore
  <2>5. x \in tracked /\ x \notin deleted /\ x \in Int
    BY <2>1, <2>2, <2>3
  <2>6. x \notin before
    BY <2>4, <2>5 DEF DeletedBefore
  <2>7. Cardinality(before) < MaxDeletedRingsPerCollection
    BY <1>1, <2>4, <2>5, <2>6 DEF HasPlace
  <2>8. after \subseteq before \cup {x}
    <3> SUFFICES ASSUME NEW q \in after, q # x PROVE q \in before
      OBVIOUS
    <3>1. q \in Int
      BY <1>2 DEF RingIndices
    <3>2. CASE q \in deleted \ BuiltIn(m)
      BY <2>4, <3>2 DEF DeletedBefore
    <3>3. CASE q \in tracked /\ q \notin deleted
      <4>1. q < x
        BY <2>1, <2>3, <2>5, <3>1, <3>3
      <4> QED BY <2>4, <3>3, <4>1 DEF DeletedBefore
    <3>4. CASE q \in tracked /\ q \in deleted
      <4>1. q \notin BuiltIn(m)
        BY <3>4, BatchSets
      <4> QED BY <3>2, <3>4, <4>1
    <3> QED BY <1>2, <3>2, <3>3, <3>4
  <2>9. IsFiniteSet(before) /\ Cardinality(before) \in Nat
    BY RingsFinite
  <2>10. IsFiniteSet(before \cup {x}) /\ Cardinality(before \cup {x}) = Cardinality(before) + 1
    BY <2>6, <2>9, FS_AddElement
  <2>11. Cardinality(after) <= Cardinality(before \cup {x})
    BY <2>8, <2>10, FS_Subset
  <2>12. Cardinality(after) <= MaxDeletedRingsPerCollection
    BY <1>3, <2>7, <2>9, <2>10, <2>11
  <2> QED BY <1>1, <1>2, <2>12
<1> QED BY <1>4, <1>5

-----------------------------------------------------------------------------
(* One batch, and one replay.                                              *)

\* store_ring_roots keeps the books of the collection.
LEMMA StoreRootsBooks ==
  ASSUME NEW windows \in Windows, NEW state \in StateType, BooksExact(windows, state),
         NEW m, IsBatch(m)
  PROVE  /\ store_ring_roots(windows, state, m) \in StateType
         /\ BooksExact(StoreWindows(windows, m), store_ring_roots(windows, state, m))
<1>1. PICK new : new = store_ring_roots(windows, state, m)
  OBVIOUS
<1>2. /\ state.ring_count \in Int /\ state.next_ring_index \in 0..(MaxRingIndex + 1)
      /\ state.missing_indices \in MissingType
      /\ state.deleted_indices \in SUBSET RingIndices
  BY DEF StateType
<1>3. PICK missing \in MissingType : missing = state.missing_indices
  BY <1>2
<1>4. PICK deleted \in SUBSET RingIndices : deleted = state.deleted_indices
  BY <1>2
<1>5. PICK stored \in SUBSET RingIndices : stored = StoredIn(windows)
  BY DEF StoredIn
<1>6. /\ stored \cap deleted = {}
      /\ DOMAIN missing \cap (stored \cup deleted) = {}
      /\ \A r \in DOMAIN missing : r < state.next_ring_index
                                   /\ missing[r] < ReplayAbandonThreshold
      /\ Cardinality(DOMAIN missing) <= MaxMissingRootsPerCollection
      /\ Cardinality(deleted) <= MaxDeletedRingsPerCollection
      /\ state.ring_count = Cardinality(stored)
  BY <1>3, <1>4, <1>5 DEF BooksExact
<1>7. DOMAIN missing \in SUBSET RingIndices /\ missing \in [DOMAIN missing -> Nat]
  BY DEF MissingType
<1>8. /\ BuiltIn(m) \in SUBSET RingIndices /\ DeletedIn(m) \in SUBSET RingIndices
      /\ BuiltIn(m) \cap DeletedIn(m) = {}
      /\ BuiltIn(m) \cup DeletedIn(m) = DOMAIN m.updates
  BY BatchSets
<1>9. PICK tracked \in SUBSET DeletedIn(m) :
        /\ tracked = TrackedDeletions(deleted, m)
        /\ Cardinality((deleted \ BuiltIn(m)) \cup tracked) <= MaxDeletedRingsPerCollection
  BY <1>6, TrackedBound
<1>10. /\ new.ring_count = RingCount(stored, state.ring_count, m)
       /\ new.next_ring_index = Max({state.next_ring_index, m.next_ring_index})
       /\ new.missing_indices = [r \in DOMAIN missing \ DOMAIN m.updates |-> missing[r]]
       /\ new.deleted_indices = (deleted \ BuiltIn(m)) \cup tracked
       /\ new = [ring_count |-> new.ring_count, next_ring_index |-> new.next_ring_index,
                 missing_indices |-> new.missing_indices,
                 deleted_indices |-> new.deleted_indices]
  BY <1>1, <1>3, <1>4, <1>5, <1>9 DEF store_ring_roots
<1>11. /\ new.next_ring_index \in 0..(MaxRingIndex + 1)
       /\ new.next_ring_index >= state.next_ring_index
  <2>1. m.next_ring_index \in 0..(MaxRingIndex + 1)
    BY DEF IsBatch
  <2>2. PICK x \in Int, y \in Int : x = state.next_ring_index /\ y = m.next_ring_index
    BY <1>2, <2>1
  <2>3. Max({x, y}) = IF x >= y THEN x ELSE y
    BY MaxOfTwo
  <2> QED BY <1>2, <1>10, <2>1, <2>2, <2>3
<1>12. new.ring_count = Cardinality((stored \ DeletedIn(m)) \cup BuiltIn(m))
  <2>1. Cardinality((stored \ DeletedIn(m)) \cup BuiltIn(m))
          = Cardinality(stored) + Cardinality(BuiltIn(m) \ stored)
              - Cardinality(DeletedIn(m) \cap stored)
    BY <1>8, CountAfter
  <2>2. new.ring_count = state.ring_count + Cardinality(BuiltIn(m) \ stored)
                           - Cardinality(DeletedIn(m) \cap stored)
    BY <1>10 DEF RingCount
  <2> QED BY <1>6, <2>1, <2>2
<1>13. /\ DOMAIN new.missing_indices = DOMAIN missing \ DOMAIN m.updates
       /\ \A r \in DOMAIN new.missing_indices : new.missing_indices[r] = missing[r]
       /\ new.missing_indices \in MissingType
  <2>1. new.missing_indices \in [DOMAIN missing \ DOMAIN m.updates -> Nat]
    BY <1>7, <1>10
  <2> QED BY <1>7, <1>10, <2>1 DEF MissingType
<1>14. new.deleted_indices \in SUBSET RingIndices
  BY <1>8, <1>10
<1>15. new.ring_count \in Int
  <2>1. (stored \ DeletedIn(m)) \cup BuiltIn(m) \in SUBSET RingIndices
    BY <1>8
  <2> QED BY <1>12, <2>1, RingsFinite
<1>16. new \in StateType
  BY <1>10, <1>11, <1>13, <1>14, <1>15 DEF StateType
<1>17. Cardinality(DOMAIN new.missing_indices) <= MaxMissingRootsPerCollection
  <2>1. IsFiniteSet(DOMAIN missing) /\ Cardinality(DOMAIN missing) \in Nat
    BY <1>7, RingsFinite
  <2>2. DOMAIN new.missing_indices \subseteq DOMAIN missing
    BY <1>13
  <2>3. /\ Cardinality(DOMAIN new.missing_indices) <= Cardinality(DOMAIN missing)
        /\ Cardinality(DOMAIN new.missing_indices) \in Nat
    BY <2>1, <2>2, FS_Subset, FS_CardinalityType
  <2> QED BY <1>6, <2>1, <2>3, SubscriberAssumption
<1>18. \A r \in DOMAIN new.missing_indices : /\ r < new.next_ring_index
                                             /\ new.missing_indices[r] < ReplayAbandonThreshold
  <2> SUFFICES ASSUME NEW r \in DOMAIN new.missing_indices
               PROVE  /\ r < new.next_ring_index
                      /\ new.missing_indices[r] < ReplayAbandonThreshold
    OBVIOUS
  <2>1. r \in DOMAIN missing /\ new.missing_indices[r] = missing[r] /\ r \in Int
    BY <1>7, <1>13 DEF RingIndices
  <2>2. r < state.next_ring_index /\ missing[r] < ReplayAbandonThreshold
    BY <1>6, <2>1
  <2> QED BY <1>2, <1>11, <2>1, <2>2
<1>19. PICK after \in SUBSET RingIndices : after = StoredIn(StoreWindows(windows, m))
  BY DEF StoredIn
<1>20. after = (stored \ DeletedIn(m)) \cup BuiltIn(m)
  BY <1>5, <1>19, StoredAfter
<1>21. /\ new.ring_count = Cardinality(after)
       /\ after \cap new.deleted_indices = {}
       /\ DOMAIN new.missing_indices \cap (after \cup new.deleted_indices) = {}
       /\ Cardinality(new.deleted_indices) <= MaxDeletedRingsPerCollection
  BY <1>6, <1>8, <1>9, <1>10, <1>12, <1>13, <1>20
<1>22. BooksExact(StoreWindows(windows, m), new)
  BY <1>17, <1>18, <1>19, <1>21 DEF BooksExact
<1> QED BY <1>1, <1>16, <1>22

\* The scan only finds rings nothing is known about, and not too many.
LEMMA DetectBooks ==
  ASSUME NEW windows \in Windows, NEW state \in StateType, BooksExact(windows, state),
         NEW oldNext \in Nat
  PROVE  LET missing == detect_missing_rings(StoredIn(windows), state, oldNext)
             new == [state EXCEPT !.missing_indices = missing]
         IN new \in StateType /\ BooksExact(windows, new)
<1>1. PICK found : found = detect_missing_rings(StoredIn(windows), state, oldNext)
  OBVIOUS
<1>2. PICK new : new = [state EXCEPT !.missing_indices = found]
  OBVIOUS
<1>3. PICK stored \in SUBSET RingIndices : stored = StoredIn(windows)
  BY DEF StoredIn
<1>4. /\ state.next_ring_index \in 0..(MaxRingIndex + 1)
      /\ state.missing_indices \in MissingType
      /\ state.deleted_indices \in SUBSET RingIndices
  BY DEF StateType
<1>5. PICK missing \in MissingType : missing = state.missing_indices
  BY <1>4
<1>6. DOMAIN missing \in SUBSET RingIndices /\ missing \in [DOMAIN missing -> Nat]
  BY DEF MissingType
<1>7. /\ DOMAIN missing \cap (stored \cup state.deleted_indices) = {}
      /\ \A r \in DOMAIN missing : r < state.next_ring_index
                                   /\ missing[r] < ReplayAbandonThreshold
      /\ Cardinality(DOMAIN missing) <= MaxMissingRootsPerCollection
  BY <1>3, <1>5 DEF BooksExact
<1>8. /\ IsFiniteSet(DOMAIN missing) /\ Cardinality(DOMAIN missing) \in Nat
      /\ MaxMissingRootsPerCollection \in Nat /\ ReplayAbandonThreshold \in Nat \ {0}
      /\ MaxRingIndex \in Nat
  BY <1>6, RingsFinite, SubscriberAssumption
<1>9. PICK room \in Nat : room = MaxMissingRootsPerCollection - Cardinality(DOMAIN missing)
  BY <1>7, <1>8
<1>10. PICK gaps : gaps = {r \in Scanned(oldNext, state.next_ring_index) :
                             r \notin stored /\ r \notin DOMAIN missing
                               /\ r \notin state.deleted_indices}
  OBVIOUS
<1>11. gaps \in SUBSET RingIndices /\ \A r \in gaps : r < state.next_ring_index
  BY <1>4, <1>8, <1>10 DEF Scanned, RingIndices
<1>12. PICK more \in SUBSET gaps : more = Smallest(gaps, room) /\ Cardinality(more) <= room
  BY <1>11, SmallestBound
<1>13. \/ found = <<>>
       \/ found = missing
       \/ found = [r \in DOMAIN missing \cup more |->
                     IF r \in DOMAIN missing THEN missing[r] ELSE 0]
  BY <1>1, <1>3, <1>5, <1>9, <1>10, <1>12 DEF detect_missing_rings
<1>14. /\ found \in MissingType
       /\ DOMAIN found \in SUBSET (DOMAIN missing \cup more)
       /\ \A r \in DOMAIN found : found[r] < ReplayAbandonThreshold
  <2>1. CASE found = <<>>
    <3>1. DOMAIN found = {} /\ found \in [{} -> Nat] /\ {} \in SUBSET RingIndices
      BY <2>1, EmptyMapType DEF IsPartialFunction
    <3> QED BY <3>1 DEF MissingType
  <2>2. CASE found = missing
    BY <1>7, <2>2
  <2>3. CASE found = [r \in DOMAIN missing \cup more |->
                        IF r \in DOMAIN missing THEN missing[r] ELSE 0]
    <3>1. \A r \in DOMAIN missing : missing[r] \in Nat /\ missing[r] < ReplayAbandonThreshold
      BY <1>6, <1>7
    <3>2. 0 < ReplayAbandonThreshold
      BY <1>8
    <3>3. found \in [DOMAIN missing \cup more -> Nat]
      BY <2>3, <3>1
    <3>4. DOMAIN missing \cup more \in SUBSET RingIndices
      BY <1>6, <1>11
    <3>5. DOMAIN found = DOMAIN missing \cup more
      BY <2>3
    <3>6. \A r \in DOMAIN found : found[r] < ReplayAbandonThreshold
      BY <2>3, <3>1, <3>2, <3>5
    <3> QED BY <3>3, <3>4, <3>5, <3>6 DEF MissingType
  <2> QED BY <1>13, <2>1, <2>2, <2>3
<1>15. Cardinality(DOMAIN found) <= MaxMissingRootsPerCollection
  <2>1. IsFiniteSet(more) /\ Cardinality(more) \in Nat
    BY <1>11, RingsFinite
  <2>2. DOMAIN missing \cap more = {}
    BY <1>10
  <2>3. Cardinality(DOMAIN missing \cup more) = Cardinality(DOMAIN missing) + Cardinality(more)
    BY <1>8, <2>1, <2>2, DisjointCount
  <2>4. IsFiniteSet(DOMAIN missing \cup more)
    BY <1>8, <2>1, FS_Union
  <2>5. /\ Cardinality(DOMAIN found) <= Cardinality(DOMAIN missing \cup more)
        /\ Cardinality(DOMAIN found) \in Nat
    BY <1>14, <2>4, FS_Subset, FS_CardinalityType
  <2> QED BY <1>8, <1>9, <1>12, <2>1, <2>3, <2>5
<1>16. /\ new \in StateType
       /\ new.ring_count = state.ring_count /\ new.next_ring_index = state.next_ring_index
       /\ new.deleted_indices = state.deleted_indices /\ new.missing_indices = found
  BY <1>2, <1>14 DEF StateType
<1>17. DOMAIN found \cap (stored \cup state.deleted_indices) = {}
  BY <1>7, <1>10, <1>14
<1>18. \A r \in DOMAIN found : r < state.next_ring_index
  BY <1>7, <1>11, <1>14
<1>19. BooksExact(windows, new)
  BY <1>3, <1>14, <1>15, <1>16, <1>17, <1>18 DEF BooksExact
<1> QED BY <1>1, <1>2, <1>16, <1>19

\* Fewer missing indices, with fewer attempts than allowed, do no harm.
LEMMA FewerMissing ==
  ASSUME NEW windows \in Windows, NEW state \in StateType, BooksExact(windows, state),
         NEW missing \in MissingType, DOMAIN missing \subseteq DOMAIN state.missing_indices,
         \A r \in DOMAIN missing : missing[r] < ReplayAbandonThreshold
  PROVE  LET new == [state EXCEPT !.missing_indices = missing]
         IN new \in StateType /\ BooksExact(windows, new)
<1>1. PICK new : new = [state EXCEPT !.missing_indices = missing]
  OBVIOUS
<1>2. /\ new \in StateType
      /\ new.ring_count = state.ring_count /\ new.next_ring_index = state.next_ring_index
      /\ new.deleted_indices = state.deleted_indices /\ new.missing_indices = missing
  BY <1>1 DEF StateType
<1>3. PICK before \in SUBSET RingIndices : before = DOMAIN state.missing_indices
  BY DEF StateType, MissingType
<1>4. /\ IsFiniteSet(before) /\ Cardinality(before) \in Nat
      /\ Cardinality(before) <= MaxMissingRootsPerCollection
      /\ DOMAIN missing \subseteq before
  BY <1>3, RingsFinite DEF BooksExact
<1>5. /\ Cardinality(DOMAIN missing) \in Nat
      /\ Cardinality(DOMAIN missing) <= Cardinality(before)
  BY <1>4, FS_Subset, FS_CardinalityType
<1>6. Cardinality(DOMAIN missing) <= MaxMissingRootsPerCollection
  BY <1>4, <1>5, SubscriberAssumption
<1>7. BooksExact(windows, new)
  BY <1>2, <1>6 DEF BooksExact
<1> QED BY <1>1, <1>2, <1>7

\* Only attempts below the threshold are counted on.
LEMMA AttemptedMissing ==
  ASSUME NEW c \in Collections, collectionStates \in [Collections -> StateType],
         \A r \in DOMAIN collectionStates[c].missing_indices :
           collectionStates[c].missing_indices[r] < ReplayAbandonThreshold
  PROVE  LET missing == Attempted(c).missing_indices
         IN /\ missing \in MissingType
            /\ DOMAIN missing \subseteq DOMAIN collectionStates[c].missing_indices
            /\ \A r \in DOMAIN missing : missing[r] < ReplayAbandonThreshold
<1>1. PICK missing \in MissingType : missing = collectionStates[c].missing_indices
  BY DEF StateType
<1>2. PICK requested : requested = replayPool[c] \cap DOMAIN missing
  OBVIOUS
<1>3. PICK abandoned : abandoned = {r \in requested : GivenUp(missing[r] + 1)}
  OBVIOUS
<1>4. PICK after : after = [r \in DOMAIN missing \ abandoned |->
                              IF r \in requested THEN missing[r] + 1 ELSE missing[r]]
  OBVIOUS
<1>5. Attempted(c).missing_indices = after
  BY <1>1, <1>2, <1>3, <1>4 DEF Attempted
<1>6. DOMAIN missing \in SUBSET RingIndices /\ missing \in [DOMAIN missing -> Nat]
  BY DEF MissingType
<1>7. DOMAIN after = DOMAIN missing \ abandoned
  BY <1>4
<1>8. ASSUME NEW r \in DOMAIN after
      PROVE  after[r] \in Nat /\ after[r] < ReplayAbandonThreshold
  <2>1. r \in DOMAIN missing /\ r \notin abandoned /\ missing[r] \in Nat
        /\ missing[r] < ReplayAbandonThreshold /\ ReplayAbandonThreshold \in Nat
    BY <1>1, <1>6, <1>7, SubscriberAssumption
  <2>2. CASE r \in requested
    <3>1. after[r] = missing[r] + 1
      BY <1>4, <1>7, <2>2
    <3>2. ~(missing[r] + 1 >= ReplayAbandonThreshold)
      BY <1>3, <2>1, <2>2 DEF GivenUp
    <3> QED BY <2>1, <3>1, <3>2
  <2>3. CASE r \notin requested
    <3>1. after[r] = missing[r]
      BY <1>4, <1>7, <2>3
    <3> QED BY <2>1, <3>1
  <2> QED BY <2>2, <2>3
<1>9. after \in [DOMAIN missing \ abandoned -> Nat]
  BY <1>4, <1>7, <1>8
<1>10. after \in MissingType
  BY <1>6, <1>9 DEF MissingType
<1> QED BY <1>1, <1>5, <1>7, <1>8, <1>10

-----------------------------------------------------------------------------
(* Gaps: what GapsTracked of RingRootSync rests on.                        *)

\* The index sets have room for all rings, so that their limits never bite.
RoomForAll ==
  /\ MaxRingIndex + 1 <= MaxMissingRootsPerCollection
  /\ MaxRingIndex + 1 < MaxDeletedRingsPerCollection

\* Rings that are stored or deleted are known, so below next_ring_index.
BelowNext(windows, state) ==
  \A r \in StoredIn(windows) \cup state.deleted_indices : r < state.next_ring_index

\* Rings below a bound are stored, deleted, missing or exempt.
Covered(windows, state, bound, exempt) ==
  \A r \in RingIndices :
    r < bound => r \in StoredIn(windows) \cup state.deleted_indices
                        \cup DOMAIN state.missing_indices \cup exempt

\* A message names only rings below its next_ring_index.
KnownRings(m) == \A r \in DOMAIN m.updates : r < m.next_ring_index

\* Then no deletion is left out.
LEMMA AllTracked ==
  ASSUME RoomForAll, NEW deleted \in SUBSET RingIndices, NEW m, IsBatch(m)
  PROVE  TrackedDeletions(deleted, m) = DeletedIn(m)
<1>1. PICK tracked \in SUBSET DeletedIn(m) :
        /\ TrackedDeletions(deleted, m) = tracked
        /\ \A r \in DeletedIn(m) : r \in tracked <=> HasPlace(tracked, deleted, m, r)
  BY TrackedChosen
<1>2. ASSUME NEW r \in DeletedIn(m) PROVE HasPlace(tracked, deleted, m, r)
  <2>1. PICK before \in SUBSET RingIndices : before = DeletedBefore(tracked, deleted, m, r)
    BY BatchSets DEF DeletedBefore
  <2>2. Cardinality(before) \in Nat /\ Cardinality(before) <= MaxRingIndex + 1
    BY RingsFinite, FS_Subset
  <2>3. MaxRingIndex \in Nat /\ MaxDeletedRingsPerCollection \in Nat
    BY SubscriberAssumption
  <2>4. Cardinality(before) < MaxDeletedRingsPerCollection
    BY <2>2, <2>3 DEF RoomForAll
  <2> QED BY <2>1, <2>4 DEF HasPlace
<1> QED BY <1>1, <1>2

\* With room for all, all are among the smallest.
LEMMA SmallestAll ==
  ASSUME NEW T \in SUBSET RingIndices, NEW room \in Nat, Cardinality(T) <= room
  PROVE  Smallest(T, room) = T
<1>1. ASSUME NEW r \in T PROVE Cardinality({q \in T : q < r}) < room
  <2>1. PICK below \in SUBSET T : below = {q \in T : q < r}
    OBVIOUS
  <2>2. r \notin below
    BY <2>1 DEF RingIndices
  <2>3. IsFiniteSet(T) /\ Cardinality(T) \in Nat /\ IsFiniteSet(below) /\ Cardinality(below) \in Nat
    BY RingsFinite
  <2>4. Cardinality(below \cup {r}) = Cardinality(below) + 1
    BY <2>2, <2>3, FS_AddElement
  <2>5. Cardinality(below \cup {r}) <= Cardinality(T)
    BY <2>3, FS_Subset
  <2> QED BY <2>1, <2>3, <2>4, <2>5
<1> QED BY <1>1 DEF Smallest

\* The scan finds every gap the batch opened, and drops the missing set only
\* when the counts prove that nothing is missing.
LEMMA DetectCovers ==
  ASSUME RoomForAll, NEW windows \in Windows, NEW state \in StateType,
         BooksExact(windows, state), BelowNext(windows, state),
         NEW oldNext \in Nat, NEW exempt,
         \A r \in RingIndices :
           r < oldNext => r \in StoredIn(windows) \cup state.deleted_indices
                                \cup DOMAIN state.missing_indices \cup exempt
  PROVE  LET missing == detect_missing_rings(StoredIn(windows), state, oldNext)
             new == [state EXCEPT !.missing_indices = missing]
         IN BelowNext(windows, new) /\ Covered(windows, new, new.next_ring_index, exempt)
<1>1. PICK found : found = detect_missing_rings(StoredIn(windows), state, oldNext)
  OBVIOUS
<1>2. PICK new : new = [state EXCEPT !.missing_indices = found]
  OBVIOUS
<1>3. PICK stored \in SUBSET RingIndices : stored = StoredIn(windows)
  BY DEF StoredIn
<1>4. PICK next \in 0..(MaxRingIndex + 1) : next = state.next_ring_index
  BY DEF StateType
<1>5. PICK deleted \in SUBSET RingIndices : deleted = state.deleted_indices
  BY DEF StateType
<1>6. PICK missing \in MissingType : missing = state.missing_indices
  BY DEF StateType
<1>7. DOMAIN missing \in SUBSET RingIndices
  BY DEF MissingType
<1>8. /\ new.next_ring_index = next /\ new.deleted_indices = deleted
      /\ new.missing_indices = found
  BY <1>2, <1>4, <1>5, <1>6 DEF StateType
<1>9. /\ IsFiniteSet(stored) /\ Cardinality(stored) \in Nat
      /\ IsFiniteSet(deleted) /\ Cardinality(deleted) \in Nat
      /\ IsFiniteSet(DOMAIN missing) /\ Cardinality(DOMAIN missing) \in Nat
      /\ MaxRingIndex \in Nat
      /\ MaxMissingRootsPerCollection \in Nat /\ MaxDeletedRingsPerCollection \in Nat
  BY <1>7, RingsFinite, SubscriberAssumption
<1>10. BelowNext(windows, new)
  BY <1>3, <1>4, <1>5, <1>8 DEF BelowNext
<1>11. ASSUME NEW r \in RingIndices, r < next
       PROVE  r \in stored \cup deleted \cup DOMAIN found \cup exempt
  <2>1. CASE state.ring_count + Cardinality(deleted) >= next
    <3>1. /\ state.ring_count = Cardinality(stored)
          /\ stored \cap deleted = {}
      BY <1>3, <1>5 DEF BooksExact
    <3>2. PICK known \in SUBSET RingIndices : known = stored \cup deleted
      OBVIOUS
    <3>3. Cardinality(known) = Cardinality(stored) + Cardinality(deleted)
      BY <1>9, <3>1, <3>2, DisjointCount
    <3>4. \A q \in known : q \in 0..(next - 1)
      BY <1>3, <1>4, <1>5, <1>9, <3>2 DEF BelowNext, RingIndices
    <3>5. IsFiniteSet(0..(next - 1)) /\ Cardinality(0..(next - 1)) = next
      <4>1. PICK e \in Int : e = next - 1
        BY <1>9
      <4>2. IsFiniteSet(0..e)
            /\ Cardinality(0..e) = IF 0 > e THEN 0 ELSE e - 0 + 1
        BY FS_Interval
      <4> QED BY <1>9, <4>1, <4>2
    <3>6. PICK below : below = 0..(next - 1)
      OBVIOUS
    <3>7. known \subseteq below /\ IsFiniteSet(below) /\ Cardinality(below) = next
      BY <3>4, <3>5, <3>6
    <3>8. Cardinality(known) \in Nat /\ Cardinality(known) <= Cardinality(below)
      BY <3>7, FS_Subset, RingsFinite
    <3>9. Cardinality(known) >= next
      BY <2>1, <3>1, <3>3
    <3>10. Cardinality(known) = Cardinality(below)
      BY <1>9, <3>7, <3>8, <3>9
    <3>11. known = below
      BY <3>7, <3>10, FS_Subset
    <3>12. r \in below
      BY <1>9, <1>11, <3>6 DEF RingIndices
    <3> QED BY <3>2, <3>11, <3>12
  <2>2. CASE ~(state.ring_count + Cardinality(deleted) >= next)
    <3>1. Cardinality(deleted) <= MaxRingIndex + 1
      BY RingsFinite, FS_Subset
    <3>2. ~(Cardinality(deleted) >= MaxDeletedRingsPerCollection)
      BY <1>9, <3>1 DEF RoomForAll
    <3>3. PICK gaps : gaps = {q \in Scanned(oldNext, next) :
                                q \notin stored /\ q \notin DOMAIN missing /\ q \notin deleted}
      OBVIOUS
    <3>4. gaps \in SUBSET RingIndices
      BY <1>9, <3>3 DEF Scanned, RingIndices
    <3>5. PICK room \in Int : room = MaxMissingRootsPerCollection - Cardinality(DOMAIN missing)
      BY <1>9
    <3>6. Smallest(gaps, room) = gaps
      <4>1. IsFiniteSet(gaps) /\ Cardinality(gaps) \in Nat
        BY <3>4, RingsFinite
      <4>2. DOMAIN missing \cap gaps = {}
        BY <3>3
      <4>3. PICK all \in SUBSET RingIndices : all = DOMAIN missing \cup gaps
        BY <1>7, <3>4
      <4>4. Cardinality(all) = Cardinality(DOMAIN missing) + Cardinality(gaps)
        BY <1>9, <4>1, <4>2, <4>3, DisjointCount
      <4>5. Cardinality(all) <= MaxRingIndex + 1
        BY RingsFinite, FS_Subset
      <4>6. Cardinality(gaps) <= room /\ room \in Nat
        BY <1>9, <3>5, <4>1, <4>4, <4>5 DEF RoomForAll
      <4> QED BY <3>4, <4>6, SmallestAll
    <3>7. found = [q \in DOMAIN missing \cup gaps |->
                     IF q \in DOMAIN missing THEN missing[q] ELSE 0]
      BY <1>1, <1>3, <1>4, <1>5, <1>6, <2>2, <3>2, <3>3, <3>5, <3>6 DEF detect_missing_rings
    <3>8. DOMAIN found = DOMAIN missing \cup gaps
      BY <3>7
    <3>9. CASE r < oldNext
      BY <1>3, <1>5, <1>6, <3>8, <3>9
    <3>10. CASE ~(r < oldNext)
      <4>1. r \in Scanned(oldNext, next)
        BY <1>11, <3>10, <1>9 DEF Scanned, RingIndices
      <4> QED BY <3>3, <3>8, <4>1
    <3> QED BY <3>9, <3>10
  <2> QED BY <2>1, <2>2
<1>12. Covered(windows, new, new.next_ring_index, exempt)
  BY <1>3, <1>8, <1>11 DEF Covered
<1> QED BY <1>1, <1>2, <1>10, <1>12

\* Storing the roots of a batch turns missing rings into stored or deleted
\* ones and leaves all others covered.
LEMMA StoreCovers ==
  ASSUME RoomForAll, NEW windows \in Windows, NEW state \in StateType,
         BelowNext(windows, state), NEW exempt,
         Covered(windows, state, state.next_ring_index, exempt),
         NEW m, IsBatch(m), KnownRings(m)
  PROVE  LET w == StoreWindows(windows, m)
             s == store_ring_roots(windows, state, m)
         IN BelowNext(w, s) /\ Covered(w, s, state.next_ring_index, exempt)
<1>1. PICK w : w = StoreWindows(windows, m) OBVIOUS
<1>2. PICK s : s = store_ring_roots(windows, state, m) OBVIOUS
<1>3. PICK stored \in SUBSET RingIndices : stored = StoredIn(windows)
  BY DEF StoredIn
<1>4. PICK deleted \in SUBSET RingIndices : deleted = state.deleted_indices
  BY DEF StateType
<1>5. /\ BuiltIn(m) \in SUBSET RingIndices /\ DeletedIn(m) \in SUBSET RingIndices
      /\ BuiltIn(m) \cup DeletedIn(m) = DOMAIN m.updates
  BY BatchSets
<1>6. StoredIn(w) = (stored \ DeletedIn(m)) \cup BuiltIn(m)
  BY <1>1, <1>3, StoredAfter
<1>7. s.deleted_indices = (deleted \ BuiltIn(m)) \cup DeletedIn(m)
  BY <1>2, <1>4, AllTracked DEF store_ring_roots
<1>8. DOMAIN s.missing_indices = DOMAIN state.missing_indices \ DOMAIN m.updates
  BY <1>2 DEF store_ring_roots
<1>9. PICK old \in Int : old = state.next_ring_index
  BY DEF StateType
<1>10. PICK new \in Int : new = m.next_ring_index
  BY DEF IsBatch
<1>11. s.next_ring_index >= old /\ s.next_ring_index >= new /\ s.next_ring_index \in Int
  <2>1. s.next_ring_index = Max({old, new})
    BY <1>2, <1>9, <1>10 DEF store_ring_roots
  <2>2. Max({old, new}) = IF old >= new THEN old ELSE new
    BY MaxOfTwo
  <2> QED BY <2>1, <2>2
<1>12. BelowNext(w, s)
  <2>1. ASSUME NEW r \in StoredIn(w) \cup s.deleted_indices PROVE r < s.next_ring_index
    <3>1. r \in Int
      BY <1>3, <1>4, <1>5, <1>6, <1>7, <2>1 DEF RingIndices
    <3>2. CASE r \in stored \cup deleted
      BY <1>3, <1>4, <1>9, <1>11, <3>1, <3>2 DEF BelowNext
    <3>3. CASE r \in DOMAIN m.updates
      BY <1>10, <1>11, <3>1, <3>3 DEF KnownRings
    <3> QED BY <1>5, <1>6, <1>7, <2>1, <3>2, <3>3
  <2> QED BY <2>1 DEF BelowNext
<1>13. Covered(w, s, state.next_ring_index, exempt)
  <2>1. ASSUME NEW r \in RingIndices, r < state.next_ring_index
        PROVE  r \in StoredIn(w) \cup s.deleted_indices \cup DOMAIN s.missing_indices \cup exempt
    <3>1. r \in stored \cup deleted \cup DOMAIN state.missing_indices \cup exempt
      BY <1>3, <1>4, <2>1 DEF Covered
    <3> QED BY <1>5, <1>6, <1>7, <1>8, <3>1
  <2> QED BY <2>1 DEF Covered
<1> QED BY <1>1, <1>2, <1>12, <1>13

-----------------------------------------------------------------------------
(* The invariant.                                                          *)

\* What is stored for a collection, and for all, after clearing.
EmptyWindows == [r \in RingIndices |-> <<>>]
EmptyRoots == [c \in Collections |-> EmptyWindows]

\* The types and books of the subscriber: StateExact, and nothing is kept by an
\* inactive subscription.
SubscriberInv ==
  /\ ringRoots \in [Collections -> Windows]
  /\ collectionStates \in [Collections -> StateType]
  /\ \A c \in Collections : BooksExact(ringRoots[c], collectionStates[c])
  /\ ~IsActive => ringRoots = EmptyRoots /\ collectionStates = NoStates

\* The configured limit of clear_all_ring_data is enough for all windows.
ClearsAll == Cardinality(Collections) * (MaxRingIndex + 1) <= ClearLimit

\* Then clearing leaves no window.
LEMMA ClearedEmpty ==
  ASSUME ClearsAll, NEW windows \in ClearedRoots
  PROVE  windows = EmptyRoots
<1>1. PICK keys \in SUBSET (Collections \X RingIndices) : keys = StoredKeys
  BY DEF StoredKeys
<1>2. /\ IsFiniteSet(Collections \X RingIndices)
      /\ Cardinality(Collections \X RingIndices) = Cardinality(Collections) * (MaxRingIndex + 1)
  BY RingsFinite, SubscriberAssumption, FS_Product
<1>3. IsFiniteSet(keys) /\ Cardinality(keys) <= Cardinality(Collections \X RingIndices)
  BY <1>2, FS_Subset
<1>4. Cardinality(keys) <= ClearLimit /\ Cardinality(keys) \in Nat /\ ClearLimit \in Nat
  <2>1. Cardinality(keys) \in Nat /\ Cardinality(Collections \X RingIndices) \in Nat
    BY <1>2, <1>3, FS_CardinalityType
  <2>2. PICK n \in Nat : n = Cardinality(Collections \X RingIndices)
    BY <2>1
  <2>3. n <= ClearLimit
    BY <1>2, <2>2 DEF ClearsAll
  <2> QED BY <1>3, <2>1, <2>2, <2>3, SubscriberAssumption
<1>5. Max({0, Cardinality(keys) - ClearLimit}) = 0
  <2>1. PICK d \in Int : d = Cardinality(keys) - ClearLimit /\ d <= 0
    BY <1>4
  <2>2. Max({0, d}) = IF 0 >= d THEN 0 ELSE d
    BY MaxOfTwo
  <2> QED BY <2>1, <2>2
<1>6. PICK left \in SUBSET keys :
        /\ Cardinality(left) = 0
        /\ windows = [c \in Collections |-> [r \in RingIndices |->
                        IF <<c, r>> \in left THEN ringRoots[c][r] ELSE <<>>]]
  BY <1>1, <1>5 DEF ClearedRoots
<1>7. left = {}
  <2>1. IsFiniteSet(left)
    BY <1>3, FS_Subset
  <2> QED BY <1>6, <2>1, FS_EmptySet
<1> QED BY <1>6, <1>7 DEF EmptyRoots, EmptyWindows

\* A collection nothing is known about.
LEMMA EmptyBooks ==
  /\ EmptyRoots \in [Collections -> Windows]
  /\ NoStates \in [Collections -> StateType]
  /\ \A c \in Collections : BooksExact(EmptyRoots[c], NoStates[c])
<1>1. EmptyWindows \in Windows
  <2>1. <<>> \in Seq(Nat)
    OBVIOUS
  <2> QED BY <2>1 DEF EmptyWindows, Windows
<1>2. StoredIn(EmptyWindows) = {}
  BY DEF StoredIn, EmptyWindows
<1>3. DOMAIN <<>> = {} /\ <<>> \in [{} -> Nat]
  BY EmptyMapType DEF IsPartialFunction
<1>4. <<>> \in MissingType
  BY <1>3 DEF MissingType
<1>5. DefaultState \in StateType
  BY <1>4, SubscriberAssumption DEF DefaultState, StateType
<1>6. Cardinality({}) = 0
  BY FS_EmptySet
<1>7. BooksExact(EmptyWindows, DefaultState)
  BY <1>2, <1>3, <1>6, SubscriberAssumption DEF BooksExact, DefaultState
<1> QED BY <1>1, <1>5, <1>7 DEF EmptyRoots, NoStates

\* A batch touches the books of its own collection.
LEMMA BatchStep ==
  ASSUME NEW windows \in [Collections -> Windows], NEW states \in [Collections -> StateType],
         \A c \in Collections : BooksExact(windows[c], states[c]),
         NEW m, IsBatch(m), StoreBatch(windows, states, m)
  PROVE  /\ ringRoots' \in [Collections -> Windows]
         /\ collectionStates' \in [Collections -> StateType]
         /\ \A c \in Collections : BooksExact(ringRoots'[c], collectionStates'[c])
<1>1. PICK c \in Collections : c = m.identifier
  BY DEF IsBatch
<1>2. windows[c] \in Windows /\ states[c] \in StateType /\ BooksExact(windows[c], states[c])
  OBVIOUS
<1>3. PICK w \in Windows, s \in StateType :
        /\ w = StoreWindows(windows[c], m) /\ s = store_ring_roots(windows[c], states[c], m)
        /\ BooksExact(w, s)
  BY <1>2, StoredAfter, StoreRootsBooks
<1>4. states[c].next_ring_index \in Nat
  BY <1>2 DEF StateType
<1>5. PICK t \in StateType :
        /\ t = [s EXCEPT !.missing_indices =
                  detect_missing_rings(StoredIn(w), s, states[c].next_ring_index)]
        /\ BooksExact(w, t)
  BY <1>3, <1>4, DetectBooks
<1>6. ringRoots' = [windows EXCEPT ![c] = w] /\ collectionStates' = [states EXCEPT ![c] = t]
  BY <1>1, <1>3, <1>5 DEF StoreBatch
<1> QED BY <1>3, <1>5, <1>6

\* A message is handled as a whole, whoever sent it.
LEMMA ReceiveStep ==
  ASSUME ClearsAll, SubscriberInv, NEW m, Receive(m),
         m.call \in {"init", "update", "terminate"},
         m.call # "terminate" => IsBatch(m)
  PROVE  SubscriberInv'
<1>1. ASSUME UNCHANGED <<ringRoots, collectionStates, subscription>>
      PROVE  SubscriberInv'
  BY <1>1 DEF SubscriberInv, IsActive
<1>2. ASSUME ringRoots' = EmptyRoots, collectionStates' = NoStates
      PROVE  SubscriberInv'
  BY <1>2, EmptyBooks DEF SubscriberInv
<1>3. ASSUME clear_all_ring_data PROVE SubscriberInv'
  BY <1>2, <1>3, ClearedEmpty DEF clear_all_ring_data
<1>4. ASSUME NEW windows, NEW states, IsBatch(m), StoreBatch(windows, states, m),
             IsActive',
             \/ windows = ringRoots /\ states = collectionStates
             \/ windows = EmptyRoots /\ states = NoStates
      PROVE  SubscriberInv'
  <2>1. /\ windows \in [Collections -> Windows] /\ states \in [Collections -> StateType]
        /\ \A c \in Collections : BooksExact(windows[c], states[c])
    BY <1>4, EmptyBooks DEF SubscriberInv
  <2>2. /\ ringRoots' \in [Collections -> Windows]
        /\ collectionStates' \in [Collections -> StateType]
        /\ \A c \in Collections : BooksExact(ringRoots'[c], collectionStates'[c])
    BY <1>4, <2>1, BatchStep
  <2> QED BY <1>4, <2>2 DEF SubscriberInv
<1>5. CASE m.call = "init"
  <2>1. initialize_ring_roots(m) /\ IsBatch(m)
    BY <1>5 DEF Receive
  <2>2. CASE UNCHANGED <<ringData, subscription>>
    BY <1>1, <2>2 DEF ringData
  <2>3. CASE subscription' = ActiveAt(m.sequence)
             /\ \/ StoreBatch(ringRoots, collectionStates, m)
                \/ \E windows \in ClearedRoots : StoreBatch(windows, NoStates, m)
    <3>1. IsActive'
      BY <2>3 DEF IsActive, ActiveAt
    <3>2. CASE StoreBatch(ringRoots, collectionStates, m)
      BY <1>4, <2>1, <3>1, <3>2
    <3>3. CASE \E windows \in ClearedRoots : StoreBatch(windows, NoStates, m)
      <4>1. StoreBatch(EmptyRoots, NoStates, m)
        BY <3>3, ClearedEmpty
      <4> QED BY <1>4, <2>1, <3>1, <4>1
    <3> QED BY <2>3, <3>2, <3>3
  <2> QED BY <2>1, <2>2, <2>3 DEF initialize_ring_roots
<1>6. CASE m.call = "update"
  <2>1. process_ring_updates(m) /\ IsBatch(m)
    BY <1>6 DEF Receive
  <2>2. CASE UNCHANGED <<ringData, subscription>>
    BY <1>1, <2>2 DEF ringData
  <2>3. CASE IsActive /\ UNCHANGED subscription /\ StoreBatch(ringRoots, collectionStates, m)
    <3>1. IsActive'
      BY <2>3 DEF IsActive
    <3> QED BY <1>4, <2>1, <2>3, <3>1
  <2> QED BY <2>1, <2>2, <2>3 DEF process_ring_updates
<1>7. CASE m.call = "terminate"
  <2>1. TerminatedByNotifier
    BY <1>7 DEF Receive
  <2> QED BY <1>1, <1>3, <2>1 DEF TerminatedByNotifier, ringData
<1> QED BY <1>5, <1>6, <1>7

\* Whatever happens, nobody else writes the books.
LEMMA SubscriberStep ==
  ASSUME ClearsAll, SubscriberInv, [Next]_subscriberVars
  PROVE  SubscriberInv'
<1>1. ASSUME UNCHANGED <<ringRoots, collectionStates, subscription>>
      PROVE  SubscriberInv'
  BY <1>1 DEF SubscriberInv, IsActive
<1>3. ASSUME clear_all_ring_data PROVE SubscriberInv'
  BY <1>3, EmptyBooks, ClearedEmpty DEF clear_all_ring_data, SubscriberInv
<1>5. ASSUME NEW m \in Messages, Receive(m) PROVE SubscriberInv'
  <2>1. /\ m.call \in {"init", "update", "terminate"}
        /\ m.call # "terminate" => IsBatch(m)
    BY MessagesAssumption DEF IsBatch
  <2> QED BY <1>5, <2>1, ReceiveStep
<1>6. ASSUME NEW c \in Collections, ReplayMissingRoots(c) PROVE SubscriberInv'
  <2>1. /\ UNCHANGED <<ringRoots, subscription>>
        /\ collectionStates' = [collectionStates EXCEPT
             ![c].missing_indices = Attempted(c).missing_indices]
        /\ IsActive
    BY <1>6 DEF ReplayMissingRoots, authorize_replay_missing_roots
  <2>2. /\ collectionStates[c] \in StateType /\ ringRoots[c] \in Windows
        /\ BooksExact(ringRoots[c], collectionStates[c])
        /\ collectionStates \in [Collections -> StateType]
    BY DEF SubscriberInv
  <2>3. PICK missing : missing = Attempted(c).missing_indices
    OBVIOUS
  <2>4. \A r \in DOMAIN collectionStates[c].missing_indices :
           collectionStates[c].missing_indices[r] < ReplayAbandonThreshold
    BY <2>2 DEF BooksExact
  <2>5. /\ missing \in MissingType
        /\ DOMAIN missing \subseteq DOMAIN collectionStates[c].missing_indices
        /\ \A r \in DOMAIN missing : missing[r] < ReplayAbandonThreshold
    BY <2>2, <2>3, <2>4, AttemptedMissing
  <2>6. PICK new \in StateType : /\ new = [collectionStates[c] EXCEPT !.missing_indices = missing]
                                 /\ BooksExact(ringRoots[c], new)
    BY <2>2, <2>5, FewerMissing
  <2>7. collectionStates' = [collectionStates EXCEPT ![c] = new]
    BY <2>1, <2>2, <2>3, <2>6
  <2>8. IsActive'
    BY <2>1 DEF IsActive
  <2> QED BY <2>1, <2>2, <2>6, <2>7, <2>8 DEF SubscriberInv
<1>7. CASE LocalNext
  <2>1. CASE TerminatedLocally
    BY <1>3, <2>1 DEF TerminatedLocally
  <2>2. CASE \E c \in Collections : SubmitReplay(c) \/ DropReplay(c)
    BY <1>1, <2>2 DEF SubmitReplay, DropReplay, ringData
  <2>3. CASE \E c \in Collections : ReplayMissingRoots(c)
    BY <1>6, <2>3
  <2>4. CASE SubscriberTick
    BY <1>1, <2>4 DEF SubscriberTick
  <2> QED BY <1>7, <2>1, <2>2, <2>3, <2>4 DEF LocalNext
<1>8. CASE RequestExecuted
  BY <1>1, <1>8 DEF RequestExecuted, ringData
<1>9. CASE UNCHANGED subscriberVars
  BY <1>1, <1>9 DEF subscriberVars, ringData
<1> QED BY <1>5, <1>7, <1>8, <1>9 DEF Next

\* The subscriber starts knowing nothing.
LEMMA SubscriberStart == Init => SubscriberInv
BY EmptyBooks DEF Init, SubscriberInv, EmptyRoots, EmptyWindows

\* Whatever messages come, in whatever order, the hand-kept books of every
\* collection are right: ring_count, disjoint index sets, their limits.
THEOREM StateExactCorrect == ASSUME ClearsAll PROVE Spec => []StateExact
<1>1. SubscriberInv => StateExact
  BY DEF SubscriberInv, StateExact, CollectionExact, BooksExact
<1>2. SubscriberInv /\ [Next]_subscriberVars => SubscriberInv'
  BY SubscriberStep
<1> QED BY <1>1, <1>2, SubscriberStart, PTL DEF Spec

\* A subscription that is not active keeps nothing of an earlier one.
THEOREM NothingKeptCorrect == ASSUME ClearsAll PROVE Spec => []NothingKept
<1>1. SubscriberInv => NothingKept
  BY DEF SubscriberInv, NothingKept, EmptyRoots, EmptyWindows, NoStates
<1>2. SubscriberInv /\ [Next]_subscriberVars => SubscriberInv'
  BY SubscriberStep
<1> QED BY <1>1, <1>2, SubscriberStart, PTL DEF Spec

-----------------------------------------------------------------------------
(* Gaps, for all collections and all steps.                                *)

\* Every ring of every collection is covered; `gone` are the pairs exempt.
AllCovered(windows, states, gone) ==
  \A c \in Collections :
    /\ BelowNext(windows[c], states[c])
    /\ Covered(windows[c], states[c], states[c].next_ring_index,
               {r \in RingIndices : <<c, r>> \in gone})

\* An empty collection has no gap.
LEMMA EmptyCovered == ASSUME NEW gone PROVE AllCovered(EmptyRoots, NoStates, gone)
<1>1. StoredIn(EmptyWindows) = {}
  BY DEF StoredIn, EmptyWindows
<1>2. ASSUME NEW r \in RingIndices PROVE ~(r < 0)
  BY SubscriberAssumption DEF RingIndices
<1> QED BY <1>1, <1>2 DEF AllCovered, BelowNext, Covered, EmptyRoots, NoStates, DefaultState

\* A batch leaves no gap.
LEMMA BatchCovers ==
  ASSUME RoomForAll, NEW windows \in [Collections -> Windows],
         NEW states \in [Collections -> StateType],
         \A c \in Collections : BooksExact(windows[c], states[c]),
         NEW gone, AllCovered(windows, states, gone),
         NEW m, IsBatch(m), KnownRings(m), StoreBatch(windows, states, m)
  PROVE  AllCovered(ringRoots', collectionStates', gone)
<1>1. PICK c \in Collections : c = m.identifier
  BY DEF IsBatch
<1>2. PICK exempt : exempt = {r \in RingIndices : <<c, r>> \in gone}
  OBVIOUS
<1>3. /\ windows[c] \in Windows /\ states[c] \in StateType /\ BooksExact(windows[c], states[c])
      /\ BelowNext(windows[c], states[c])
      /\ Covered(windows[c], states[c], states[c].next_ring_index, exempt)
  BY <1>2 DEF AllCovered
<1>4. PICK w \in Windows, s \in StateType :
        /\ w = StoreWindows(windows[c], m) /\ s = store_ring_roots(windows[c], states[c], m)
        /\ BooksExact(w, s)
  BY <1>3, StoredAfter, StoreRootsBooks
<1>5. PICK oldNext \in Nat : oldNext = states[c].next_ring_index
  BY <1>3 DEF StateType
<1>6. BelowNext(w, s) /\ Covered(w, s, oldNext, exempt)
  BY <1>3, <1>4, <1>5, StoreCovers
<1>7. PICK t : t = [s EXCEPT !.missing_indices = detect_missing_rings(StoredIn(w), s, oldNext)]
  OBVIOUS
<1>8. BelowNext(w, t) /\ Covered(w, t, t.next_ring_index, exempt)
  <2>1. \A r \in RingIndices :
          r < oldNext => r \in StoredIn(w) \cup s.deleted_indices
                               \cup DOMAIN s.missing_indices \cup exempt
    BY <1>6 DEF Covered
  <2> QED BY <1>4, <1>6, <1>7, <2>1, DetectCovers
<1>9. ringRoots' = [windows EXCEPT ![c] = w] /\ collectionStates' = [states EXCEPT ![c] = t]
  BY <1>1, <1>4, <1>5, <1>7 DEF StoreBatch
<1>10. /\ ringRoots'[c] = w /\ collectionStates'[c] = t
       /\ \A d \in Collections \ {c} :
            ringRoots'[d] = windows[d] /\ collectionStates'[d] = states[d]
  BY <1>9
<1>11. ASSUME NEW d \in Collections
       PROVE  /\ BelowNext(ringRoots'[d], collectionStates'[d])
              /\ Covered(ringRoots'[d], collectionStates'[d],
                         collectionStates'[d].next_ring_index,
                         {r \in RingIndices : <<d, r>> \in gone})
  <2>1. CASE d = c
    BY <1>2, <1>8, <1>10, <2>1
  <2>2. CASE d # c
    BY <1>10, <2>2 DEF AllCovered
  <2> QED BY <2>1, <2>2
<1> QED BY <1>11 DEF AllCovered

\* What a message does to the exempt pairs: a subscription that starts anew,
\* or ends, forgets them.
LEMMA ReceiveCovers ==
  ASSUME ClearsAll, RoomForAll, SubscriberInv, NEW m, Receive(m),
         m.call \in {"init", "update", "terminate"},
         m.call # "terminate" => IsBatch(m) /\ KnownRings(m),
         IsActive => subscription = ActiveAt(subscription.initialized_at_sequence),
         IsActive => subscription.initialized_at_sequence \in Int,
         NEW gone, AllCovered(ringRoots, collectionStates, gone)
  PROVE  AllCovered(ringRoots', collectionStates',
                    IF IsActive /\ subscription' # subscription THEN {} ELSE gone)
<1>1. PICK left : left = IF IsActive /\ subscription' # subscription THEN {} ELSE gone
  OBVIOUS
<1> SUFFICES AllCovered(ringRoots', collectionStates', left)
  BY <1>1
<1>2. ASSUME UNCHANGED <<ringRoots, collectionStates, subscription>>
      PROVE  AllCovered(ringRoots', collectionStates', left)
  BY <1>1, <1>2
<1>3. ASSUME StoreBatch(EmptyRoots, NoStates, m), IsBatch(m), KnownRings(m)
      PROVE  AllCovered(ringRoots', collectionStates', left)
  BY <1>3, EmptyBooks, EmptyCovered, BatchCovers
<1>4. ASSUME StoreBatch(ringRoots, collectionStates, m), IsBatch(m), KnownRings(m), left = gone
      PROVE  AllCovered(ringRoots', collectionStates', left)
  BY <1>4, BatchCovers DEF SubscriberInv
<1>5. CASE m.call = "init"
  <2>1. initialize_ring_roots(m) /\ IsBatch(m) /\ KnownRings(m)
    BY <1>5 DEF Receive
  <2>2. PICK at : at = subscription.initialized_at_sequence
    OBVIOUS
  <2>3. PICK seq \in Int : seq = m.sequence
    BY <2>1 DEF IsBatch
  <2>4. CASE IsActive /\ seq < at
    BY <1>2, <2>1, <2>2, <2>3, <2>4 DEF initialize_ring_roots, ringData
  <2>5. CASE IsActive /\ seq > at
    <3>1. \E windows \in ClearedRoots : StoreBatch(windows, NoStates, m)
      BY <2>1, <2>2, <2>3, <2>5 DEF initialize_ring_roots
    <3>2. StoreBatch(EmptyRoots, NoStates, m)
      BY <3>1, ClearedEmpty
    <3> QED BY <1>3, <2>1, <3>2
  <2>6. CASE ~IsActive
    <3>1. StoreBatch(ringRoots, collectionStates, m)
      BY <2>1, <2>6 DEF initialize_ring_roots
    <3>2. left = gone
      BY <1>1, <2>6
    <3> QED BY <1>4, <2>1, <3>1, <3>2
  <2>7. CASE IsActive /\ seq = at
    <3>1. StoreBatch(ringRoots, collectionStates, m) /\ subscription' = ActiveAt(m.sequence)
      BY <2>1, <2>2, <2>3, <2>7 DEF initialize_ring_roots
    <3>2. subscription' = subscription
      BY <2>2, <2>3, <2>7, <3>1
    <3>3. left = gone
      BY <1>1, <3>2
    <3> QED BY <1>4, <2>1, <3>1, <3>3
  <2> QED BY <2>2, <2>3, <2>4, <2>5, <2>6, <2>7
<1>6. CASE m.call = "update"
  <2>1. process_ring_updates(m) /\ IsBatch(m) /\ KnownRings(m)
    BY <1>6 DEF Receive
  <2>2. CASE UNCHANGED <<ringData, subscription>>
    BY <1>2, <2>2 DEF ringData
  <2>3. CASE UNCHANGED subscription /\ StoreBatch(ringRoots, collectionStates, m)
    <3>1. left = gone
      BY <1>1, <2>3
    <3> QED BY <1>4, <2>1, <2>3, <3>1
  <2> QED BY <2>1, <2>2, <2>3 DEF process_ring_updates
<1>7. CASE m.call = "terminate"
  <2>1. TerminatedByNotifier
    BY <1>7 DEF Receive
  <2>2. CASE clear_all_ring_data
    BY <2>2, ClearedEmpty, EmptyCovered DEF clear_all_ring_data
  <2>3. CASE UNCHANGED <<ringData, subscription>>
    BY <1>2, <2>3 DEF ringData
  <2> QED BY <1>1, <2>1, <2>2, <2>3 DEF TerminatedByNotifier
<1> QED BY <1>5, <1>6, <1>7

\* A replay that gives up on rings leaves gaps there, and nowhere else.
LEMMA ReplayCovers ==
  ASSUME SubscriberInv, NEW c \in Collections, ReplayMissingRoots(c),
         NEW gone, AllCovered(ringRoots, collectionStates, gone)
  PROVE  AllCovered(ringRoots', collectionStates',
           gone \cup {<<c, r>> : r \in DOMAIN collectionStates[c].missing_indices
                                       \ DOMAIN collectionStates'[c].missing_indices})
<1>1. PICK now : now = gone \cup
        {<<c, r>> : r \in DOMAIN collectionStates[c].missing_indices
                          \ DOMAIN collectionStates'[c].missing_indices}
  OBVIOUS
<1>2. /\ ringRoots' = ringRoots
      /\ collectionStates' = [collectionStates EXCEPT
           ![c].missing_indices = Attempted(c).missing_indices]
  BY DEF ReplayMissingRoots
<1>3. /\ collectionStates'[c].next_ring_index = collectionStates[c].next_ring_index
      /\ collectionStates'[c].deleted_indices = collectionStates[c].deleted_indices
      /\ \A d \in Collections \ {c} : collectionStates'[d] = collectionStates[d]
  BY <1>2 DEF SubscriberInv, StateType
<1>4. ASSUME NEW d \in Collections
      PROVE  /\ BelowNext(ringRoots'[d], collectionStates'[d])
             /\ Covered(ringRoots'[d], collectionStates'[d],
                        collectionStates'[d].next_ring_index,
                        {r \in RingIndices : <<d, r>> \in now})
  <2>1. /\ BelowNext(ringRoots[d], collectionStates[d])
        /\ Covered(ringRoots[d], collectionStates[d], collectionStates[d].next_ring_index,
                   {r \in RingIndices : <<d, r>> \in gone})
    BY DEF AllCovered
  <2>2. CASE d = c
    <3>1. BelowNext(ringRoots'[d], collectionStates'[d])
      BY <1>2, <1>3, <2>1, <2>2 DEF BelowNext
    <3>2. ASSUME NEW r \in RingIndices, r < collectionStates'[d].next_ring_index
          PROVE  r \in StoredIn(ringRoots'[d]) \cup collectionStates'[d].deleted_indices
                       \cup DOMAIN collectionStates'[d].missing_indices
                       \cup {q \in RingIndices : <<d, q>> \in now}
      <4>1. r \in StoredIn(ringRoots[d]) \cup collectionStates[d].deleted_indices
                  \cup DOMAIN collectionStates[d].missing_indices
                  \cup {q \in RingIndices : <<d, q>> \in gone}
        BY <1>3, <2>1, <2>2, <3>2 DEF Covered
      <4> QED BY <1>1, <1>2, <1>3, <2>2, <3>2, <4>1
    <3> QED BY <3>1, <3>2 DEF Covered
  <2>3. CASE d # c
    <3>1. {r \in RingIndices : <<d, r>> \in now} = {r \in RingIndices : <<d, r>> \in gone}
      BY <1>1, <2>3
    <3> QED BY <1>2, <1>3, <2>1, <2>3, <3>1
  <2> QED BY <2>2, <2>3
<1>5. AllCovered(ringRoots', collectionStates', now)
  BY <1>4 DEF AllCovered
<1> QED BY <1>1, <1>5
==============================================================================
