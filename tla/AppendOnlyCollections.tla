------------------------ MODULE AppendOnlyCollections ------------------------
(***************************************************************************)
(* An append-only collection of pallets/members as the pallets that use it *)
(* through AppendOnlyMembers see it (Members.tla has the details): a key   *)
(* waits until a root covers it, rings fill up in turn, and the keys of a  *)
(* removed ring stay known until its pages are deleted.                    *)
(***************************************************************************)
EXTENDS StorageMaps

CONSTANTS
  RingCapacity,
  MaxRings              \* bound: rings of a collection, numbered from 1

ASSUME CollectionAssumption ==
  RingCapacity \in Nat \ {0} /\ MaxRings \in Nat \ {0}

NoTime == -1
OpenRing == [keys |-> {}, immutable_since |-> NoTime]

create_collection == [waiting |-> {}, rings |-> <<OpenRing>>, leaving |-> {}]

RingKeys(c, i) == IF i \in DOMAIN c.rings THEN c.rings[i].keys ELSE {}
AllRingKeys(c) == UNION {c.rings[i].keys : i \in DOMAIN c.rings}
IsMember(c, k) == k \in c.waiting \cup AllRingKeys(c) \cup c.leaving

\* Fails when one of the keys is a member.
CanAdd(c, S) == \A k \in S : ~IsMember(c, k)
add_members(c, S) == [c EXCEPT !.waiting = @ \cup S]

\* The worker onboards a key and builds the root; a full ring becomes
\* immutable and the next one is opened.
CanOnboard(c, k) ==
  /\ k \in c.waiting
  /\ Cardinality(Last(c.rings).keys) + 1 = RingCapacity => Len(c.rings) < MaxRings
Onboarded(c, k, now) ==
  LET keys == Last(c.rings).keys \cup {k}
      full == Cardinality(keys) = RingCapacity
      built == [keys |-> keys, immutable_since |-> IF full THEN now ELSE NoTime]
  IN [c EXCEPT !.waiting = @ \ {k},
               !.rings = Front(@) \o <<built>> \o (IF full THEN <<OpenRing>> ELSE <<>>)]

\* The root and the status of the ring are gone at once, its keys later.
remove_ring(c, i) ==
  [c EXCEPT !.rings[i] = OpenRing, !.leaving = @ \cup c.rings[i].keys]
delete_ring_page(c, page) == [c EXCEPT !.leaving = @ \ page]
==============================================================================
