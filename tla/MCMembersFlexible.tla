---------------------------- MODULE MCMembersFlexible ----------------------------
(***************************************************************************)
(* Members from a state in which rings can be merged: rings 0 and 1 were   *)
(* filled and built, removal sessions left one member in each, both were   *)
(* rebuilt (revision 2) and their old roots cleaned up; ring 2 is current. *)
(* The members suspended on the way are keys outside of Keys.              *)
(***************************************************************************)
EXTENDS Members, TLC

CONSTANTS m0, m1           \* the members left in ring 0 and in ring 1

ASSUME MergeAssumption ==
  m0 \in Keys /\ m1 \in Keys /\ m0 # m1 /\ MaxRingIndex >= 2 /\ MaxRevision >= 2

IntoLower == {<<0, 1>>}
BothWays == {<<0, 1>>, <<1, 0>>}

MergeInit ==
  /\ collection = "Live" /\ onboardingSize \in OnboardingSizes /\ sessions = 0
  /\ started = 0 /\ created = 1
  /\ members = [k \in Keys |-> CASE k = m0 -> Included(0, 0, 0)
                                 [] k = m1 -> Included(1, 0, 0)
                                 [] OTHER -> NotMember]
  /\ onboardingQueue = <<>> /\ queuePageIndices = <<0, 0>>
  /\ currentRingIndex = 2 /\ activeMembers = 2
  /\ ringKeys = [r \in Rings |-> [p \in RingPages |->
       CASE r = 0 /\ p = 0 -> <<m0>> [] r = 1 /\ p = 0 -> <<m1>> [] OTHER -> <<>>]]
  /\ ringStatus = [r \in {0, 1} |->
                     [total |-> 1, included |-> 1, immutable |-> FALSE]]
  /\ root = [r \in {0, 1} |->
               [revision |-> 2, keys |-> {IF r = 0 THEN m0 ELSE m1}]]
  /\ oldRoots = <<>>
  /\ pendingSuspensions = [r \in Rings |-> {}]
  /\ staleRings = {} /\ ringDeletionQueue = {}
  /\ announced = [r \in Rings |-> IF r \in {0, 1} THEN 2 ELSE Deleted]

FlexibleSpec == MergeInit /\ [][Next]_vars
==============================================================================
