-------------------------- MODULE ProofOfInk_proofs --------------------------
(***************************************************************************)
(* The books of ProofOfInk, the ownership of personal ids and designs, the *)
(* referral tickets and the evidence behind a proven candidate, for any    *)
(* number of accounts, ids, designs, tickets and configurations.           *)
(***************************************************************************)
EXTENDS ProofOfInk, StorageMaps_proofs

-----------------------------------------------------------------------------
(* Types.                                                                  *)

\* The shapes of candidates, people and pending statements.
Designs == ElectiveDesigns \cup {"procedural"}
Credibilities == {ByDeposit, Invited} \cup {Referred(r) : r \in Ids}

\* A candidate who applied, who selected a design, who was proven.
AppliedType == [status : {"Applied"}, cred : Credibilities, age : Nat]
SelectedType ==
  [status : {"Selected"}, cred : Credibilities, age : Nat, reserved : Ids,
   design : Designs, allocation : {"Initial", "InitDone", "Full"},
   judging : SUBSET Nat, failed : Nat, since_ticket : Nat]
ProvenType ==
  [status : {"Proven"}, cred : Credibilities, reserved : Ids, design : Designs]
CandidateType == AppliedType \cup SelectedType \cup ProvenType

\* A person and a statement that awaits its verdict.
PersonType == [design : Designs, active : SUBSET Accounts, allowed : Nat,
               pending : Nat, banned : BOOLEAN]
StatementType == [who : Accounts, strict : BOOLEAN]

\* The shapes of the storage items the properties are about; a ticket is
\* pending at the oracle as long as the pallet remembers its statement.
InkTypes ==
  /\ IsPartialFunction(candidates, Accounts, CandidateType)
  /\ IsPartialFunction(people, Ids, PersonType)
  /\ referralTickets \in [Ids -> SUBSET Tickets]
  /\ IsPartialFunction(committedDesigns, ElectiveDesigns, {"Reserved", "Committed"})
  /\ allocationCount \in Nat
  /\ config \in Configs
  /\ nextId \in 0..MaxIds
  /\ reservedIds \in SUBSET Ids /\ persons \in SUBSET Ids
  /\ nextTicket \in Nat
  /\ IsPartialFunction(statements, 0..(nextTicket - 1), StatementType)
  /\ DOMAIN statements = pending
  /\ deposits \in SUBSET Accounts
  /\ sufficients \in [Accounts -> Nat]

\* The status of a candidate says which fields it has.
LEMMA CandidateCases ==
  ASSUME InkTypes, NEW a \in DOMAIN candidates
  PROVE  /\ a \in Accounts
         /\ candidates[a].cred \in Credibilities
         /\ IsApplied(a) => candidates[a] \in AppliedType
         /\ IsSelected(a) => candidates[a] \in SelectedType
         /\ IsProven(a) => candidates[a] \in ProvenType
         /\ IsApplied(a) \/ IsSelected(a) \/ IsProven(a)
BY DEF InkTypes, IsPartialFunction, CandidateType, AppliedType, SelectedType,
       ProvenType, IsApplied, IsSelected, IsProven

\* Replacing a candidate keeps the map of candidates typed.
LEMMA CandidateUpdate ==
  ASSUME InkTypes, NEW a \in DOMAIN candidates, NEW c \in CandidateType
  PROVE  IsPartialFunction([candidates EXCEPT ![a] = c], Accounts, CandidateType)
BY DEF InkTypes, IsPartialFunction

\* So does replacing a person.
LEMMA PersonUpdate ==
  ASSUME InkTypes, NEW r \in DOMAIN people, NEW p \in PersonType
  PROVE  IsPartialFunction([people EXCEPT ![r] = p], Ids, PersonType)
BY DEF InkTypes, IsPartialFunction

\* Only actions that touch none of the typed variables but the candidates.
LEMMA OnlyCandidates ==
  ASSUME InkTypes, IsPartialFunction(candidates', Accounts, CandidateType),
         UNCHANGED <<referralVars, committedDesigns, settingVars,
                     allocationCount, idVars, oracleState, deposits, sufficients>>
  PROVE  InkTypes'
BY DEF InkTypes, referralVars, settingVars, idVars, oracleState, oracleVars

\* A decremented counter is a natural number.
LEMMA DecType ==
  ASSUME NEW n \in Nat
  PROVE  /\ Max({n - 1, 0}) \in Nat
         /\ Max({n - 1, 0}) = IF n = 0 THEN 0 ELSE n - 1
BY MaxOfTwo

\* So are the account references.
LEMMA DecSufficients ==
  ASSUME NEW s \in [Accounts -> Nat], NEW a \in Accounts
  PROVE  /\ Dec(s, a) \in [Accounts -> Nat]
         /\ Dec(s, a)[a] = IF s[a] = 0 THEN 0 ELSE s[a] - 1
         /\ \A b \in Accounts \ {a} : Dec(s, a)[b] = s[b]
<1>1. s[a] \in Nat
  OBVIOUS
<1>2. Max({s[a] - 1, 0}) \in Nat /\ Max({s[a] - 1, 0}) = IF s[a] = 0 THEN 0 ELSE s[a] - 1
  BY <1>1, DecType
<1>3. Dec(s, a) = [s EXCEPT ![a] = Max({s[a] - 1, 0})]
  BY DEF Dec
<1> QED BY <1>2, <1>3

\* A person without the referral of a, and perhaps banned.
LEMMA ReferralOverPerson ==
  ASSUME InkTypes, NEW r \in DOMAIN people, NEW a, NEW ban \in BOOLEAN
  PROVE  [people[r] EXCEPT !.active = @ \ {a}, !.banned = @ \/ ban] \in PersonType
<1>1. people[r] \in PersonType
  BY DEF InkTypes, IsPartialFunction
<1>2. PICK p \in PersonType : p = people[r]
  BY <1>1
<1>3. [p EXCEPT !.active = @ \ {a}, !.banned = @ \/ ban] \in PersonType
  <2>1. (p.banned \/ ban) \in BOOLEAN
    OBVIOUS
  <2> QED BY <2>1 DEF PersonType
<1> QED BY <1>2, <1>3

-----------------------------------------------------------------------------
(* What an action does to a candidacy.  Every action is one of these; the  *)
(* invariants below depend on nothing else.                                *)

\* The same candidate, as far as the books are concerned.
Alike(c, d) ==
  /\ d.status = c.status /\ d.cred = c.cred
  /\ c.status # "Applied" => d.reserved = c.reserved /\ d.design = c.design

\* An operation on one candidate leaves the others alike.
OthersStay(a) ==
  \A b \in Accounts \ {a} :
    /\ b \in DOMAIN candidates' <=> b \in DOMAIN candidates
    /\ b \in DOMAIN candidates => Alike(candidates[b], candidates'[b])

\* Nobody is referred, or stops being referred.
PeopleStay ==
  /\ DOMAIN people' = DOMAIN people
  /\ \A r \in DOMAIN people : /\ people'[r].design = people[r].design
                              /\ people'[r].active = people[r].active

\* The referrer of a, if any, has one referral less.
ReferralEnds(a) ==
  /\ DOMAIN people' = DOMAIN people
  /\ \A r \in DOMAIN people :
       /\ people'[r].design = people[r].design
       /\ people'[r].active = IF candidates[a].cred = Referred(r)
                              THEN people[r].active \ {a} ELSE people[r].active

\* A person gives out a referral ticket or takes one back.
TicketMoves(r) ==
  \E t \in Tickets :
    \/ /\ RoomForTickets(r)
       /\ referralTickets' = [referralTickets EXCEPT ![r] = @ \cup {t}]
    \/ referralTickets' = [referralTickets EXCEPT ![r] = @ \ {t}]

\* The effects of operations on the books: of those that touch none of them,
NothingHappens ==
  /\ DOMAIN candidates' = DOMAIN candidates
  /\ \A b \in DOMAIN candidates : Alike(candidates[b], candidates'[b])
  /\ PeopleStay
  /\ UNCHANGED referralTickets \/ \E r \in DOMAIN people : TicketMoves(r)
  /\ UNCHANGED <<committedDesigns, allocationCount, idVars, deposits, sufficients>>

\* of applying with a credibility,
Applying(a, cred) ==
  /\ a \notin DOMAIN candidates /\ a \in DOMAIN candidates' /\ OthersStay(a)
  /\ candidates'[a].status = "Applied" /\ candidates'[a].cred = cred
  /\ deposits' = IF cred = ByDeposit THEN deposits \cup {a} ELSE deposits
  /\ sufficients' = IF cred = ByDeposit THEN sufficients
                    ELSE [sufficients EXCEPT ![a] = @ + 1]
  /\ DOMAIN people' = DOMAIN people
  /\ IF cred.by = "Referred"
     THEN /\ cred.who \in DOMAIN people
          /\ \E t \in referralTickets[cred.who] :
               referralTickets' = [referralTickets EXCEPT ![cred.who] = @ \ {t}]
     ELSE UNCHANGED referralTickets
  /\ \A r \in DOMAIN people :
       /\ people'[r].design = people[r].design
       /\ people'[r].active = IF cred = Referred(r)
                              THEN people[r].active \cup {a} ELSE people[r].active
  /\ UNCHANGED <<committedDesigns, allocationCount, idVars>>

\* of committing to a design with a reserved id,
Committing(a, id, d) ==
  /\ IsApplied(a) /\ a \in DOMAIN candidates' /\ OthersStay(a)
  /\ candidates'[a].status = "Selected" /\ candidates'[a].cred = candidates[a].cred
  /\ candidates'[a].reserved = id /\ candidates'[a].design = d
  /\ id \notin reservedIds /\ id \notin persons /\ id < nextId'
  /\ nextId <= nextId'
  /\ reservedIds' = reservedIds \cup {id}
  /\ d \in ElectiveDesigns => d \notin DOMAIN committedDesigns
  /\ committedDesigns' = IF d \in ElectiveDesigns
                         THEN Insert(committedDesigns, d, "Reserved")
                         ELSE committedDesigns
  /\ allocationCount' = allocationCount + 1
  /\ PeopleStay
  /\ UNCHANGED <<referralTickets, persons, deposits, sufficients>>

\* of a verdict that proves the candidate,
Proving(a) ==
  /\ IsSelected(a) /\ a \in DOMAIN candidates' /\ OthersStay(a)
  /\ candidates'[a].status = "Proven" /\ candidates'[a].cred = candidates[a].cred
  /\ candidates'[a].reserved = candidates[a].reserved
  /\ candidates'[a].design = candidates[a].design
  /\ committedDesigns' = IF candidates[a].design \in ElectiveDesigns
                         THEN Insert(committedDesigns, candidates[a].design, "Committed")
                         ELSE committedDesigns
  /\ allocationCount' = Max({allocationCount - 1, 0})
  /\ deposits' = deposits \ {a}
  /\ ReferralEnds(a)
  /\ UNCHANGED <<referralTickets, idVars, sufficients>>

\* The candidacy is over without success.
Ending(a) ==
  /\ a \in DOMAIN candidates /\ a \notin DOMAIN candidates' /\ OthersStay(a)
  /\ deposits' = deposits \ {a}
  /\ sufficients' = IF candidates[a].cred = ByDeposit THEN sufficients
                    ELSE Dec(sufficients, a)
  /\ ReferralEnds(a)
  /\ UNCHANGED referralTickets

\* of giving up,
Flaking(a) ==
  /\ IsApplied(a) /\ Ending(a)
  /\ UNCHANGED <<committedDesigns, allocationCount, idVars>>

\* of being dropped by a verdict or a timeout,
Dropping(a) ==
  /\ IsSelected(a) /\ Ending(a)
  /\ reservedIds' = reservedIds \ {candidates[a].reserved}
  /\ allocationCount' = Max({allocationCount - 1, 0})
  /\ committedDesigns' = Without(committedDesigns, candidates[a].design)
  /\ UNCHANGED <<nextId, persons>>

\* and of becoming a person.
Registering(a) ==
  LET c == candidates[a]
  IN /\ IsProven(a) /\ a \notin DOMAIN candidates' /\ OthersStay(a)
     /\ c.reserved \in reservedIds
     /\ reservedIds' = reservedIds \ {c.reserved}
     /\ persons' = persons \cup {c.reserved}
     /\ people' = Insert(people, c.reserved, NewPerson(c.design))
     /\ sufficients' = IF c.cred = ByDeposit THEN sufficients ELSE Dec(sufficients, a)
     /\ UNCHANGED <<referralTickets, committedDesigns, allocationCount, nextId, deposits>>

\* Every step has one of these effects.
InkEffect ==
  \/ NothingHappens
  \/ \E a \in Accounts :
       \/ \E cred \in Credibilities : Applying(a, cred)
       \/ \E id \in Ids, d \in Designs : Committing(a, id, d)
       \/ Proving(a) \/ Flaking(a) \/ Dropping(a) \/ Registering(a)

\* The kind of a credibility decides it, up to the referrer.
LEMMA CredibilityKinds ==
  ASSUME NEW c \in Credibilities
  PROVE  /\ c.by = "Deposit" <=> c = ByDeposit
         /\ c.by = "Invited" <=> c = Invited
         /\ c.by = "Referred" <=> c = Referred(c.who)
         /\ \A r : c = Referred(r) <=> c.by = "Referred" /\ c.who = r
         /\ c.by = "Referred" => c.who \in Ids
BY DEF Credibilities, ByDeposit, Invited, Referred

\* Replacing, adding or removing one candidate leaves the others alone.
LEMMA OthersOnUpdate ==
  ASSUME InkTypes, NEW a, NEW c,
         \/ candidates' = [candidates EXCEPT ![a] = c]
         \/ candidates' = Insert(candidates, a, c)
         \/ candidates' = Without(candidates, a)
  PROVE  OthersStay(a)
BY DEF InkTypes, IsPartialFunction, OthersStay, Insert, Without, Alike

\* A candidate that leaves.
LEMMA CandidateLeaves ==
  ASSUME InkTypes, NEW a, candidates' = Without(candidates, a)
  PROVE  /\ IsPartialFunction(candidates', Accounts, CandidateType)
         /\ a \notin DOMAIN candidates' /\ OthersStay(a)
<1>1. OthersStay(a)
  BY OthersOnUpdate
<1>2. IsPartialFunction(candidates, Accounts, CandidateType)
  BY DEF InkTypes
<1> QED BY <1>1, <1>2 DEF IsPartialFunction, Without

\* What giving up the credibility of a candidate does to the books.
LEMMA SpentEffect ==
  ASSUME InkTypes, NEW a \in DOMAIN candidates, NEW ban \in BOOLEAN,
         CredibilitySpent(a, ban)
  PROVE  /\ deposits' = deposits \ {a} /\ deposits' \in SUBSET Accounts
         /\ sufficients' = IF candidates[a].cred = ByDeposit THEN sufficients
                           ELSE Dec(sufficients, a)
         /\ sufficients' \in [Accounts -> Nat]
         /\ ReferralEnds(a)
         /\ IsPartialFunction(people', Ids, PersonType)
<1> DEFINE cred == candidates[a].cred
           r == cred.who
<1>1. a \in Accounts /\ cred \in Credibilities
  BY CandidateCases
<1>2. /\ cred.by = "Deposit" <=> cred = ByDeposit
      /\ \A q : cred = Referred(q) <=> cred.by = "Referred" /\ cred.who = q
  BY <1>1, CredibilityKinds
<1>3. sufficients \in [Accounts -> Nat] /\ deposits \in SUBSET Accounts
  BY DEF InkTypes
<1>4. Dec(sufficients, a) \in [Accounts -> Nat]
  BY <1>1, <1>3, DecSufficients
<1>5. /\ deposits' = deposits \ {a}
      /\ sufficients' = IF cred = ByDeposit THEN sufficients ELSE Dec(sufficients, a)
  BY <1>2 DEF CredibilitySpent
<1>6. /\ DOMAIN people \subseteq Ids /\ people \in [DOMAIN people -> PersonType]
  BY DEF InkTypes, IsPartialFunction
<1>7. CASE people' = people /\ (cred.by = "Referred" => r \notin DOMAIN people)
  BY <1>2, <1>3, <1>4, <1>5, <1>6, <1>7 DEF ReferralEnds, IsPartialFunction
<1>8. CASE /\ cred.by = "Referred" /\ r \in DOMAIN people
           /\ people' = [people EXCEPT ![r].active = @ \ {a}, ![r].banned = @ \/ ban]
  <2> DEFINE p == [people[r] EXCEPT !.active = @ \ {a}, !.banned = @ \/ ban]
  <2>1. p \in PersonType
    BY <1>8, ReferralOverPerson
  <2>2. people' = [people EXCEPT ![r] = p]
    BY <1>6, <1>8
  <2>3. people[r] \in PersonType
    BY <1>6, <1>8
  <2>4. p.active = people[r].active \ {a} /\ p.design = people[r].design
    BY <2>3 DEF PersonType
  <2> HIDE DEF p
  <2>5. IsPartialFunction(people', Ids, PersonType)
    BY <1>6, <1>8, <2>1, <2>2 DEF IsPartialFunction
  <2>6. ReferralEnds(a)
    BY <1>2, <1>6, <1>8, <2>2, <2>4 DEF ReferralEnds
  <2> QED BY <1>3, <1>4, <1>5, <2>5, <2>6
<1> QED BY <1>7, <1>8 DEF CredibilitySpent, ReferralOver

\* apply, apply_with_signature and apply_with_invitation.
LEMMA ApplyEffect ==
  ASSUME InkTypes, NEW a \in Accounts, NEW cred \in Credibilities,
         NewCandidate(a, cred),
         \/ cred = ByDeposit /\ apply(a)
         \/ \E r \in Ids, t \in Tickets : cred = Referred(r) /\ apply_with_signature(a, r, t)
         \/ \E i \in Inviters, t \in InviteTickets :
              cred = Invited /\ apply_with_invitation(a, i, t)
  PROVE  InkTypes' /\ InkEffect
<1> USE DEF referralVars, settingVars, idVars, oracleState, oracleVars
<1>1. /\ a \notin DOMAIN candidates
      /\ candidates' = Insert(candidates, a, Applied(cred, 0))
  BY DEF NewCandidate
<1>2. PICK c \in CandidateType :
        c = Applied(cred, 0) /\ c.status = "Applied" /\ c.cred = cred
  <2>1. Applied(cred, 0) \in CandidateType
    BY DEF Applied, CandidateType, AppliedType
  <2>2. Applied(cred, 0).status = "Applied" /\ Applied(cred, 0).cred = cred
    BY DEF Applied
  <2> QED BY <2>1, <2>2
<1>3. candidates' = Insert(candidates, a, c)
  BY <1>1, <1>2
<1>4. /\ IsPartialFunction(candidates', Accounts, CandidateType)
      /\ a \in DOMAIN candidates' /\ OthersStay(a)
      /\ candidates'[a].status = "Applied" /\ candidates'[a].cred = cred
  <2>1. IsPartialFunction(candidates, Accounts, CandidateType)
    BY DEF InkTypes
  <2>2. IsPartialFunction(Insert(candidates, a, c), Accounts, CandidateType)
    BY <2>1, InsertType
  <2>3. a \in DOMAIN candidates' /\ candidates'[a] = c
    BY <1>3 DEF Insert
  <2>4. OthersStay(a)
    BY <1>3, OthersOnUpdate
  <2> QED BY <1>2, <1>3, <2>2, <2>3, <2>4
<1>5. /\ DOMAIN people \subseteq Ids /\ people \in [DOMAIN people -> PersonType]
      /\ sufficients \in [Accounts -> Nat]
  BY DEF InkTypes, IsPartialFunction
<1>6. CASE cred = ByDeposit /\ apply(a)
  <2>1. InkTypes'
    BY <1>4, <1>6 DEF InkTypes, apply
  <2>2. \A r : cred # Referred(r)
    BY <1>6 DEF ByDeposit, Referred
  <2>3. cred.by # "Referred"
    BY <1>6 DEF ByDeposit
  <2>4. Applying(a, cred)
    BY <1>1, <1>3, <1>4, <1>6, <2>2, <2>3 DEF Applying, apply
  <2> QED BY <2>1, <2>4 DEF InkEffect
<1>7. ASSUME NEW i \in Inviters, NEW t \in InviteTickets,
             cred = Invited, apply_with_invitation(a, i, t)
      PROVE  InkTypes' /\ InkEffect
  <2>1. InkTypes'
    BY <1>4, <1>5, <1>7 DEF InkTypes, apply_with_invitation
  <2>2. \A r : cred # Referred(r)
    BY <1>7 DEF Invited, Referred
  <2>3. cred.by # "Referred" /\ cred # ByDeposit
    BY <1>7 DEF Invited, ByDeposit
  <2>4. Applying(a, cred)
    BY <1>1, <1>3, <1>4, <1>7, <2>2, <2>3 DEF Applying, apply_with_invitation
  <2> QED BY <2>1, <2>4 DEF InkEffect
<1>8. ASSUME NEW r \in Ids, NEW t \in Tickets,
             cred = Referred(r), apply_with_signature(a, r, t)
      PROVE  InkTypes' /\ InkEffect
  <2> DEFINE p == [people[r] EXCEPT !.active = @ \cup {a}]
  <2>1. r \in DOMAIN people /\ people[r] \in PersonType
    BY <1>5, <1>8 DEF apply_with_signature
  <2>2. /\ p \in PersonType
        /\ p.active = people[r].active \cup {a} /\ p.design = people[r].design
    BY <2>1 DEF PersonType
  <2>3. people' = [people EXCEPT ![r] = p]
    BY <1>5, <1>8 DEF apply_with_signature
  <2> HIDE DEF p
  <2>4. IsPartialFunction(people', Ids, PersonType)
    BY <1>5, <2>1, <2>2, <2>3 DEF IsPartialFunction
  <2>5. referralTickets' \in [Ids -> SUBSET Tickets]
    BY <1>8 DEF apply_with_signature, InkTypes
  <2>6. /\ UNCHANGED <<committedDesigns, settingVars, allocationCount, idVars, oracleState, deposits>>
        /\ sufficients' = [sufficients EXCEPT ![a] = @ + 1]
    BY <1>8 DEF apply_with_signature
  <2>7. InkTypes'
    BY <1>4, <1>5, <2>4, <2>5, <2>6 DEF InkTypes
  <2>8. /\ cred # ByDeposit /\ cred.who = r
        /\ \A q : cred = Referred(q) <=> q = r
    BY <1>8 DEF ByDeposit, Referred
  <2>9. /\ DOMAIN people' = DOMAIN people
        /\ \A q \in DOMAIN people :
             /\ people'[q].design = people[q].design
             /\ people'[q].active = IF cred = Referred(q)
                                    THEN people[q].active \cup {a} ELSE people[q].active
    BY <1>5, <2>1, <2>2, <2>3, <2>8
  <2>10. /\ cred.by = "Referred" /\ t \in referralTickets[r]
         /\ referralTickets' = [referralTickets EXCEPT ![r] = @ \ {t}]
    BY <1>8 DEF apply_with_signature, Referred
  <2>11. Applying(a, cred)
    BY <1>1, <1>3, <1>4, <2>1, <2>6, <2>8, <2>9, <2>10 DEF Applying
  <2> QED BY <2>7, <2>11 DEF InkEffect
<1> QED BY <1>6, <1>7, <1>8

\* A candidate that is replaced by a like one: nothing the books show.
LEMMA LikeEffect ==
  ASSUME InkTypes, NEW a \in DOMAIN candidates, NEW c \in CandidateType,
         Alike(candidates[a], c), candidates' = [candidates EXCEPT ![a] = c],
         UNCHANGED <<people, referralTickets, committedDesigns, allocationCount,
                     idVars, deposits, sufficients>>
  PROVE  /\ IsPartialFunction(candidates', Accounts, CandidateType)
         /\ NothingHappens
<1>1. IsPartialFunction(candidates', Accounts, CandidateType)
  BY CandidateUpdate
<1>2. /\ DOMAIN candidates' = DOMAIN candidates
      /\ \A b \in DOMAIN candidates : Alike(candidates[b], candidates'[b])
  BY DEF InkTypes, IsPartialFunction, Alike
<1> QED BY <1>1, <1>2 DEF NothingHappens, PeopleStay

\* reroll, allocate_full and submit_evidence.
LEMMA WaitingEffect ==
  ASSUME InkTypes, NEW a \in Accounts,
         reroll(a) \/ allocate_full(a) \/ submit_evidence(a)
  PROVE  InkTypes' /\ InkEffect
<1> USE DEF referralVars, settingVars, idVars, oracleState, oracleVars
<1>0. candidates \in [DOMAIN candidates -> CandidateType] /\ nextTicket \in Nat
  BY DEF InkTypes, IsPartialFunction
<1>1. CASE reroll(a)
  <2> DEFINE n == candidates[a].age - config.reroll_timeout
             c == [candidates[a] EXCEPT !.age = n]
  <2>1. a \in DOMAIN candidates /\ candidates[a] \in AppliedType
    BY <1>1, CandidateCases DEF reroll, IsApplied
  <2>2. config.reroll_timeout \in Nat
    BY InkAssumption DEF InkTypes, ConfigType
  <2>3. n \in Nat
    BY <1>1, <2>1, <2>2 DEF reroll, AppliedType
  <2>4. candidates' = [candidates EXCEPT ![a] = c]
    BY <1>0, <1>1, <2>1 DEF reroll
  <2> HIDE DEF n
  <2>5. c \in CandidateType /\ Alike(candidates[a], c)
    BY <2>1, <2>3 DEF CandidateType, AppliedType, Alike
  <2> HIDE DEF c
  <2>6. UNCHANGED <<referralVars, committedDesigns, settingVars, allocationCount,
                    idVars, oracleState, deposits, sufficients>>
    BY <1>1 DEF reroll
  <2>7. IsPartialFunction(candidates', Accounts, CandidateType) /\ NothingHappens
    BY <2>1, <2>4, <2>5, <2>6, LikeEffect
  <2> QED BY <2>6, <2>7, OnlyCandidates DEF InkEffect
<1>2. CASE allocate_full(a)
  <2> DEFINE c == [candidates[a] EXCEPT !.allocation = "Full"]
  <2>1. a \in DOMAIN candidates /\ candidates[a] \in SelectedType
    BY <1>2, CandidateCases DEF allocate_full, IsSelected
  <2>4. candidates' = [candidates EXCEPT ![a] = c]
    BY <1>0, <1>2, <2>1 DEF allocate_full
  <2>5. c \in CandidateType /\ Alike(candidates[a], c)
    BY <2>1 DEF CandidateType, SelectedType, Alike
  <2> HIDE DEF c
  <2>6. UNCHANGED <<referralVars, committedDesigns, settingVars, allocationCount,
                    idVars, oracleState, deposits, sufficients>>
    BY <1>2 DEF allocate_full
  <2>7. IsPartialFunction(candidates', Accounts, CandidateType) /\ NothingHappens
    BY <2>1, <2>4, <2>5, <2>6, LikeEffect
  <2> QED BY <2>6, <2>7, OnlyCandidates DEF InkEffect
<1>3. CASE submit_evidence(a)
  <2> DEFINE c == [candidates[a] EXCEPT !.judging = {nextTicket}]
             s == [who |-> a, strict |-> ~ProbableAcceptable(a)]
  <2>1. a \in DOMAIN candidates /\ candidates[a] \in SelectedType
    BY <1>3, CandidateCases DEF submit_evidence, IsSelected
  <2>4. candidates' = [candidates EXCEPT ![a] = c]
    BY <1>0, <1>3, <2>1 DEF submit_evidence
  <2>5. c \in CandidateType /\ Alike(candidates[a], c)
    BY <1>0, <2>1 DEF CandidateType, SelectedType, Alike
  <2> HIDE DEF c
  <2>6. /\ UNCHANGED <<referralVars, committedDesigns, settingVars, allocationCount,
                       idVars, deposits, sufficients>>
        /\ nextTicket' = nextTicket + 1
        /\ pending' = pending \cup {nextTicket}
        /\ statements' = Insert(statements, nextTicket, s)
    BY <1>3 DEF submit_evidence, judge_statement
  <2>7. IsPartialFunction(candidates', Accounts, CandidateType) /\ NothingHappens
    BY <2>1, <2>4, <2>5, <2>6, LikeEffect
  <2>8. s \in StatementType
    <3>1. (~ProbableAcceptable(a)) \in BOOLEAN
      BY DEF ProbableAcceptable
    <3> QED BY <3>1 DEF StatementType
  <2> HIDE DEF s
  <2>9. IsPartialFunction(statements, 0..(nextTicket' - 1), StatementType)
    BY <1>0, <2>6 DEF InkTypes, IsPartialFunction
  <2>10. nextTicket \in 0..(nextTicket' - 1)
    BY <1>0, <2>6
  <2>11. IsPartialFunction(statements', 0..(nextTicket' - 1), StatementType)
         /\ DOMAIN statements' = pending'
    <3>1. IsPartialFunction(statements', 0..(nextTicket' - 1), StatementType)
      BY <2>6, <2>8, <2>9, <2>10 DEF IsPartialFunction, Insert
    <3>2. DOMAIN statements' = pending'
      BY <2>6 DEF InkTypes, Insert
    <3> QED BY <3>1, <3>2
  <2>12. InkTypes'
    BY <1>0, <2>6, <2>7, <2>11 DEF InkTypes
  <2> QED BY <2>7, <2>12 DEF InkEffect
<1> QED BY <1>1, <1>2, <1>3

\* commit: the id is new, or was given up before.
LEMMA CommitEffect ==
  ASSUME InkTypes, reservedIds \cup persons \subseteq 0..(nextId - 1),
         NEW a \in Accounts, NEW id \in Ids, NEW d \in Designs, commit(a, id, d)
  PROVE  InkTypes' /\ InkEffect
<1> USE DEF referralVars, settingVars, idVars, oracleState, oracleVars
<1>1. a \in DOMAIN candidates /\ IsApplied(a) /\ candidates[a].cred \in Credibilities
  BY CandidateCases DEF commit, IsApplied
<1>2. /\ candidates \in [DOMAIN candidates -> CandidateType] /\ nextTicket \in Nat
      /\ nextId \in 0..MaxIds /\ MaxIds \in Nat /\ allocationCount \in Nat
      /\ reservedIds \in SUBSET Ids
  BY InkAssumption DEF InkTypes, IsPartialFunction
<1>3. PICK alloc \in {"Full", "Initial"} :
        candidates' = [candidates EXCEPT ![a] = Selected(candidates[a].cred, id, d, alloc)]
  BY <1>1, <1>2 DEF commit
<1>4. PICK c \in CandidateType :
        /\ c = Selected(candidates[a].cred, id, d, alloc)
        /\ c.status = "Selected" /\ c.cred = candidates[a].cred
        /\ c.reserved = id /\ c.design = d
  <2> DEFINE c == Selected(candidates[a].cred, id, d, alloc)
  <2>1. c \in SelectedType
    BY <1>1, <1>2 DEF Selected, SelectedType
  <2>2. /\ c.status = "Selected" /\ c.cred = candidates[a].cred
        /\ c.reserved = id /\ c.design = d
    BY DEF Selected
  <2> HIDE DEF c
  <2> QED BY <2>1, <2>2 DEF CandidateType, c
<1>5. /\ IsPartialFunction(candidates', Accounts, CandidateType)
      /\ a \in DOMAIN candidates' /\ OthersStay(a) /\ candidates'[a] = c
  <2>1. candidates' = [candidates EXCEPT ![a] = c]
    BY <1>3, <1>4
  <2>2. IsPartialFunction(candidates', Accounts, CandidateType)
    BY <1>1, <2>1, CandidateUpdate
  <2>3. OthersStay(a)
    BY <2>1, OthersOnUpdate
  <2> QED BY <1>1, <1>2, <2>1, <2>2, <2>3
<1>6. /\ id \notin reservedIds /\ id \notin persons /\ id < nextId'
      /\ nextId <= nextId' /\ nextId' \in 0..MaxIds
  <2>1. CASE NewId(id)
    BY <1>2, <2>1 DEF NewId
  <2>2. CASE RenewedId(id)
    BY <1>2, <2>2 DEF RenewedId
  <2> QED BY <2>1, <2>2 DEF commit
<1>7. /\ d \in ElectiveDesigns => d \notin DOMAIN committedDesigns
      /\ committedDesigns' = IF d \in ElectiveDesigns
                             THEN Insert(committedDesigns, d, "Reserved")
                             ELSE committedDesigns
      /\ reservedIds' = reservedIds \cup {id}
      /\ allocationCount' = allocationCount + 1
      /\ UNCHANGED <<referralVars, settingVars, persons, oracleState, deposits, sufficients>>
  BY DEF commit, bake_design
<1>8. IsPartialFunction(committedDesigns', ElectiveDesigns, {"Reserved", "Committed"})
  <2>1. IsPartialFunction(committedDesigns, ElectiveDesigns, {"Reserved", "Committed"})
    BY DEF InkTypes
  <2> QED BY <1>7, <2>1 DEF IsPartialFunction, Insert
<1>9. InkTypes'
  BY <1>2, <1>5, <1>6, <1>7, <1>8 DEF InkTypes
<1>10. Committing(a, id, d)
  BY <1>1, <1>4, <1>5, <1>6, <1>7 DEF Committing, PeopleStay
<1> QED BY <1>9, <1>10 DEF InkEffect

\* A selected candidate is dropped.
LEMMA DroppedEffect ==
  ASSUME InkTypes, NEW a \in Accounts, IsSelected(a), NEW ban \in BOOLEAN, Dropped(a, ban),
         UNCHANGED referralTickets
  PROVE  /\ IsPartialFunction(candidates', Accounts, CandidateType)
         /\ IsPartialFunction(people', Ids, PersonType)
         /\ IsPartialFunction(committedDesigns', ElectiveDesigns, {"Reserved", "Committed"})
         /\ deposits' \in SUBSET Accounts /\ sufficients' \in [Accounts -> Nat]
         /\ allocationCount' \in Nat /\ reservedIds' \in SUBSET Ids
         /\ UNCHANGED <<nextId, persons>>
         /\ Dropping(a)
<1>1. a \in DOMAIN candidates
  BY DEF IsSelected
<1>2. /\ deposits' = deposits \ {a} /\ deposits' \in SUBSET Accounts
      /\ sufficients' = IF candidates[a].cred = ByDeposit THEN sufficients
                        ELSE Dec(sufficients, a)
      /\ sufficients' \in [Accounts -> Nat]
      /\ ReferralEnds(a)
      /\ IsPartialFunction(people', Ids, PersonType)
  <2>1. CredibilitySpent(a, ban)
    BY DEF Dropped
  <2> QED BY <1>1, <2>1, SpentEffect
<1>3. /\ candidates' = Without(candidates, a)
      /\ committedDesigns' = Without(committedDesigns, candidates[a].design)
      /\ allocationCount' = Max({allocationCount - 1, 0})
      /\ reservedIds' = reservedIds \ {candidates[a].reserved}
      /\ UNCHANGED <<nextId, persons>>
  BY DEF Dropped, Freed
<1>4. /\ IsPartialFunction(candidates', Accounts, CandidateType)
      /\ a \notin DOMAIN candidates' /\ OthersStay(a)
  BY <1>3, CandidateLeaves
<1>5. IsPartialFunction(committedDesigns', ElectiveDesigns, {"Reserved", "Committed"})
  BY <1>3, WithoutType DEF InkTypes
<1>6. allocationCount' \in Nat /\ reservedIds' \in SUBSET Ids
  BY <1>3, DecType DEF InkTypes
<1>7. Dropping(a)
  BY <1>1, <1>2, <1>3, <1>4 DEF Dropping, Ending
<1> QED BY <1>2, <1>3, <1>4, <1>5, <1>6, <1>7

\* timeout and flakeout.
LEMMA LeaveEffect ==
  ASSUME InkTypes, NEW a \in Accounts, timeout(a) \/ flakeout(a)
  PROVE  InkTypes' /\ InkEffect
<1> USE DEF settingVars, idVars, oracleState, oracleVars
<1>1. CASE timeout(a)
  <2>1. IsSelected(a) /\ Dropped(a, FALSE)
    BY <1>1 DEF timeout
  <2>2. /\ IsPartialFunction(candidates', Accounts, CandidateType)
        /\ IsPartialFunction(people', Ids, PersonType)
        /\ IsPartialFunction(committedDesigns', ElectiveDesigns, {"Reserved", "Committed"})
        /\ deposits' \in SUBSET Accounts /\ sufficients' \in [Accounts -> Nat]
        /\ allocationCount' \in Nat /\ reservedIds' \in SUBSET Ids
        /\ UNCHANGED <<nextId, persons>>
        /\ Dropping(a)
    <3>1. FALSE \in BOOLEAN
      OBVIOUS
    <3>2. UNCHANGED referralTickets
      BY <1>1 DEF timeout
    <3> QED BY <2>1, <3>1, <3>2, DroppedEffect
  <2>3. UNCHANGED <<referralTickets, settingVars, oracleState>>
    BY <1>1 DEF timeout
  <2>4. InkTypes'
    BY <2>2, <2>3 DEF InkTypes
  <2> QED BY <2>2, <2>4 DEF InkEffect
<1>2. CASE flakeout(a)
  <2>1. a \in DOMAIN candidates /\ IsApplied(a) /\ CredibilitySpent(a, FALSE)
        /\ FALSE \in BOOLEAN
    BY <1>2 DEF flakeout, IsApplied
  <2>2. /\ deposits' = deposits \ {a} /\ deposits' \in SUBSET Accounts
        /\ sufficients' = IF candidates[a].cred = ByDeposit THEN sufficients
                          ELSE Dec(sufficients, a)
        /\ sufficients' \in [Accounts -> Nat]
        /\ ReferralEnds(a)
        /\ IsPartialFunction(people', Ids, PersonType)
    BY <2>1, SpentEffect
  <2>3. /\ candidates' = Without(candidates, a)
        /\ UNCHANGED <<referralTickets, committedDesigns, settingVars,
                       allocationCount, idVars, oracleState>>
    BY <1>2 DEF flakeout
  <2>4. /\ IsPartialFunction(candidates', Accounts, CandidateType)
        /\ a \notin DOMAIN candidates' /\ OthersStay(a)
    BY <2>3, CandidateLeaves
  <2>5. InkTypes'
    BY <2>2, <2>3, <2>4 DEF InkTypes
  <2>6. Flaking(a)
    BY <2>1, <2>2, <2>3, <2>4 DEF Flaking, Ending
  <2> QED BY <2>5, <2>6 DEF InkEffect
<1> QED BY <1>1, <1>2

\* register_referred and register_non_referred.
LEMMA RegisterEffect ==
  ASSUME InkTypes, NEW a \in Accounts, register_referred(a) \/ register_non_referred(a)
  PROVE  InkTypes' /\ InkEffect
<1> USE DEF settingVars, idVars, oracleState, oracleVars
<1> DEFINE c == candidates[a]
<1>1. IsProven(a) /\ a \in DOMAIN candidates /\ c \in ProvenType /\ c.cred \in Credibilities
  BY CandidateCases DEF register_referred, register_non_referred, IsProven
<1>2. PICK payReferrer : register_proven_candidate(a, payReferrer)
  BY DEF register_referred, register_non_referred
<1>3. /\ candidates' = Without(candidates, a)
      /\ people' = Insert(people, c.reserved, NewPerson(c.design))
      /\ c.reserved \in reservedIds
      /\ reservedIds' = reservedIds \ {c.reserved}
      /\ persons' = persons \cup {c.reserved}
      /\ UNCHANGED nextId
  BY <1>2 DEF register_proven_candidate
<1>4. UNCHANGED <<referralTickets, committedDesigns, settingVars, allocationCount,
                  oracleState, deposits>>
  BY DEF register_referred, register_non_referred
<1>5. sufficients' = IF c.cred = ByDeposit THEN sufficients ELSE Dec(sufficients, a)
  <2>1. /\ c.cred.by = "Deposit" <=> c.cred = ByDeposit
        /\ c.cred.by \in {"Deposit", "Invited", "Referred"}
    BY <1>1 DEF Credibilities, ByDeposit, Invited, Referred
  <2> QED BY <2>1 DEF register_referred, register_non_referred
<1>6. sufficients' \in [Accounts -> Nat]
  BY <1>5, DecSufficients DEF InkTypes
<1>7. c.reserved \in Ids /\ NewPerson(c.design) \in PersonType
  <2>1. c.reserved \in Ids /\ c.design \in Designs
    BY <1>1 DEF ProvenType
  <2> QED BY <2>1 DEF NewPerson, PersonType
<1>8. IsPartialFunction(people', Ids, PersonType)
  <2>1. IsPartialFunction(people, Ids, PersonType)
    BY DEF InkTypes
  <2>2. PICK p \in PersonType : p = NewPerson(c.design)
    BY <1>7
  <2>3. PICK r \in Ids : r = c.reserved
    BY <1>7
  <2>4. IsPartialFunction(Insert(people, r, p), Ids, PersonType)
    BY <2>1, InsertType
  <2> QED BY <1>3, <2>2, <2>3, <2>4
<1>9. /\ IsPartialFunction(candidates', Accounts, CandidateType)
      /\ a \notin DOMAIN candidates' /\ OthersStay(a)
  BY <1>3, CandidateLeaves
<1>10. reservedIds' \in SUBSET Ids /\ persons' \in SUBSET Ids
  BY <1>3, <1>7 DEF InkTypes
<1> HIDE DEF c
<1>11. InkTypes'
  BY <1>3, <1>4, <1>6, <1>8, <1>9, <1>10 DEF InkTypes
<1>12. Registering(a)
  BY <1>1, <1>3, <1>4, <1>5, <1>9 DEF Registering, c
<1> QED BY <1>11, <1>12 DEF InkEffect

\* The candidate's evidence is found true, and it becomes Proven.
LEMMA JudgedTrueEffect ==
  ASSUME InkTypes, NEW a \in Accounts, IsSelected(a), JudgedTrue(a),
         UNCHANGED referralTickets
  PROVE  /\ IsPartialFunction(candidates', Accounts, CandidateType)
         /\ IsPartialFunction(people', Ids, PersonType)
         /\ IsPartialFunction(committedDesigns', ElectiveDesigns, {"Reserved", "Committed"})
         /\ deposits' \in SUBSET Accounts
         /\ allocationCount' \in Nat
         /\ UNCHANGED <<idVars, sufficients>>
         /\ Proving(a)
<1> DEFINE c == candidates[a]
           r == c.cred.who
<1>1. /\ a \in DOMAIN candidates /\ c \in SelectedType
      /\ c.cred \in Credibilities /\ c.reserved \in Ids /\ c.design \in Designs
  BY CandidateCases DEF IsSelected, SelectedType
<1>2. /\ candidates' = [candidates EXCEPT ![a] = Proven(c.cred, c.reserved, c.design)]
      /\ allocationCount' = Max({allocationCount - 1, 0})
      /\ deposits' = deposits \ {a}
      /\ committedDesigns' = IF c.design \in ElectiveDesigns
                             THEN Insert(committedDesigns, c.design, "Committed")
                             ELSE committedDesigns
      /\ UNCHANGED <<idVars, sufficients>>
  BY DEF JudgedTrue
<1>3. PICK n \in CandidateType :
        /\ n = Proven(c.cred, c.reserved, c.design)
        /\ n.status = "Proven" /\ n.cred = c.cred
        /\ n.reserved = c.reserved /\ n.design = c.design
  <2> DEFINE n == Proven(c.cred, c.reserved, c.design)
  <2>1. n \in ProvenType
    BY <1>1 DEF Proven, ProvenType
  <2>2. /\ n.status = "Proven" /\ n.cred = c.cred
        /\ n.reserved = c.reserved /\ n.design = c.design
    BY DEF Proven
  <2> HIDE DEF n, c
  <2> QED BY <2>1, <2>2 DEF CandidateType, n
<1>4. /\ IsPartialFunction(candidates', Accounts, CandidateType)
      /\ a \in DOMAIN candidates' /\ OthersStay(a) /\ candidates'[a] = n
  <2>1. candidates' = [candidates EXCEPT ![a] = n]
    BY <1>2, <1>3
  <2>2. IsPartialFunction(candidates', Accounts, CandidateType)
    BY <1>1, <2>1, CandidateUpdate
  <2>3. OthersStay(a)
    BY <2>1, OthersOnUpdate
  <2>4. candidates \in [DOMAIN candidates -> CandidateType]
    BY DEF InkTypes, IsPartialFunction
  <2> QED BY <1>1, <2>1, <2>2, <2>3, <2>4
<1>5. IsPartialFunction(committedDesigns', ElectiveDesigns, {"Reserved", "Committed"})
  <2>1. IsPartialFunction(committedDesigns, ElectiveDesigns, {"Reserved", "Committed"})
    BY DEF InkTypes
  <2> QED BY <1>2, <2>1 DEF IsPartialFunction, Insert
<1>6. allocationCount' \in Nat /\ deposits' \in SUBSET Accounts
  BY <1>2, DecType DEF InkTypes
<1>7. ReferralEnds(a) /\ IsPartialFunction(people', Ids, PersonType)
  <2>1. \A q : c.cred = Referred(q) <=> c.cred.by = "Referred" /\ c.cred.who = q
    BY <1>1, CredibilityKinds
  <2>2. DOMAIN people \subseteq Ids /\ people \in [DOMAIN people -> PersonType]
    BY DEF InkTypes, IsPartialFunction
  <2>3. CASE c.cred.by = "Referred" /\ r \in DOMAIN people
    <3> DEFINE m == Min({people[r].allowed + 1, MaxActiveReferrals})
               p == [people[r] EXCEPT !.active = @ \ {a}, !.pending = @ + 1, !.allowed = m]
    <3>1. people[r] \in PersonType
      BY <2>2, <2>3
    <3>2. m \in Nat
      <4>1. people[r].allowed + 1 \in Int /\ people[r].allowed + 1 \in Nat
            /\ MaxActiveReferrals \in Int /\ MaxActiveReferrals \in Nat
        BY <3>1, InkAssumption DEF PersonType
      <4> QED BY <4>1, MinOfTwo
    <3>3. people' = [people EXCEPT ![r].active = @ \ {a},
                                   ![r].pending = @ + 1,
                                   ![r].allowed = Min({@ + 1, MaxActiveReferrals})]
      BY <2>3 DEF JudgedTrue
    <3>4. people' = [people EXCEPT ![r] = p]
      BY <2>2, <2>3, <3>3
    <3> HIDE DEF m
    <3>5. /\ p \in PersonType
          /\ p.active = people[r].active \ {a} /\ p.design = people[r].design
      <4> PICK q \in PersonType : q = people[r]
        BY <3>1
      <4> DEFINE q1 == [q EXCEPT !.active = @ \ {a}]
                 q2 == [q1 EXCEPT !.pending = @ + 1]
                 q3 == [q2 EXCEPT !.allowed = m]
      <4>1. q1 \in PersonType /\ q1.active = q.active \ {a} /\ q1.design = q.design
            /\ q1.pending = q.pending /\ q1.allowed = q.allowed
        BY DEF PersonType
      <4>2. q1.pending + 1 \in Nat
        BY <4>1 DEF PersonType
      <4> HIDE DEF q1
      <4>3. q2 \in PersonType /\ q2.active = q1.active /\ q2.design = q1.design
        BY <4>1, <4>2 DEF PersonType
      <4> HIDE DEF q2
      <4>4. q3 \in PersonType /\ q3.active = q2.active /\ q3.design = q2.design
        BY <3>2, <4>3 DEF PersonType
      <4>5. p = q3
        BY <4>1 DEF q1, q2
      <4> HIDE DEF p, q3
      <4> QED BY <4>1, <4>3, <4>4, <4>5
    <3> HIDE DEF p, r, c
    <3>6. IsPartialFunction(people', Ids, PersonType)
      BY <2>2, <2>3, <3>4, <3>5 DEF IsPartialFunction
    <3>7. \A q : c.cred = Referred(q) <=> q = r
      BY <2>1, <2>3 DEF r
    <3>8. /\ DOMAIN people' = DOMAIN people
          /\ \A q \in DOMAIN people :
               /\ people'[q].design = people[q].design
               /\ people'[q].active = IF c.cred = Referred(q)
                                      THEN people[q].active \ {a} ELSE people[q].active
      BY <2>2, <2>3, <3>4, <3>5, <3>7
    <3> QED BY <3>6, <3>8 DEF ReferralEnds, c
  <2>4. CASE ~(c.cred.by = "Referred" /\ r \in DOMAIN people)
    <3>1. people' = people
      BY <2>4 DEF JudgedTrue
    <3> QED BY <2>1, <2>2, <2>4, <3>1 DEF ReferralEnds, IsPartialFunction
  <2> QED BY <2>3, <2>4
<1>8. Proving(a)
  BY <1>2, <1>3, <1>4, <1>7 DEF Proving
<1> QED BY <1>2, <1>4, <1>5, <1>6, <1>7, <1>8

\* What an answer to a candidate that waits for more does to it.
LEMMA RetryEffect ==
  ASSUME InkTypes, NEW a \in Accounts, IsSelected(a), RetryGranted(a) \/ JudgedInitial(a),
         UNCHANGED referralTickets
  PROVE  IsPartialFunction(candidates', Accounts, CandidateType) /\ NothingHappens
<1>1. a \in DOMAIN candidates /\ candidates[a] \in SelectedType
  BY CandidateCases DEF IsSelected
<1>2. candidates \in [DOMAIN candidates -> CandidateType]
  BY DEF InkTypes, IsPartialFunction
<1>3. UNCHANGED <<people, committedDesigns, allocationCount, idVars, deposits, sufficients>>
  BY DEF RetryGranted, JudgedInitial
<1>4. PICK c \in CandidateType :
        Alike(candidates[a], c) /\ candidates' = [candidates EXCEPT ![a] = c]
  <2>1. CASE RetryGranted(a)
    <3> DEFINE c == [candidates[a] EXCEPT !.failed = @ + 1, !.judging = {}]
    <3>1. candidates' = [candidates EXCEPT ![a] = c]
      BY <1>1, <1>2, <2>1 DEF RetryGranted
    <3>2. c \in CandidateType /\ Alike(candidates[a], c)
      <4> PICK q \in SelectedType : q = candidates[a]
        BY <1>1
      <4> DEFINE n == q.failed + 1
                 q1 == [q EXCEPT !.failed = n]
      <4>0. n \in Nat
        BY DEF SelectedType
      <4> HIDE DEF n
      <4>1. q1 \in SelectedType
        BY <4>0 DEF SelectedType
      <4> HIDE DEF q1
      <4>3. [q1 EXCEPT !.judging = {}] \in SelectedType
        BY <4>1 DEF SelectedType
      <4>2. Alike(q, [q EXCEPT !.failed = @ + 1, !.judging = {}])
        BY DEF SelectedType, Alike
      <4> QED BY <4>2, <4>3 DEF CandidateType, q1, n
    <3> QED BY <3>1, <3>2
  <2>2. CASE JudgedInitial(a)
    <3> DEFINE c == [candidates[a] EXCEPT !.allocation = "InitDone", !.judging = {}]
    <3>1. candidates' = [candidates EXCEPT ![a] = c]
      BY <1>1, <1>2, <2>2 DEF JudgedInitial
    <3>2. c \in CandidateType /\ Alike(candidates[a], c)
      BY <1>1 DEF CandidateType, SelectedType, Alike
    <3> QED BY <3>1, <3>2
  <2> QED BY <2>1, <2>2
<1> QED BY <1>1, <1>3, <1>4, LikeEffect

\* A callback of the oracle, whatever it says.
LEMMA JudgedEffect ==
  ASSUME InkTypes, NEW t \in pending, NEW j \in Judgements, NEW ok \in BOOLEAN,
         judged(t, j, ok)
  PROVE  InkTypes' /\ InkEffect
<1> USE DEF settingVars, idVars
<1> DEFINE a == statements[t].who
<1>1. a \in Accounts
  BY DEF InkTypes, IsPartialFunction, StatementType
<1>2. /\ UNCHANGED <<referralTickets, settingVars>>
      /\ statements' = Without(statements, t)
      /\ pending' = pending \ {t} /\ nextTicket' = nextTicket
  BY DEF judged, callback
<1>3. /\ IsPartialFunction(statements', 0..(nextTicket' - 1), StatementType)
      /\ DOMAIN statements' = pending' /\ nextTicket' \in Nat
  <2>1. IsPartialFunction(statements, 0..(nextTicket - 1), StatementType)
    BY DEF InkTypes
  <2>2. /\ IsPartialFunction(Without(statements, t), 0..(nextTicket - 1), StatementType)
        /\ DOMAIN Without(statements, t) = DOMAIN statements \ {t}
    BY <2>1 DEF IsPartialFunction, Without
  <2> QED BY <1>2, <2>2 DEF InkTypes
<1>4. \/ CallbackFails
      \/ IsSelected(a) /\ Dropped(a, j = "Contempt")
      \/ IsSelected(a) /\ (RetryGranted(a) \/ JudgedInitial(a))
      \/ IsSelected(a) /\ JudgedTrue(a)
  BY DEF judged, Awaits
<1> HIDE DEF a
<1>5. CASE CallbackFails
  <2>1. UNCHANGED <<candidates, people, committedDesigns, allocationCount, idVars,
                    deposits, sufficients>>
    BY <1>5 DEF CallbackFails
  <2>2. InkTypes'
    BY <1>2, <1>3, <2>1 DEF InkTypes
  <2>3. NothingHappens
    BY <1>2, <2>1 DEF NothingHappens, PeopleStay, Alike
  <2> QED BY <2>2, <2>3 DEF InkEffect
<1>6. CASE IsSelected(a) /\ Dropped(a, j = "Contempt")
  <2>0. PICK ban \in BOOLEAN : ban = (j = "Contempt")
    OBVIOUS
  <2>1. IsSelected(a) /\ Dropped(a, ban)
    BY <1>6, <2>0
  <2>2. /\ IsPartialFunction(candidates', Accounts, CandidateType)
        /\ IsPartialFunction(people', Ids, PersonType)
        /\ IsPartialFunction(committedDesigns', ElectiveDesigns, {"Reserved", "Committed"})
        /\ deposits' \in SUBSET Accounts /\ sufficients' \in [Accounts -> Nat]
        /\ allocationCount' \in Nat /\ reservedIds' \in SUBSET Ids
        /\ UNCHANGED <<nextId, persons>>
        /\ Dropping(a)
    BY <1>1, <1>2, <2>1, DroppedEffect
  <2>3. InkTypes'
    BY <1>2, <1>3, <2>2 DEF InkTypes
  <2> QED BY <1>1, <2>2, <2>3 DEF InkEffect
<1>7. CASE IsSelected(a) /\ (RetryGranted(a) \/ JudgedInitial(a))
  <2>1. IsPartialFunction(candidates', Accounts, CandidateType) /\ NothingHappens
    BY <1>1, <1>2, <1>7, RetryEffect
  <2>2. UNCHANGED <<people, committedDesigns, allocationCount, idVars, deposits, sufficients>>
    BY <1>7 DEF RetryGranted, JudgedInitial
  <2>3. InkTypes'
    BY <1>2, <1>3, <2>1, <2>2 DEF InkTypes
  <2> QED BY <2>1, <2>3 DEF InkEffect
<1>8. CASE IsSelected(a) /\ JudgedTrue(a)
  <2>1. /\ IsPartialFunction(candidates', Accounts, CandidateType)
        /\ IsPartialFunction(people', Ids, PersonType)
        /\ IsPartialFunction(committedDesigns', ElectiveDesigns, {"Reserved", "Committed"})
        /\ deposits' \in SUBSET Accounts
        /\ allocationCount' \in Nat
        /\ UNCHANGED <<idVars, sufficients>>
        /\ Proving(a)
    BY <1>1, <1>2, <1>8, JudgedTrueEffect
  <2>2. InkTypes'
    BY <1>2, <1>3, <2>1 DEF InkTypes
  <2> QED BY <1>1, <2>1, <2>2 DEF InkEffect
<1> QED BY <1>4, <1>5, <1>6, <1>7, <1>8

\* register_successful_referral_reward and the referral tickets.
LEMMA PersonEffect ==
  ASSUME InkTypes, NEW r \in Ids,
         \/ register_successful_referral_reward(r)
         \/ \E t \in Tickets : set_referral_ticket(r, t) \/ cancel_referral_ticket(r, t)
  PROVE  InkTypes' /\ NothingHappens
<1> USE DEF referralVars, settingVars, idVars, oracleState, oracleVars
<1>1. CASE register_successful_referral_reward(r)
  <2> DEFINE n == people[r].pending - 1
             p == [people[r] EXCEPT !.pending = n]
  <2>1. /\ UNCHANGED <<candidates, referralTickets, committedDesigns, settingVars,
                       allocationCount, idVars, oracleState, deposits, sufficients>>
        /\ r \in DOMAIN people /\ people[r].pending > 0
        /\ people' = [people EXCEPT ![r].pending = @ - 1]
    BY <1>1 DEF register_successful_referral_reward
  <2>2. DOMAIN people \subseteq Ids /\ people \in [DOMAIN people -> PersonType]
    BY DEF InkTypes, IsPartialFunction
  <2>3. people[r] \in PersonType
    BY <2>1, <2>2
  <2>4. n \in Nat
    BY <2>1, <2>3 DEF PersonType
  <2>5. people' = [people EXCEPT ![r] = p]
    BY <2>1, <2>2
  <2> HIDE DEF n
  <2>6. p \in PersonType /\ p.active = people[r].active /\ p.design = people[r].design
    BY <2>3, <2>4 DEF PersonType
  <2> HIDE DEF p
  <2>7. IsPartialFunction(people', Ids, PersonType)
    BY <2>1, <2>2, <2>5, <2>6 DEF IsPartialFunction
  <2>8. PeopleStay
    BY <2>1, <2>2, <2>5, <2>6 DEF PeopleStay
  <2>9. InkTypes'
    BY <2>1, <2>7 DEF InkTypes
  <2>10. NothingHappens
    BY <2>1, <2>8 DEF NothingHappens, Alike
  <2> QED BY <2>9, <2>10
<1>2. ASSUME NEW t \in Tickets, set_referral_ticket(r, t) \/ cancel_referral_ticket(r, t)
      PROVE  InkTypes' /\ NothingHappens
  <2>1. UNCHANGED <<candidates, people, committedDesigns, settingVars,
                    allocationCount, idVars, oracleState, deposits, sufficients>>
    BY <1>2 DEF set_referral_ticket, cancel_referral_ticket
  <2>2. referralTickets' \in [Ids -> SUBSET Tickets]
    BY <1>2 DEF set_referral_ticket, cancel_referral_ticket, InkTypes
  <2>3. InkTypes'
    BY <2>1, <2>2 DEF InkTypes
  <2>4. r \in DOMAIN people /\ TicketMoves(r)
    BY <1>2 DEF set_referral_ticket, cancel_referral_ticket, TicketMoves
  <2>5. NothingHappens
    BY <2>1, <2>4 DEF NothingHappens, PeopleStay, Alike
  <2> QED BY <2>3, <2>5
<1> QED BY <1>1, <1>2

\* Time passes: only ages change.
LEMMA TickEffect ==
  ASSUME InkTypes, tick
  PROVE  InkTypes' /\ NothingHappens
<1>1. UNCHANGED <<referralVars, committedDesigns, settingVars, allocationCount,
                  idVars, oracleState, deposits, sufficients>>
  BY DEF tick
<1>2. DOMAIN candidates' = DOMAIN candidates
  BY DEF tick
<1>3. ASSUME NEW a \in DOMAIN candidates
      PROVE  candidates'[a] \in CandidateType /\ Alike(candidates[a], candidates'[a])
  <2>1. candidates[a] \in CandidateType
    BY DEF InkTypes, IsPartialFunction
  <2>2. CASE IsProven(a)
    <3>1. candidates'[a] = candidates[a]
      BY <2>2 DEF tick, IsProven
    <3> QED BY <2>1, <3>1 DEF Alike
  <2>3. CASE ~IsProven(a)
    <3> DEFINE n == Min({candidates[a].age + 1, IF IsApplied(a) THEN MaxEntropyAge ELSE MaxAge})
    <3>1. candidates'[a] = [candidates[a] EXCEPT !.age = n]
      BY <2>3 DEF tick, IsProven
    <3>2. candidates[a] \in AppliedType \/ candidates[a] \in SelectedType
      BY <2>3, CandidateCases
    <3>3. n \in Nat
      <4>1. /\ candidates[a].age + 1 \in Nat /\ candidates[a].age + 1 \in Int
            /\ (IF IsApplied(a) THEN MaxEntropyAge ELSE MaxAge) \in Nat
            /\ (IF IsApplied(a) THEN MaxEntropyAge ELSE MaxAge) \in Int
        BY <3>2, InkAssumption DEF AppliedType, SelectedType
      <4> QED BY <4>1, MinOfTwo
    <3> HIDE DEF n
    <3>4. CASE candidates[a] \in AppliedType
      <4>1. [candidates[a] EXCEPT !.age = n] \in AppliedType
        BY <3>3, <3>4 DEF AppliedType
      <4>2. Alike(candidates[a], [candidates[a] EXCEPT !.age = n])
        BY <3>4 DEF AppliedType, Alike
      <4> QED BY <3>1, <4>1, <4>2 DEF CandidateType
    <3>5. CASE candidates[a] \in SelectedType
      <4>1. [candidates[a] EXCEPT !.age = n] \in SelectedType
        BY <3>3, <3>5 DEF SelectedType
      <4>2. Alike(candidates[a], [candidates[a] EXCEPT !.age = n])
        BY <3>5 DEF SelectedType, Alike
      <4> QED BY <3>1, <4>1, <4>2 DEF CandidateType
    <3> QED BY <3>2, <3>4, <3>5
  <2> QED BY <2>2, <2>3
<1>4. IsPartialFunction(candidates', Accounts, CandidateType)
  <2>1. candidates' = [a \in DOMAIN candidates |-> candidates'[a]]
    BY DEF tick
  <2> QED BY <1>2, <1>3, <2>1 DEF InkTypes, IsPartialFunction
<1>5. NothingHappens
  BY <1>1, <1>2, <1>3 DEF NothingHappens, PeopleStay, referralVars
<1> QED BY <1>1, <1>4, <1>5, OnlyCandidates

\* Every step keeps the types and has one of the effects above.
LEMMA EffectStep ==
  ASSUME InkTypes, reservedIds \cup persons \subseteq 0..(nextId - 1), [Next]_inkVars
  PROVE  InkTypes' /\ InkEffect
<1> USE DEF referralVars, settingVars, inviteVars, rewardVars, idVars, oracleState, oracleVars
<1>1. ASSUME UNCHANGED <<candidates, referralVars, committedDesigns, config,
                         allocationCount, idVars, oracleState, deposits, sufficients>>
      PROVE  InkTypes' /\ InkEffect
  <2>1. InkTypes'
    BY <1>1 DEF InkTypes
  <2>2. NothingHappens
    BY <1>1 DEF NothingHappens, PeopleStay, Alike
  <2> QED BY <2>1, <2>2 DEF InkEffect
<1>2. CASE CandidateNext
  <2> PICK a \in Accounts :
        \/ apply(a)
        \/ \E r \in Ids, t \in Tickets : apply_with_signature(a, r, t)
        \/ \E i \in Inviters, t \in InviteTickets : apply_with_invitation(a, i, t)
        \/ reroll(a)
        \/ flakeout(a)
        \/ timeout(a)
        \/ \E id \in Ids, d \in ElectiveDesigns \cup {"procedural"} : commit(a, id, d)
        \/ allocate_full(a)
        \/ submit_evidence(a)
        \/ register_referred(a)
        \/ register_non_referred(a)
    BY <1>2 DEF CandidateNext
  <2>1. CASE apply(a)
    <3>1. ByDeposit \in Credibilities /\ NewCandidate(a, ByDeposit)
      BY <2>1 DEF Credibilities, apply
    <3> QED BY <2>1, <3>1, ApplyEffect
  <2>2. CASE \E r \in Ids, t \in Tickets : apply_with_signature(a, r, t)
    <3>1. PICK r \in Ids, t \in Tickets : apply_with_signature(a, r, t)
      BY <2>2
    <3>2. PICK cred \in Credibilities : cred = Referred(r)
      BY DEF Credibilities
    <3>3. NewCandidate(a, cred)
      BY <3>1, <3>2 DEF apply_with_signature
    <3> QED BY <3>1, <3>2, <3>3, ApplyEffect
  <2>3. CASE \E i \in Inviters, t \in InviteTickets : apply_with_invitation(a, i, t)
    <3>1. Invited \in Credibilities /\ NewCandidate(a, Invited)
      BY <2>3 DEF Credibilities, apply_with_invitation
    <3> QED BY <2>3, <3>1, ApplyEffect
  <2>4. CASE reroll(a) \/ allocate_full(a) \/ submit_evidence(a)
    BY <2>4, WaitingEffect
  <2>5. CASE flakeout(a) \/ timeout(a)
    BY <2>5, LeaveEffect
  <2>6. CASE \E id \in Ids, d \in ElectiveDesigns \cup {"procedural"} : commit(a, id, d)
    BY <2>6, CommitEffect DEF Designs
  <2>7. CASE register_referred(a) \/ register_non_referred(a)
    BY <2>7, RegisterEffect
  <2> QED BY <2>1, <2>2, <2>3, <2>4, <2>5, <2>6, <2>7
<1>3. CASE PersonNext
  BY <1>3, PersonEffect DEF PersonNext, InkEffect
<1>4. CASE InviteNext
  BY <1>1, <1>4 DEF InviteNext, grant_invites, remove_available_and_pending_invites,
     set_invite_ticket, cancel_invite_ticket, notInvites
<1>5. CASE ManagerNext
  <2>1. CASE \E c \in Configs : set_configuration(c)
    <3>1. PICK c \in Configs : set_configuration(c)
      BY <2>1
    <3>2. UNCHANGED notSettings /\ config' \in Configs
      BY <3>1 DEF set_configuration
    <3>3. InkTypes'
      BY <3>2 DEF InkTypes, notSettings
    <3>4. NothingHappens
      BY <3>2 DEF NothingHappens, PeopleStay, Alike, notSettings
    <3> QED BY <3>3, <3>4 DEF InkEffect
  <2>2. CASE ~\E c \in Configs : set_configuration(c)
    BY <1>1, <1>5, <2>2 DEF ManagerNext, add_design_family, set_reimbursement_values, notSettings
  <2> QED BY <2>1, <2>2
<1>6. CASE \E t \in pending, j \in Judgements, ok \in BOOLEAN : judged(t, j, ok)
  BY <1>6, JudgedEffect
<1>7. CASE tick
  BY <1>7, TickEffect DEF InkEffect
<1>8. CASE UNCHANGED inkVars
  BY <1>1, <1>8 DEF inkVars
<1> QED BY <1>2, <1>3, <1>4, <1>5, <1>6, <1>7, <1>8 DEF Next

-----------------------------------------------------------------------------
(* The books.                                                              *)

\* The parts of BooksExact.
AllocationExact == allocationCount = Cardinality(SelectedNow)
\* A deposit is held for each candidate who applied with one.
DepositsExact ==
  deposits = {a \in DOMAIN candidates : candidates[a].cred.by = "Deposit" /\ ~IsProven(a)}
\* An account is referenced while it is a candidate.
SufficientsExact ==
  \A a \in Accounts :
    sufficients[a] = IF a \in DOMAIN candidates
                        /\ candidates[a].cred.by # "Deposit" THEN 1 ELSE 0
\* Every referred candidate has a referrer, and every referrer its referrals.
ActiveExact ==
  /\ \A a \in DOMAIN candidates :
       candidates[a].cred.by = "Referred" => candidates[a].cred.who \in DOMAIN people
  /\ \A r \in DOMAIN people :
       people[r].active = {a \in DOMAIN candidates :
                             candidates[a].cred = Referred(r) /\ ~IsProven(a)}

\* Ids below nextId are reserved for one candidate, belong to one person, or
\* were given up.
IdsInv ==
  /\ reservedIds = {candidates[a].reserved : a \in WithId}
  /\ \A a, b \in WithId : candidates[a].reserved = candidates[b].reserved => a = b
  /\ reservedIds \cap persons = {} /\ DOMAIN people = persons
  /\ reservedIds \cup persons \subseteq 0..(nextId - 1)

\* What stays true of an account that the step is not about.
LEMMA OtherAccounts ==
  ASSUME InkTypes, NEW a, OthersStay(a), NEW b \in Accounts, b # a
  PROVE  /\ IsApplied(b)' <=> IsApplied(b)
         /\ IsSelected(b)' <=> IsSelected(b)
         /\ IsProven(b)' <=> IsProven(b)
         /\ b \in DOMAIN candidates' <=> b \in DOMAIN candidates
         /\ b \in DOMAIN candidates => candidates'[b].cred = candidates[b].cred
         /\ IsSelected(b) \/ IsProven(b) =>
              /\ candidates'[b].reserved = candidates[b].reserved
              /\ candidates'[b].design = candidates[b].design
BY DEF OthersStay, Alike, IsApplied, IsSelected, IsProven

\* And of every account when nothing happens.
LEMMA AllAccounts ==
  ASSUME InkTypes, NothingHappens, NEW b
  PROVE  /\ IsApplied(b)' <=> IsApplied(b)
         /\ IsSelected(b)' <=> IsSelected(b)
         /\ IsProven(b)' <=> IsProven(b)
         /\ b \in DOMAIN candidates' <=> b \in DOMAIN candidates
         /\ b \in DOMAIN candidates => candidates'[b].cred = candidates[b].cred
         /\ IsSelected(b) \/ IsProven(b) =>
              /\ candidates'[b].reserved = candidates[b].reserved
              /\ candidates'[b].design = candidates[b].design
BY DEF NothingHappens, Alike, IsApplied, IsSelected, IsProven

\* Who is selected and who holds an id after each effect.
LEMMA SelectedAfter ==
  ASSUME InkTypes
  PROVE  /\ NothingHappens => SelectedNow' = SelectedNow /\ WithId' = WithId
         /\ \A a \in Accounts :
              /\ \A cred : Applying(a, cred) => SelectedNow' = SelectedNow /\ WithId' = WithId
              /\ \A id, d : Committing(a, id, d) =>
                   /\ a \notin SelectedNow /\ SelectedNow' = SelectedNow \cup {a}
                   /\ a \notin WithId /\ WithId' = WithId \cup {a}
              /\ Proving(a) => /\ a \in SelectedNow /\ SelectedNow' = SelectedNow \ {a}
                               /\ a \in WithId /\ WithId' = WithId
              /\ Flaking(a) => SelectedNow' = SelectedNow /\ WithId' = WithId
              /\ Dropping(a) => /\ a \in SelectedNow /\ SelectedNow' = SelectedNow \ {a}
                                /\ a \in WithId /\ WithId' = WithId \ {a}
              /\ Registering(a) => /\ a \notin SelectedNow /\ SelectedNow' = SelectedNow
                                   /\ a \in WithId /\ WithId' = WithId \ {a}
<1>1. NothingHappens => SelectedNow' = SelectedNow /\ WithId' = WithId
  BY AllAccounts DEF SelectedNow, WithId
<1>2. ASSUME NEW a \in Accounts, OthersStay(a)
      PROVE  \A b \in Accounts \ {a} : /\ b \in SelectedNow' <=> b \in SelectedNow
                                       /\ b \in WithId' <=> b \in WithId
  BY <1>2, OtherAccounts DEF SelectedNow, WithId
<1>3. SelectedNow \subseteq Accounts /\ SelectedNow' \subseteq Accounts
      /\ WithId \subseteq Accounts /\ WithId' \subseteq Accounts
  BY DEF SelectedNow, WithId
<1>4. ASSUME NEW a \in Accounts, NEW cred, Applying(a, cred)
      PROVE  SelectedNow' = SelectedNow /\ WithId' = WithId
  <2>1. OthersStay(a) /\ a \notin SelectedNow /\ a \notin SelectedNow'
        /\ a \notin WithId /\ a \notin WithId'
    BY <1>4 DEF Applying, SelectedNow, WithId, IsSelected, IsProven
  <2> QED BY <1>2, <1>3, <2>1
<1>5. ASSUME NEW a \in Accounts, NEW id, NEW d, Committing(a, id, d)
      PROVE  /\ a \notin SelectedNow /\ SelectedNow' = SelectedNow \cup {a}
             /\ a \notin WithId /\ WithId' = WithId \cup {a}
  <2>1. OthersStay(a) /\ a \notin SelectedNow /\ a \in SelectedNow'
        /\ a \notin WithId /\ a \in WithId'
    BY <1>5 DEF Committing, SelectedNow, WithId, IsSelected, IsProven, IsApplied
  <2> QED BY <1>2, <1>3, <2>1
<1>6. ASSUME NEW a \in Accounts, Proving(a)
      PROVE  /\ a \in SelectedNow /\ SelectedNow' = SelectedNow \ {a}
             /\ a \in WithId /\ WithId' = WithId
  <2>1. OthersStay(a) /\ a \in SelectedNow /\ a \notin SelectedNow'
        /\ a \in WithId /\ a \in WithId'
    BY <1>6 DEF Proving, SelectedNow, WithId, IsSelected, IsProven
  <2> QED BY <1>2, <1>3, <2>1
<1>7. ASSUME NEW a \in Accounts, Flaking(a)
      PROVE  SelectedNow' = SelectedNow /\ WithId' = WithId
  <2>1. OthersStay(a) /\ a \notin SelectedNow /\ a \notin SelectedNow'
        /\ a \notin WithId /\ a \notin WithId'
    BY <1>7 DEF Flaking, Ending, SelectedNow, WithId, IsSelected, IsProven, IsApplied
  <2> QED BY <1>2, <1>3, <2>1
<1>8. ASSUME NEW a \in Accounts, Dropping(a)
      PROVE  /\ a \in SelectedNow /\ SelectedNow' = SelectedNow \ {a}
             /\ a \in WithId /\ WithId' = WithId \ {a}
  <2>1. OthersStay(a) /\ a \in SelectedNow /\ a \notin SelectedNow'
        /\ a \in WithId /\ a \notin WithId'
    BY <1>8 DEF Dropping, Ending, SelectedNow, WithId, IsSelected, IsProven
  <2> QED BY <1>2, <1>3, <2>1
<1>9. ASSUME NEW a \in Accounts, Registering(a)
      PROVE  /\ a \notin SelectedNow /\ SelectedNow' = SelectedNow
             /\ a \in WithId /\ WithId' = WithId \ {a}
  <2>1. OthersStay(a) /\ a \notin SelectedNow /\ a \notin SelectedNow'
        /\ a \in WithId /\ a \notin WithId'
    BY <1>9 DEF Registering, SelectedNow, WithId, IsSelected, IsProven
  <2> QED BY <1>2, <1>3, <2>1
<1> QED BY <1>1, <1>4, <1>5, <1>6, <1>7, <1>8, <1>9

\* `AllocationCount` counts the selected candidates.
LEMMA AllocationStep ==
  ASSUME InkTypes, AllocationExact, InkEffect
  PROVE  AllocationExact'
<1>1. IsFiniteSet(SelectedNow) /\ Cardinality(SelectedNow) \in Nat
  BY InkAssumption, FS_Subset, FS_CardinalityType DEF SelectedNow
<1>2. CASE SelectedNow' = SelectedNow /\ allocationCount' = allocationCount
  BY <1>2 DEF AllocationExact
<1>3. ASSUME NEW a, a \notin SelectedNow, SelectedNow' = SelectedNow \cup {a},
             allocationCount' = allocationCount + 1
      PROVE  AllocationExact'
  BY <1>1, <1>3, FS_AddElement DEF AllocationExact
<1>4. ASSUME NEW a, a \in SelectedNow, SelectedNow' = SelectedNow \ {a},
             allocationCount' = Max({allocationCount - 1, 0})
      PROVE  AllocationExact'
  <2>1. Cardinality(SelectedNow \ {a}) = Cardinality(SelectedNow) - 1
    BY <1>1, <1>4, FS_RemoveElement
  <2>2. Cardinality(SelectedNow) # 0
    BY <1>1, <1>4, FS_EmptySet
  <2>3. Max({allocationCount - 1, 0}) = allocationCount - 1
    BY <1>1, <2>2, DecType DEF AllocationExact
  <2> QED BY <1>4, <2>1, <2>3 DEF AllocationExact
<1>5. CASE NothingHappens
  BY <1>2, <1>5, SelectedAfter DEF NothingHappens
<1>6. ASSUME NEW a \in Accounts, NEW cred, Applying(a, cred) PROVE AllocationExact'
  BY <1>2, <1>6, SelectedAfter DEF Applying
<1>7. ASSUME NEW a \in Accounts, NEW id, NEW d, Committing(a, id, d) PROVE AllocationExact'
  BY <1>3, <1>7, SelectedAfter DEF Committing
<1>8. ASSUME NEW a \in Accounts, Proving(a) \/ Dropping(a) PROVE AllocationExact'
  BY <1>4, <1>8, SelectedAfter DEF Proving, Dropping
<1>9. ASSUME NEW a \in Accounts, Flaking(a) \/ Registering(a) PROVE AllocationExact'
  BY <1>2, <1>9, SelectedAfter DEF Flaking, Registering
<1> QED BY <1>5, <1>6, <1>7, <1>8, <1>9 DEF InkEffect

\* A deposit is held for every candidate that made one and is not proven.
LEMMA DepositsStep ==
  ASSUME InkTypes, InkTypes', DepositsExact, InkEffect
  PROVE  DepositsExact'
<1> DEFINE Owes(b) == b \in DOMAIN candidates /\ candidates[b].cred.by = "Deposit"
                      /\ ~IsProven(b)
<1>1. /\ deposits \subseteq Accounts /\ deposits' \subseteq Accounts
      /\ DOMAIN candidates \subseteq Accounts /\ DOMAIN candidates' \subseteq Accounts
  BY DEF InkTypes, IsPartialFunction
<1>2. \A b \in Accounts : b \in deposits <=> Owes(b)
  BY DEF DepositsExact
<1>3. SUFFICES \A b \in Accounts : b \in deposits' <=> Owes(b)'
  BY <1>1 DEF DepositsExact
<1>4. CASE NothingHappens
  <2>1. deposits' = deposits
    BY <1>4 DEF NothingHappens
  <2> QED BY <1>2, <1>4, <2>1, AllAccounts
<1>5. ASSUME NEW a \in Accounts, OthersStay(a), NEW b \in Accounts \ {a},
             b \in deposits' <=> b \in deposits
      PROVE  b \in deposits' <=> Owes(b)'
  BY <1>2, <1>5, OtherAccounts
<1>6. ASSUME NEW a \in Accounts, NEW cred \in Credibilities, Applying(a, cred)
      PROVE  \A b \in Accounts : b \in deposits' <=> Owes(b)'
  <2>1. a \in deposits' <=> Owes(a)'
    <3>1. cred.by = "Deposit" <=> cred = ByDeposit
      BY CredibilityKinds
    <3>2. a \notin deposits /\ ~IsProven(a)'
      BY <1>2, <1>6 DEF Applying, IsProven
    <3> QED BY <1>6, <3>1, <3>2 DEF Applying
  <2> QED BY <1>5, <1>6, <2>1 DEF Applying
<1>7. ASSUME NEW a \in Accounts, NEW id, NEW d, Committing(a, id, d)
      PROVE  \A b \in Accounts : b \in deposits' <=> Owes(b)'
  <2>1. a \in deposits' <=> Owes(a)'
    BY <1>2, <1>7 DEF Committing, IsProven, IsApplied
  <2> QED BY <1>5, <1>7, <2>1 DEF Committing
<1>8. ASSUME NEW a \in Accounts, Proving(a)
      PROVE  \A b \in Accounts : b \in deposits' <=> Owes(b)'
  <2>1. a \notin deposits' /\ IsProven(a)'
    BY <1>8 DEF Proving, IsProven
  <2> QED BY <1>5, <1>8, <2>1 DEF Proving
<1>9. ASSUME NEW a \in Accounts, Ending(a)
      PROVE  \A b \in Accounts : b \in deposits' <=> Owes(b)'
  BY <1>5, <1>9 DEF Ending
<1>10. ASSUME NEW a \in Accounts, Registering(a)
       PROVE  \A b \in Accounts : b \in deposits' <=> Owes(b)'
  <2>1. a \notin deposits' /\ ~Owes(a)'
    BY <1>2, <1>10 DEF Registering
  <2> QED BY <1>5, <1>10, <2>1 DEF Registering
<1> QED BY <1>4, <1>6, <1>7, <1>8, <1>9, <1>10 DEF InkEffect, Flaking, Dropping

\* A referred or invited candidate holds exactly one account reference.
LEMMA SufficientsStep ==
  ASSUME InkTypes, InkTypes', SufficientsExact, InkEffect
  PROVE  SufficientsExact'
<1> DEFINE Refs(b) == IF b \in DOMAIN candidates /\ candidates[b].cred.by # "Deposit"
                      THEN 1 ELSE 0
<1>1. sufficients \in [Accounts -> Nat]
      /\ \A b \in Accounts : sufficients[b] = Refs(b)
  BY DEF InkTypes, SufficientsExact
<1>2. SUFFICES \A b \in Accounts : sufficients'[b] = Refs(b)'
  BY DEF SufficientsExact
<1>3. CASE NothingHappens
  <2>1. sufficients' = sufficients
    BY <1>3 DEF NothingHappens
  <2> QED BY <1>1, <1>3, <2>1, AllAccounts
<1>4. ASSUME NEW a \in Accounts, OthersStay(a), NEW b \in Accounts \ {a},
             sufficients'[b] = sufficients[b]
      PROVE  sufficients'[b] = Refs(b)'
  BY <1>1, <1>4, OtherAccounts
<1>5. ASSUME NEW a \in Accounts, NEW cred \in Credibilities, Applying(a, cred)
      PROVE  \A b \in Accounts : sufficients'[b] = Refs(b)'
  <2>1. cred.by = "Deposit" <=> cred = ByDeposit
    BY CredibilityKinds
  <2>2. sufficients[a] = 0
    BY <1>1, <1>5 DEF Applying
  <2>3. sufficients'[a] = Refs(a)'
    BY <1>1, <1>5, <2>1, <2>2 DEF Applying
  <2>4. \A b \in Accounts \ {a} : sufficients'[b] = sufficients[b]
    BY <1>1, <1>5 DEF Applying
  <2> QED BY <1>4, <1>5, <2>3, <2>4 DEF Applying
<1>6. ASSUME NEW a \in Accounts, OthersStay(a), a \in DOMAIN candidates,
             a \in DOMAIN candidates', candidates'[a].cred = candidates[a].cred,
             sufficients' = sufficients
      PROVE  \A b \in Accounts : sufficients'[b] = Refs(b)'
  BY <1>1, <1>4, <1>6
<1>7. ASSUME NEW a \in Accounts, OthersStay(a), a \in DOMAIN candidates,
             a \notin DOMAIN candidates',
             sufficients' = IF candidates[a].cred = ByDeposit THEN sufficients
                            ELSE Dec(sufficients, a)
      PROVE  \A b \in Accounts : sufficients'[b] = Refs(b)'
  <2>1. candidates[a].cred.by = "Deposit" <=> candidates[a].cred = ByDeposit
    BY <1>7, CandidateCases, CredibilityKinds
  <2>2. /\ Dec(sufficients, a)[a] = IF sufficients[a] = 0 THEN 0 ELSE sufficients[a] - 1
        /\ \A b \in Accounts \ {a} : Dec(sufficients, a)[b] = sufficients[b]
    BY <1>1, DecSufficients
  <2>3. sufficients'[a] = 0
    BY <1>1, <1>7, <2>1, <2>2
  <2>4. \A b \in Accounts \ {a} : sufficients'[b] = sufficients[b]
    BY <1>7, <2>2
  <2> QED BY <1>4, <1>7, <2>3, <2>4
<1> QED BY <1>3, <1>5, <1>6, <1>7
     DEF InkEffect, Committing, Proving, Flaking, Dropping, Ending, Registering,
         idVars, IsApplied, IsSelected, IsProven

\* The active referrals of a person are its candidates that are not proven.
LEMMA ActiveStep ==
  ASSUME InkTypes, InkTypes', ActiveExact, IdsInv, InkEffect
  PROVE  ActiveExact'
<1> DEFINE Refers(r, b) == b \in DOMAIN candidates /\ candidates[b].cred = Referred(r)
                           /\ ~IsProven(b)
           HasReferrer(b) == candidates[b].cred.by = "Referred"
                               => candidates[b].cred.who \in DOMAIN people
<1>1. /\ DOMAIN candidates \subseteq Accounts /\ DOMAIN candidates' \subseteq Accounts
      /\ \A r \in DOMAIN people : people[r].active \subseteq Accounts
      /\ \A r \in DOMAIN people' : people'[r].active \subseteq Accounts
  BY DEF InkTypes, IsPartialFunction, PersonType
<1>2. /\ \A b \in DOMAIN candidates : HasReferrer(b)
      /\ \A r \in DOMAIN people : \A b \in Accounts : b \in people[r].active <=> Refers(r, b)
  BY DEF ActiveExact
<1>3. SUFFICES
        /\ \A b \in DOMAIN candidates' : HasReferrer(b)'
        /\ \A r \in DOMAIN people' : \A b \in Accounts :
             b \in people'[r].active <=> Refers(r, b)'
  BY <1>1 DEF ActiveExact
<1>4. CASE NothingHappens
  <2>1. DOMAIN people' = DOMAIN people
        /\ \A r \in DOMAIN people : people'[r].active = people[r].active
    BY <1>4 DEF NothingHappens, PeopleStay
  <2>2. \A b : b \in DOMAIN candidates' => b \in DOMAIN candidates /\ candidates'[b].cred = candidates[b].cred
    BY <1>4, AllAccounts
  <2>4. \A r, b : Refers(r, b)' <=> Refers(r, b)
    BY <1>4, AllAccounts
  <2> QED BY <1>2, <2>1, <2>2, <2>4
<1>5. ASSUME NEW a \in Accounts, OthersStay(a), DOMAIN people \subseteq DOMAIN people',
             NEW b \in Accounts \ {a}, b \in DOMAIN candidates'
      PROVE  HasReferrer(b)'
  BY <1>2, <1>5, OtherAccounts
<1>6. ASSUME NEW a \in Accounts, OthersStay(a), NEW b \in Accounts \ {a}, NEW r
      PROVE  Refers(r, b)' <=> Refers(r, b)
  BY <1>6, OtherAccounts
<1>7. ASSUME NEW a \in Accounts, NEW cred \in Credibilities, Applying(a, cred)
      PROVE  /\ \A b \in DOMAIN candidates' : HasReferrer(b)'
             /\ \A r \in DOMAIN people' : \A b \in Accounts :
                  b \in people'[r].active <=> Refers(r, b)'
  <2>1. OthersStay(a) /\ DOMAIN people' = DOMAIN people
        /\ \A r \in DOMAIN people : people'[r].active = IF cred = Referred(r)
                                THEN people[r].active \cup {a} ELSE people[r].active
    BY <1>7 DEF Applying
  <2>2. HasReferrer(a)' /\ \A r : Refers(r, a)' <=> cred = Referred(r)
    BY <1>7 DEF Applying, IsProven
  <2>3. \A r \in DOMAIN people : a \notin people[r].active
    BY <1>2, <1>7 DEF Applying
  <2>4. \A b \in DOMAIN candidates' : HasReferrer(b)'
    BY <1>1, <1>5, <2>1, <2>2
  <2>5. ASSUME NEW r \in DOMAIN people, NEW b \in Accounts
        PROVE  b \in people'[r].active <=> Refers(r, b)'
    <3>1. CASE b = a
      BY <2>1, <2>2, <2>3, <3>1
    <3>2. CASE b # a
      <4>1. b \in people'[r].active <=> b \in people[r].active
        BY <2>1, <3>2
      <4>2. Refers(r, b)' <=> Refers(r, b)
        BY <1>6, <2>1, <3>2
      <4> QED BY <1>2, <4>1, <4>2
    <3> QED BY <3>1, <3>2
  <2> QED BY <2>1, <2>4, <2>5
<1>8. ASSUME NEW a \in Accounts, NEW id, NEW d, Committing(a, id, d)
      PROVE  /\ \A b \in DOMAIN candidates' : HasReferrer(b)'
             /\ \A r \in DOMAIN people' : \A b \in Accounts :
                  b \in people'[r].active <=> Refers(r, b)'
  <2>1. OthersStay(a) /\ DOMAIN people' = DOMAIN people
        /\ \A r \in DOMAIN people : people'[r].active = people[r].active
    BY <1>8 DEF Committing, PeopleStay
  <2>2. HasReferrer(a)' /\ \A r : Refers(r, a)' <=> Refers(r, a)
    BY <1>2, <1>8, <2>1 DEF Committing, IsProven, IsApplied
  <2>3. \A b \in DOMAIN candidates' : HasReferrer(b)'
    BY <1>1, <1>5, <2>1, <2>2
  <2>4. ASSUME NEW r \in DOMAIN people, NEW b \in Accounts
        PROVE  b \in people'[r].active <=> Refers(r, b)'
    <3>1. CASE b = a
      BY <1>2, <2>1, <2>2, <3>1
    <3>2. CASE b # a
      BY <1>2, <1>6, <2>1, <3>2
    <3> QED BY <3>1, <3>2
  <2> QED BY <2>1, <2>3, <2>4
<1>9. ASSUME NEW a \in Accounts, OthersStay(a), ReferralEnds(a), a \in DOMAIN candidates,
             a \in DOMAIN candidates' => /\ IsProven(a)'
                                         /\ candidates'[a].cred = candidates[a].cred
      PROVE  /\ \A b \in DOMAIN candidates' : HasReferrer(b)'
             /\ \A r \in DOMAIN people' : \A b \in Accounts :
                  b \in people'[r].active <=> Refers(r, b)'
  <2>1. DOMAIN people' = DOMAIN people
        /\ \A r \in DOMAIN people :
             people'[r].active = IF candidates[a].cred = Referred(r)
                                 THEN people[r].active \ {a} ELSE people[r].active
    BY <1>9 DEF ReferralEnds
  <2>2. /\ a \in DOMAIN candidates' => HasReferrer(a)'
        /\ \A r : ~Refers(r, a)'
    BY <1>2, <1>9, <2>1
  <2>3. \A b \in DOMAIN candidates' : HasReferrer(b)'
    BY <1>1, <1>5, <1>9, <2>1, <2>2
  <2>4. ASSUME NEW r \in DOMAIN people, NEW b \in Accounts
        PROVE  b \in people'[r].active <=> Refers(r, b)'
    <3>1. CASE b = a
      BY <1>2, <2>1, <2>2, <3>1
    <3>2. CASE b # a
      <4>1. b \in people'[r].active <=> b \in people[r].active
        BY <2>1, <3>2
      <4>2. Refers(r, b)' <=> Refers(r, b)
        BY <1>6, <1>9, <3>2
      <4> QED BY <1>2, <4>1, <4>2
    <3> QED BY <3>1, <3>2
  <2> QED BY <2>1, <2>3, <2>4
<1>10. ASSUME NEW a \in Accounts, Registering(a)
       PROVE  /\ \A b \in DOMAIN candidates' : HasReferrer(b)'
              /\ \A r \in DOMAIN people' : \A b \in Accounts :
                   b \in people'[r].active <=> Refers(r, b)'
  <2> DEFINE q == candidates[a].reserved
  <2>1. /\ IsProven(a) /\ a \notin DOMAIN candidates' /\ OthersStay(a)
        /\ q \in reservedIds /\ people' = Insert(people, q, NewPerson(candidates[a].design))
    BY <1>10 DEF Registering
  <2>2. q \notin DOMAIN people
    BY <2>1 DEF IdsInv
  <2>3. DOMAIN people' = DOMAIN people \cup {q}
        /\ (\A r \in DOMAIN people : people'[r] = people[r])
        /\ people'[q].active = {}
    BY <2>1, <2>2 DEF Insert, NewPerson
  <2>4. \A b \in DOMAIN candidates' : HasReferrer(b)'
    BY <1>1, <1>5, <2>1, <2>3
  <2>5. ASSUME NEW r \in DOMAIN people', NEW b \in Accounts
        PROVE  b \in people'[r].active <=> Refers(r, b)'
    <3>1. CASE b = a
      <4>1. ~Refers(r, a)'
        BY <2>1
      <4>2. r \in DOMAIN people => a \notin people[r].active
        BY <1>2, <2>1
      <4> QED BY <2>3, <3>1, <4>1, <4>2
    <3>2. CASE b # a /\ r \in DOMAIN people
      BY <1>2, <1>6, <2>1, <2>3, <3>2
    <3>3. CASE b # a /\ r = q
      <4>1. ~Refers(q, b)
        <5> SUFFICES ASSUME Refers(q, b) PROVE FALSE
          OBVIOUS
        <5>1. candidates[b].cred.by = "Referred" /\ candidates[b].cred.who = q
          BY DEF Referred
        <5> QED BY <1>2, <2>2, <5>1
      <4> QED BY <1>6, <2>1, <2>3, <3>3, <4>1
    <3> QED BY <2>3, <3>1, <3>2, <3>3
  <2> QED BY <2>4, <2>5
<1>11. ASSUME NEW a \in Accounts, Proving(a) \/ Flaking(a) \/ Dropping(a)
       PROVE  /\ \A b \in DOMAIN candidates' : HasReferrer(b)'
              /\ \A r \in DOMAIN people' : \A b \in Accounts :
                   b \in people'[r].active <=> Refers(r, b)'
  <2>1. /\ OthersStay(a) /\ ReferralEnds(a) /\ a \in DOMAIN candidates
        /\ a \in DOMAIN candidates' => /\ IsProven(a)'
                                       /\ candidates'[a].cred = candidates[a].cred
    BY <1>11 DEF Proving, Flaking, Dropping, Ending, IsSelected, IsProven
  <2> QED BY <1>9, <2>1
<1> QED BY <1>4, <1>7, <1>8, <1>10, <1>11 DEF InkEffect

-----------------------------------------------------------------------------
(* Ids and designs.                                                        *)

\* An id is reserved when a candidate commits and given up or turned into a
\* person when it leaves.
LEMMA IdsStep ==
  ASSUME InkTypes, InkTypes', IdsInv, InkEffect
  PROVE  IdsInv'
<1>1. /\ nextId \in Int /\ nextId' \in Int /\ reservedIds' \subseteq Nat /\ persons' \subseteq Nat
  BY InkAssumption DEF InkTypes, Ids
<1>2. ASSUME UNCHANGED idVars, WithId' = WithId, DOMAIN people' = DOMAIN people,
             \A b \in WithId : candidates'[b].reserved = candidates[b].reserved
      PROVE  IdsInv'
  BY <1>2 DEF IdsInv, idVars
<1>3. CASE NothingHappens
  <2>1. \A b \in WithId : candidates'[b].reserved = candidates[b].reserved
    BY <1>3, AllAccounts DEF WithId
  <2> QED BY <1>2, <1>3, <2>1, SelectedAfter DEF NothingHappens, PeopleStay
<1>4. ASSUME NEW a \in Accounts, OthersStay(a)
      PROVE  \A b \in WithId \ {a} : candidates'[b].reserved = candidates[b].reserved
  BY <1>4, OtherAccounts DEF WithId
<1>5. ASSUME NEW a \in Accounts, NEW cred, Applying(a, cred)
      PROVE  IdsInv'
  <2>1. a \notin WithId /\ OthersStay(a)
    BY <1>5 DEF WithId, Applying, IsSelected, IsProven
  <2> QED BY <1>2, <1>4, <1>5, <2>1, SelectedAfter DEF Applying
<1>6. ASSUME NEW a \in Accounts, NEW id \in Ids, NEW d, Committing(a, id, d)
      PROVE  IdsInv'
  <2>1. /\ a \notin WithId /\ WithId' = WithId \cup {a} /\ OthersStay(a)
        /\ candidates'[a].reserved = id
        /\ id \notin reservedIds /\ id \notin persons /\ id < nextId'
        /\ nextId <= nextId' /\ reservedIds' = reservedIds \cup {id}
        /\ persons' = persons /\ DOMAIN people' = DOMAIN people
    BY <1>6, SelectedAfter DEF Committing, PeopleStay
  <2>2. \A b \in WithId : candidates'[b].reserved = candidates[b].reserved
    BY <1>4, <2>1
  <2>3. reservedIds' = {candidates'[b].reserved : b \in WithId'}
    BY <2>1, <2>2 DEF IdsInv
  <2>4. \A b, c \in WithId' : candidates'[b].reserved = candidates'[c].reserved => b = c
    BY <2>1, <2>2 DEF IdsInv
  <2>5. reservedIds' \cap persons' = {} /\ DOMAIN people' = persons'
    BY <2>1 DEF IdsInv
  <2>6. reservedIds' \cup persons' \subseteq 0..(nextId' - 1)
    <3>1. \A x \in reservedIds \cup persons : x \in Nat /\ x < nextId
      BY <1>1 DEF IdsInv
    <3>2. id \in Nat
      BY InkAssumption DEF Ids
    <3>3. ASSUME NEW x \in reservedIds' \cup persons'
          PROVE  x \in 0..(nextId' - 1)
      <4>1. x = id \/ x \in reservedIds \cup persons
        BY <2>1
      <4>2. x \in Nat /\ x < nextId'
        BY <1>1, <2>1, <3>1, <3>2, <4>1
      <4>3. \A y \in Nat, n \in Int : y < n => y \in 0..(n - 1)
        OBVIOUS
      <4> QED BY <1>1, <4>2, <4>3
    <3> QED BY <3>3, Zenon
  <2> QED BY <2>3, <2>4, <2>5, <2>6 DEF IdsInv
<1>7. ASSUME NEW a \in Accounts, Proving(a)
      PROVE  IdsInv'
  <2>1. \A b \in WithId : candidates'[b].reserved = candidates[b].reserved
    BY <1>4, <1>7 DEF Proving
  <2> QED BY <1>2, <1>7, <2>1, SelectedAfter DEF Proving, ReferralEnds
<1>8. ASSUME NEW a \in Accounts, Flaking(a)
      PROVE  IdsInv'
  <2>1. a \notin WithId /\ OthersStay(a)
    BY <1>8 DEF WithId, Flaking, Ending, IsSelected, IsProven, IsApplied
  <2> QED BY <1>2, <1>4, <1>8, <2>1, SelectedAfter DEF Flaking, Ending, ReferralEnds
<1>9. ASSUME NEW a \in Accounts, OthersStay(a), a \in WithId, WithId' = WithId \ {a},
             reservedIds' = reservedIds \ {candidates[a].reserved}
      PROVE  /\ reservedIds' = {candidates'[b].reserved : b \in WithId'}
             /\ \A b, c \in WithId' : candidates'[b].reserved = candidates'[c].reserved => b = c
  <2>1. \A b \in WithId' : candidates'[b].reserved = candidates[b].reserved
    BY <1>4, <1>9
  <2>2. \A b \in WithId' : candidates[b].reserved # candidates[a].reserved
    BY <1>9 DEF IdsInv
  <2> QED BY <1>9, <2>1, <2>2 DEF IdsInv
<1>10. ASSUME NEW a \in Accounts, Dropping(a)
       PROVE  IdsInv'
  <2>1. /\ OthersStay(a) /\ a \in WithId /\ WithId' = WithId \ {a}
        /\ reservedIds' = reservedIds \ {candidates[a].reserved}
        /\ UNCHANGED <<nextId, persons>> /\ DOMAIN people' = DOMAIN people
    BY <1>10, SelectedAfter DEF Dropping, Ending, ReferralEnds
  <2>2. /\ reservedIds' = {candidates'[b].reserved : b \in WithId'}
        /\ \A b, c \in WithId' : candidates'[b].reserved = candidates'[c].reserved => b = c
    BY <1>9, <2>1
  <2>3. reservedIds' \cap persons' = {} /\ DOMAIN people' = persons'
    BY <2>1 DEF IdsInv
  <2>4. reservedIds' \cup persons' \subseteq 0..(nextId' - 1)
    BY <2>1 DEF IdsInv
  <2> QED BY <2>2, <2>3, <2>4 DEF IdsInv
<1>11. ASSUME NEW a \in Accounts, Registering(a)
       PROVE  IdsInv'
  <2> DEFINE q == candidates[a].reserved
  <2>1. /\ OthersStay(a) /\ a \in WithId /\ WithId' = WithId \ {a}
        /\ q \in reservedIds /\ reservedIds' = reservedIds \ {q}
        /\ persons' = persons \cup {q} /\ nextId' = nextId
        /\ DOMAIN people' = DOMAIN people \cup {q}
    BY <1>11, SelectedAfter DEF Registering, Insert
  <2>2. /\ reservedIds' = {candidates'[b].reserved : b \in WithId'}
        /\ \A b, c \in WithId' : candidates'[b].reserved = candidates'[c].reserved => b = c
    BY <1>9, <2>1
  <2> HIDE DEF q
  <2>3. reservedIds' \cap persons' = {} /\ DOMAIN people' = persons'
    BY <2>1 DEF IdsInv
  <2>4. reservedIds' \cup persons' \subseteq 0..(nextId' - 1)
    BY <2>1 DEF IdsInv
  <2> QED BY <2>2, <2>3, <2>4 DEF IdsInv
<1> QED BY <1>3, <1>5, <1>6, <1>7, <1>8, <1>10, <1>11 DEF InkEffect

\* Who has design d: a selected candidate, a proven one, a person.
Choosers(d) == {a \in SelectedNow : candidates[a].design = d}
\* Proven candidates who hold design d.
Holders(d) == {a \in WithId \ SelectedNow : candidates[a].design = d}
\* People registered with design d.
Owners(d) == {r \in DOMAIN people : people[r].design = d}

\* At most one of them, and `CommittedDesigns` says which.
DesignExact(d) ==
  IF d \notin DOMAIN committedDesigns
  THEN Choosers(d) = {} /\ Holders(d) = {} /\ Owners(d) = {}
  ELSE IF committedDesigns[d] = "Reserved"
  THEN (\E a : Choosers(d) = {a}) /\ Holders(d) = {} /\ Owners(d) = {}
  ELSE /\ Choosers(d) = {}
       /\ \/ (\E a : Holders(d) = {a}) /\ Owners(d) = {}
          \/ Holders(d) = {} /\ \E r : Owners(d) = {r}

\* Every elective design has one holder at most.
DesignsInv == \A d \in ElectiveDesigns : DesignExact(d)

\* Nothing about design d changes.
LEMMA DesignSame ==
  ASSUME NEW d, DesignExact(d),
         Choosers(d)' = Choosers(d), Holders(d)' = Holders(d), Owners(d)' = Owners(d),
         d \in DOMAIN committedDesigns' <=> d \in DOMAIN committedDesigns,
         d \in DOMAIN committedDesigns => committedDesigns'[d] = committedDesigns[d]
  PROVE  DesignExact(d)'
BY DEF DesignExact

\* Who has design d when only account a changes.
LEMMA DesignOthers ==
  ASSUME InkTypes, NEW a \in Accounts, OthersStay(a), NEW d, NEW b \in Accounts, b # a
  PROVE  /\ b \in Choosers(d)' <=> b \in Choosers(d)
         /\ b \in Holders(d)' <=> b \in Holders(d)
BY OtherAccounts DEF Choosers, Holders, SelectedNow, WithId

\* The persons who own design d when nobody registers.
LEMMA OwnersSame ==
  ASSUME NEW d, DOMAIN people' = DOMAIN people,
         \A r \in DOMAIN people : people'[r].design = people[r].design
  PROVE  Owners(d)' = Owners(d)
BY DEF Owners

\* A design is reserved, committed, freed and handed to a person.
LEMMA DesignsStep ==
  ASSUME InkTypes, InkTypes', IdsInv, DesignsInv, InkEffect
  PROVE  DesignsInv'
<1> SUFFICES ASSUME NEW d \in ElectiveDesigns PROVE DesignExact(d)'
  BY DEF DesignsInv
<1>1. DesignExact(d)
  BY DEF DesignsInv
<1>2. /\ Choosers(d) \subseteq Accounts /\ Choosers(d)' \subseteq Accounts
      /\ Holders(d) \subseteq Accounts /\ Holders(d)' \subseteq Accounts
  BY DEF Choosers, Holders, SelectedNow, WithId
<1>3. CASE NothingHappens
  <2>1. Choosers(d)' = Choosers(d) /\ Holders(d)' = Holders(d)
    <3>1. SelectedNow' = SelectedNow /\ WithId' = WithId
      BY <1>3, SelectedAfter
    <3>2. \A b \in WithId \cup SelectedNow : candidates'[b].design = candidates[b].design
      BY <1>3, AllAccounts DEF WithId, SelectedNow
    <3> QED BY <3>1, <3>2 DEF Choosers, Holders
  <2>2. Owners(d)' = Owners(d)
    BY <1>3, OwnersSame DEF NothingHappens, PeopleStay
  <2>3. committedDesigns' = committedDesigns
    BY <1>3 DEF NothingHappens
  <2> QED BY <1>1, <2>1, <2>2, <2>3, DesignSame
<1>4. ASSUME NEW a \in Accounts, OthersStay(a),
             a \in Choosers(d)' <=> a \in Choosers(d),
             a \in Holders(d)' <=> a \in Holders(d)
      PROVE  Choosers(d)' = Choosers(d) /\ Holders(d)' = Holders(d)
  BY <1>2, <1>4, DesignOthers
<1>5. ASSUME NEW a \in Accounts, \/ \E cred : Applying(a, cred)
                                 \/ Flaking(a)
      PROVE  DesignExact(d)'
  <2>1. /\ OthersStay(a) /\ a \notin Choosers(d) /\ a \notin Choosers(d)'
        /\ a \notin Holders(d) /\ a \notin Holders(d)'
        /\ committedDesigns' = committedDesigns
    BY <1>5 DEF Applying, Flaking, Ending, Choosers, Holders, SelectedNow, WithId,
       IsSelected, IsProven, IsApplied
  <2>2. Choosers(d)' = Choosers(d) /\ Holders(d)' = Holders(d)
    BY <1>4, <2>1
  <2>3. Owners(d)' = Owners(d)
    BY <1>5, OwnersSame DEF Applying, Flaking, Ending, ReferralEnds
  <2> QED BY <1>1, <2>1, <2>2, <2>3, DesignSame
<1>6. ASSUME NEW a \in Accounts, NEW id, NEW e, Committing(a, id, e)
      PROVE  DesignExact(d)'
  <2>1. /\ OthersStay(a) /\ a \notin Choosers(d) /\ (a \in Choosers(d)' <=> e = d)
        /\ a \notin Holders(d) /\ a \notin Holders(d)'
    BY <1>6 DEF Committing, Choosers, Holders, SelectedNow, WithId, IsSelected, IsProven, IsApplied
  <2>2. Owners(d)' = Owners(d)
    BY <1>6, OwnersSame DEF Committing, PeopleStay
  <2>3. CASE e # d
    <3>1. Choosers(d)' = Choosers(d) /\ Holders(d)' = Holders(d)
      BY <1>4, <2>1, <2>3
    <3>2. /\ d \in DOMAIN committedDesigns' <=> d \in DOMAIN committedDesigns
          /\ d \in DOMAIN committedDesigns => committedDesigns'[d] = committedDesigns[d]
      BY <1>6, <2>3 DEF Committing, Insert
    <3> QED BY <1>1, <2>2, <3>1, <3>2, DesignSame
  <2>4. CASE e = d
    <3>1. d \notin DOMAIN committedDesigns /\ d \in DOMAIN committedDesigns'
          /\ committedDesigns'[d] = "Reserved"
      BY <1>6, <2>4 DEF Committing, Insert
    <3>2. Choosers(d) = {} /\ Holders(d) = {} /\ Owners(d) = {}
      BY <1>1, <3>1 DEF DesignExact
    <3>3. Choosers(d)' = {a} /\ Holders(d)' = {}
      BY <1>2, <2>1, <2>4, <3>2, DesignOthers
    <3> QED BY <2>2, <3>1, <3>2, <3>3 DEF DesignExact
  <2> QED BY <2>3, <2>4
<1>7. ASSUME NEW a \in Accounts, Proving(a)
      PROVE  DesignExact(d)'
  <2> DEFINE e == candidates[a].design
  <2>1. /\ OthersStay(a) /\ (a \in Choosers(d) <=> e = d) /\ a \notin Choosers(d)'
        /\ a \notin Holders(d) /\ (a \in Holders(d)' <=> e = d)
    BY <1>7 DEF Proving, Choosers, Holders, SelectedNow, WithId, IsSelected, IsProven
  <2>2. Owners(d)' = Owners(d)
    BY <1>7, OwnersSame DEF Proving, ReferralEnds
  <2>3. CASE e # d
    <3>1. Choosers(d)' = Choosers(d) /\ Holders(d)' = Holders(d)
      BY <1>4, <2>1, <2>3
    <3>2. /\ d \in DOMAIN committedDesigns' <=> d \in DOMAIN committedDesigns
          /\ d \in DOMAIN committedDesigns => committedDesigns'[d] = committedDesigns[d]
      BY <1>7, <2>3 DEF Proving, Insert
    <3> QED BY <1>1, <2>2, <3>1, <3>2, DesignSame
  <2>4. CASE e = d
    <3>1. Choosers(d) = {a} /\ Holders(d) = {} /\ Owners(d) = {}
      BY <1>1, <2>1, <2>4 DEF DesignExact
    <3>2. d \in DOMAIN committedDesigns' /\ committedDesigns'[d] = "Committed"
      BY <1>7, <2>4 DEF Proving, Insert
    <3>3. Choosers(d)' = {} /\ Holders(d)' = {a}
      BY <1>2, <2>1, <2>4, <3>1, DesignOthers
    <3> QED BY <2>2, <3>1, <3>2, <3>3 DEF DesignExact
  <2> QED BY <2>3, <2>4
<1>8. ASSUME NEW a \in Accounts, Dropping(a)
      PROVE  DesignExact(d)'
  <2> DEFINE e == candidates[a].design
  <2>1. /\ OthersStay(a) /\ (a \in Choosers(d) <=> e = d) /\ a \notin Choosers(d)'
        /\ a \notin Holders(d) /\ a \notin Holders(d)'
    BY <1>8 DEF Dropping, Ending, Choosers, Holders, SelectedNow, WithId, IsSelected, IsProven
  <2>2. Owners(d)' = Owners(d)
    BY <1>8, OwnersSame DEF Dropping, Ending, ReferralEnds
  <2>3. CASE e # d
    <3>1. Choosers(d)' = Choosers(d) /\ Holders(d)' = Holders(d)
      BY <1>4, <2>1, <2>3
    <3>2. /\ d \in DOMAIN committedDesigns' <=> d \in DOMAIN committedDesigns
          /\ d \in DOMAIN committedDesigns => committedDesigns'[d] = committedDesigns[d]
      BY <1>8, <2>3 DEF Dropping, Without
    <3> QED BY <1>1, <2>2, <3>1, <3>2, DesignSame
  <2>4. CASE e = d
    <3>1. Choosers(d) = {a} /\ Holders(d) = {} /\ Owners(d) = {}
      BY <1>1, <2>1, <2>4 DEF DesignExact
    <3>2. d \notin DOMAIN committedDesigns'
      BY <1>8, <2>4 DEF Dropping, Without
    <3>3. Choosers(d)' = {} /\ Holders(d)' = {}
      BY <1>2, <2>1, <2>4, <3>1, DesignOthers
    <3> QED BY <2>2, <3>1, <3>2, <3>3 DEF DesignExact
  <2> QED BY <2>3, <2>4
<1>9. ASSUME NEW a \in Accounts, Registering(a)
      PROVE  DesignExact(d)'
  <2> DEFINE e == candidates[a].design
             q == candidates[a].reserved
  <2>1. /\ OthersStay(a) /\ a \notin Choosers(d) /\ a \notin Choosers(d)'
        /\ (a \in Holders(d) <=> e = d) /\ a \notin Holders(d)'
    BY <1>9 DEF Registering, Choosers, Holders, SelectedNow, WithId, IsSelected, IsProven
  <2>2. Owners(d)' = IF e = d THEN Owners(d) \cup {q} ELSE Owners(d)
    <3>1. q \notin DOMAIN people /\ people' = Insert(people, q, NewPerson(e))
      BY <1>9 DEF Registering, IdsInv
    <3>2. /\ DOMAIN people' = DOMAIN people \cup {q}
          /\ people'[q].design = e
          /\ \A r \in DOMAIN people : people'[r] = people[r]
      BY <3>1 DEF Insert, NewPerson
    <3> HIDE DEF q, e
    <3> QED BY <3>1, <3>2 DEF Owners
  <2>3. committedDesigns' = committedDesigns
    BY <1>9 DEF Registering
  <2>4. CASE e # d
    <3>1. Choosers(d)' = Choosers(d) /\ Holders(d)' = Holders(d)
      BY <1>4, <2>1, <2>4
    <3> QED BY <1>1, <2>2, <2>3, <2>4, <3>1, DesignSame
  <2>5. CASE e = d
    <3>1. /\ d \in DOMAIN committedDesigns /\ committedDesigns[d] # "Reserved"
          /\ Choosers(d) = {} /\ Holders(d) = {a} /\ Owners(d) = {}
      BY <1>1, <2>1, <2>5 DEF DesignExact
    <3>2. Choosers(d)' = {} /\ Holders(d)' = {}
      BY <1>2, <2>1, <2>5, <3>1, DesignOthers
    <3>3. Owners(d)' = {q}
      BY <2>2, <2>5, <3>1
    <3> QED BY <2>3, <3>1, <3>2, <3>3 DEF DesignExact
  <2> QED BY <2>4, <2>5
<1> QED BY <1>3, <1>5, <1>6, <1>7, <1>8, <1>9 DEF InkEffect

-----------------------------------------------------------------------------
(* The invariant, and the theorems that follow from it.                    *)

\* The inductive invariant of books, ids, designs and tickets.
InkInv ==
  /\ InkTypes
  /\ AllocationExact /\ DepositsExact /\ SufficientsExact /\ ActiveExact
  /\ IdsInv
  /\ DesignsInv

\* Nobody has applied and nothing is reserved.
LEMMA InkInit == Init => InkInv
<1> SUFFICES ASSUME Init PROVE InkInv
  OBVIOUS
<1>1. /\ candidates = <<>> /\ people = <<>> /\ committedDesigns = <<>> /\ statements = <<>>
      /\ DOMAIN candidates = {} /\ DOMAIN people = {} /\ DOMAIN committedDesigns = {}
      /\ DOMAIN statements = {}
  BY DEF Init
<1>2. /\ nextTicket = 0 /\ pending = {} /\ allocationCount = 0 /\ config \in Configs
      /\ nextId = 0 /\ reservedIds = {} /\ persons = {} /\ deposits = {}
      /\ sufficients = [a \in Accounts |-> 0] /\ referralTickets = [i \in Ids |-> {}]
  BY DEF Init, OracleInit
<1>3. SelectedNow = {} /\ WithId = {}
  BY <1>1 DEF SelectedNow, WithId, IsSelected, IsProven
<1>4. InkTypes
  <2>1. 0 \in 0..MaxIds
    BY InkAssumption
  <2>2. /\ IsPartialFunction(candidates, Accounts, CandidateType)
        /\ IsPartialFunction(people, Ids, PersonType)
        /\ IsPartialFunction(committedDesigns, ElectiveDesigns, {"Reserved", "Committed"})
        /\ IsPartialFunction(statements, 0..(nextTicket - 1), StatementType)
    BY <1>1, EmptyMapType
  <2> QED BY <1>1, <1>2, <2>1, <2>2 DEF InkTypes
<1>5. AllocationExact
  BY <1>2, <1>3, FS_EmptySet DEF AllocationExact
<1>6. DepositsExact /\ SufficientsExact /\ ActiveExact
  BY <1>1, <1>2 DEF DepositsExact, SufficientsExact, ActiveExact
<1>7. IdsInv
  BY <1>1, <1>2, <1>3 DEF IdsInv
<1>8. DesignsInv
  BY <1>1, <1>3 DEF DesignsInv, DesignExact, Choosers, Holders, Owners
<1> QED BY <1>4, <1>5, <1>6, <1>7, <1>8 DEF InkInv

\* Every step keeps the invariant.
LEMMA InkStep == InkInv /\ [Next]_inkVars => InkInv'
<1> SUFFICES ASSUME InkInv, [Next]_inkVars PROVE InkInv'
  OBVIOUS
<1>1. /\ InkTypes /\ AllocationExact /\ DepositsExact /\ SufficientsExact
      /\ ActiveExact /\ IdsInv /\ DesignsInv
  BY DEF InkInv
<1>2. InkTypes' /\ InkEffect
  BY <1>1, EffectStep DEF IdsInv
<1>3. AllocationExact'
  BY <1>1, <1>2, AllocationStep
<1>4. DepositsExact' /\ SufficientsExact'
  BY <1>1, <1>2, DepositsStep, SufficientsStep
<1>5. ActiveExact'
  BY <1>1, <1>2, ActiveStep
<1>6. IdsInv' /\ DesignsInv'
  BY <1>1, <1>2, IdsStep, DesignsStep
<1> QED BY <1>2, <1>3, <1>4, <1>5, <1>6 DEF InkInv

\* `AllocationCount`, deposits, account references and active referrals agree
\* with the candidates, whichever way each candidacy went.
THEOREM BooksCorrect == Spec => []BooksExact
<1>1. InkInv => BooksExact
  BY DEF InkInv, BooksExact, AllocationExact, DepositsExact, SufficientsExact, ActiveExact
<1> QED BY <1>1, InkInit, InkStep, PTL DEF Spec

\* The number of reserved ids, from IdsInv.
LEMMA IdsCounted ==
  ASSUME InkInv
  PROVE  Cardinality(reservedIds) = Cardinality(WithId)
<1> DEFINE f == [a \in WithId |-> candidates[a].reserved]
<1>1. /\ reservedIds = {candidates[a].reserved : a \in WithId}
      /\ \A a, b \in WithId : candidates[a].reserved = candidates[b].reserved => a = b
  BY DEF InkInv, IdsInv
<1>2. f \in Bijection(WithId, reservedIds)
  <2>1. f \in [WithId -> reservedIds]
    BY <1>1
  <2>2. \A a, b \in WithId : f[a] = f[b] => a = b
    BY <1>1
  <2>3. \A r \in reservedIds : \E a \in WithId : f[a] = r
    BY <1>1
  <2> HIDE DEF f
  <2> QED BY <2>1, <2>2, <2>3 DEF Bijection, Injection, Surjection, IsInjective
<1>3. IsFiniteSet(WithId)
  BY InkAssumption, FS_Subset DEF WithId
<1> QED BY <1>2, <1>3, FS_Bijection DEF ExistsBijection

\* A personal id is reserved for one candidate or belongs to one person, and an
\* elective design to one candidate or person: what timed-out, failed and
\* registered candidates leave behind can be taken anew, and is taken once.
THEOREM IdsAndDesignsCorrect == Spec => []IdsAndDesignsExact
<1>1. ASSUME InkInv PROVE IdsAndDesignsExact
  <2>1. /\ reservedIds = {candidates[a].reserved : a \in WithId}
        /\ reservedIds \cap persons = {} /\ DOMAIN people = persons
    BY <1>1 DEF InkInv, IdsInv
  <2>2. Cardinality(reservedIds) = Cardinality(WithId)
    BY <1>1, IdsCounted
  <2>3. ASSUME NEW d \in ElectiveDesigns
        PROVE  IF d \notin DOMAIN committedDesigns
               THEN Choosers(d) \cup Holders(d) \cup Owners(d) = {}
               ELSE IF committedDesigns[d] = "Reserved"
               THEN Cardinality(Choosers(d)) = 1 /\ Holders(d) \cup Owners(d) = {}
               ELSE /\ Choosers(d) = {}
                    /\ Cardinality(Holders(d)) + Cardinality(Owners(d)) = 1
    <3>1. DesignExact(d)
      BY <1>1 DEF InkInv, DesignsInv
    <3>2. Cardinality({}) = 0 /\ \A x : Cardinality({x}) = 1
      BY FS_EmptySet, FS_Singleton
    <3>3. CASE d \in DOMAIN committedDesigns /\ committedDesigns[d] # "Reserved"
      <4>1. \/ Cardinality(Holders(d)) = 1 /\ Cardinality(Owners(d)) = 0
            \/ Cardinality(Holders(d)) = 0 /\ Cardinality(Owners(d)) = 1
        BY <3>1, <3>2, <3>3 DEF DesignExact
      <4> QED BY <3>1, <3>3, <4>1 DEF DesignExact
    <3>4. CASE d \in DOMAIN committedDesigns /\ committedDesigns[d] = "Reserved"
      BY <3>1, <3>2, <3>4 DEF DesignExact
    <3>5. CASE d \notin DOMAIN committedDesigns
      BY <3>1, <3>5 DEF DesignExact
    <3> QED BY <3>3, <3>4, <3>5
  <2> QED BY <2>1, <2>2, <2>3 DEF IdsAndDesignsExact, Choosers, Holders, Owners
<1> QED BY <1>1, InkInit, InkStep, PTL DEF Spec

-----------------------------------------------------------------------------
(* Referral tickets.                                                       *)

\* TicketsHonoured, and nobody but a person has tickets.
TicketsInv ==
  /\ \A r \in Ids \ DOMAIN people : referralTickets[r] = {}
  /\ TicketsHonoured

\* The sets whose sizes add up are finite.
LEMMA TicketsFinite ==
  ASSUME InkTypes, NEW r \in DOMAIN people
  PROVE  /\ r \in Ids
         /\ IsFiniteSet(referralTickets[r]) /\ Cardinality(referralTickets[r]) \in Nat
         /\ IsFiniteSet(people[r].active) /\ Cardinality(people[r].active) \in Nat
<1>1. r \in Ids /\ referralTickets[r] \in SUBSET Tickets /\ people[r].active \in SUBSET Accounts
  BY DEF InkTypes, IsPartialFunction, PersonType
<1>2. IsFiniteSet(Tickets) /\ IsFiniteSet(Accounts)
  BY InkAssumption
<1> QED BY <1>1, <1>2, FS_Subset, FS_CardinalityType

\* Fewer tickets and fewer referrals still fit, and a new person has none.
LEMMA TicketsShrink ==
  ASSUME InkTypes, InkTypes', TicketsInv,
         \A r \in Ids : referralTickets'[r] \subseteq referralTickets[r],
         \A r \in DOMAIN people : r \in DOMAIN people' /\ people'[r].active \subseteq people[r].active,
         \A r \in DOMAIN people' \ DOMAIN people : people'[r].active = {}
  PROVE  TicketsInv'
<1>1. DOMAIN people' \subseteq Ids
  BY DEF InkTypes, IsPartialFunction
<1>2. \A r \in Ids \ DOMAIN people' : referralTickets'[r] = {}
  BY DEF TicketsInv
<1>3. ASSUME NEW r \in DOMAIN people'
      PROVE  Cardinality(referralTickets'[r]) + Cardinality(people'[r].active) <= MaxActiveReferrals
  <2>1. CASE r \in DOMAIN people
    <3>1. /\ r \in Ids
          /\ IsFiniteSet(referralTickets[r]) /\ Cardinality(referralTickets[r]) \in Nat
          /\ IsFiniteSet(people[r].active) /\ Cardinality(people[r].active) \in Nat
      BY <2>1, TicketsFinite
    <3>2. /\ Cardinality(referralTickets'[r]) <= Cardinality(referralTickets[r])
          /\ Cardinality(referralTickets'[r]) \in Nat
      <4>1. referralTickets'[r] \subseteq referralTickets[r]
        BY <3>1
      <4> QED BY <3>1, <4>1, FS_Subset, FS_CardinalityType
    <3>3. /\ Cardinality(people'[r].active) <= Cardinality(people[r].active)
          /\ Cardinality(people'[r].active) \in Nat
      <4>1. people'[r].active \subseteq people[r].active
        BY <2>1
      <4> QED BY <3>1, <4>1, FS_Subset, FS_CardinalityType
    <3>4. Cardinality(referralTickets[r]) + Cardinality(people[r].active) <= MaxActiveReferrals
      BY <2>1 DEF TicketsInv, TicketsHonoured
    <3>5. MaxActiveReferrals \in Nat
      BY InkAssumption
    <3> QED BY <3>1, <3>2, <3>3, <3>4, <3>5
  <2>2. CASE r \notin DOMAIN people
    <3>1. referralTickets'[r] = {} /\ people'[r].active = {}
      BY <1>1, <2>2 DEF TicketsInv
    <3>2. Cardinality({}) = 0
      BY FS_EmptySet
    <3> QED BY <3>1, <3>2, InkAssumption
  <2> QED BY <2>1, <2>2
<1> QED BY <1>2, <1>3 DEF TicketsInv, TicketsHonoured

\* A ticket is given out only while there is room for its referral.
LEMMA TicketGiven ==
  ASSUME InkTypes, TicketsInv, PeopleStay, NEW r \in DOMAIN people, NEW t \in Tickets,
         RoomForTickets(r), referralTickets' = [referralTickets EXCEPT ![r] = @ \cup {t}]
  PROVE  TicketsInv'
<1>1. /\ DOMAIN people' = DOMAIN people
      /\ \A q \in DOMAIN people : people'[q].active = people[q].active
  BY DEF PeopleStay
<1>2. /\ r \in Ids
      /\ IsFiniteSet(referralTickets[r]) /\ Cardinality(referralTickets[r]) \in Nat
      /\ IsFiniteSet(people[r].active) /\ Cardinality(people[r].active) \in Nat
  BY TicketsFinite
<1>3. \A q \in Ids : referralTickets'[q] = IF q = r THEN referralTickets[r] \cup {t}
                                                   ELSE referralTickets[q]
  BY <1>2 DEF InkTypes
<1>4. Cardinality(referralTickets[r] \cup {t}) <= Cardinality(referralTickets[r]) + 1
  <2>1. Cardinality(referralTickets[r] \cup {t})
          = IF t \in referralTickets[r] THEN Cardinality(referralTickets[r])
                                        ELSE Cardinality(referralTickets[r]) + 1
    <3>1. PICK X : X = referralTickets[r]
      OBVIOUS
    <3>2. IsFiniteSet(X)
      BY <1>2, <3>1
    <3>3. Cardinality(X \cup {t}) = IF t \in X THEN Cardinality(X) ELSE Cardinality(X) + 1
      BY <3>2, FS_AddElement
    <3> QED BY <3>1, <3>3
  <2>2. PICK m \in Nat : m = Cardinality(referralTickets[r])
    BY <1>2
  <2> QED BY <2>1, <2>2
<1>5. Cardinality(referralTickets[r] \cup {t}) \in Nat
  <2>1. IsFiniteSet(referralTickets[r] \cup {t})
    BY <1>2, FS_AddElement
  <2> QED BY <2>1, FS_CardinalityType
<1>6. Cardinality(referralTickets[r]) + Cardinality(people[r].active) + 1 <= MaxActiveReferrals
  BY <1>2, InkAssumption DEF RoomForTickets
<1>7. ASSUME NEW q \in DOMAIN people
      PROVE  Cardinality(referralTickets'[q]) + Cardinality(people'[q].active) <= MaxActiveReferrals
  <2>1. CASE q = r
    <3>1. MaxActiveReferrals \in Nat
      BY InkAssumption
    <3>2. /\ Cardinality(referralTickets'[q]) = Cardinality(referralTickets[r] \cup {t})
          /\ Cardinality(people'[q].active) = Cardinality(people[r].active)
      BY <1>1, <1>2, <1>3, <2>1
    <3> QED BY <1>2, <1>4, <1>5, <1>6, <3>1, <3>2
  <2>2. CASE q # r
    <3>1. referralTickets'[q] = referralTickets[q] /\ people'[q].active = people[q].active
      BY <1>1, <1>3, <2>2, TicketsFinite
    <3> QED BY <3>1 DEF TicketsInv, TicketsHonoured
  <2> QED BY <2>1, <2>2
<1>8. \A q \in Ids \ DOMAIN people' : referralTickets'[q] = {}
  BY <1>1, <1>3 DEF TicketsInv
<1> QED BY <1>1, <1>7, <1>8 DEF TicketsInv, TicketsHonoured

\* A ticket that is used turns into a referral: the sum stays.
LEMMA TicketUsed ==
  ASSUME InkTypes, ActiveExact, TicketsInv, NEW a \in Accounts, NEW r \in DOMAIN people,
         Applying(a, Referred(r))
  PROVE  TicketsInv'
<1>1. /\ a \notin DOMAIN candidates /\ DOMAIN people' = DOMAIN people
      /\ \A q \in DOMAIN people :
           people'[q].active = IF Referred(r) = Referred(q)
                               THEN people[q].active \cup {a} ELSE people[q].active
  BY DEF Applying
<1>2. \A q : Referred(r) = Referred(q) <=> q = r
  BY DEF Referred
<1>3. Referred(r).by = "Referred" /\ Referred(r).who = r
  BY DEF Referred
<1>4. PICK t \in referralTickets[r] :
        referralTickets' = [referralTickets EXCEPT ![r] = @ \ {t}]
  BY <1>3 DEF Applying
<1>5. /\ r \in Ids
      /\ IsFiniteSet(referralTickets[r]) /\ Cardinality(referralTickets[r]) \in Nat
      /\ IsFiniteSet(people[r].active) /\ Cardinality(people[r].active) \in Nat
  BY TicketsFinite
<1>6. \A q \in Ids : referralTickets'[q] = IF q = r THEN referralTickets[r] \ {t}
                                                   ELSE referralTickets[q]
  BY <1>5, <1>4 DEF InkTypes
<1>7. a \notin people[r].active
  BY <1>1 DEF ActiveExact
<1>8. Cardinality(people[r].active \cup {a}) = Cardinality(people[r].active) + 1
  BY <1>5, <1>7, FS_AddElement
<1>9. Cardinality(referralTickets[r] \ {t}) = Cardinality(referralTickets[r]) - 1
  BY <1>5, FS_RemoveElement
<1>10. ASSUME NEW q \in DOMAIN people
       PROVE  Cardinality(referralTickets'[q]) + Cardinality(people'[q].active) <= MaxActiveReferrals
  <2>1. Cardinality(referralTickets[q]) + Cardinality(people[q].active) <= MaxActiveReferrals
    BY DEF TicketsInv, TicketsHonoured
  <2>2. CASE q = r
    <3>1. /\ Cardinality(referralTickets'[q]) = Cardinality(referralTickets[r]) - 1
          /\ Cardinality(people'[q].active) = Cardinality(people[r].active) + 1
      BY <1>1, <1>5, <1>6, <1>8, <1>9, <2>2
    <3>2. MaxActiveReferrals \in Nat
      BY InkAssumption
    <3> QED BY <1>5, <2>1, <2>2, <3>1, <3>2
  <2>3. CASE q # r
    <3>1. referralTickets'[q] = referralTickets[q] /\ people'[q].active = people[q].active
      BY <1>1, <1>2, <1>6, <2>3, TicketsFinite
    <3> QED BY <2>1, <3>1
  <2> QED BY <2>2, <2>3
<1>11. \A q \in Ids \ DOMAIN people' : referralTickets'[q] = {}
  BY <1>1, <1>6 DEF TicketsInv
<1> QED BY <1>1, <1>10, <1>11 DEF TicketsInv, TicketsHonoured

\* Every step keeps every ticket usable.
LEMMA TicketsStep == InkInv /\ TicketsInv /\ [Next]_inkVars => TicketsInv'
<1> SUFFICES ASSUME InkInv, TicketsInv, [Next]_inkVars PROVE TicketsInv'
  OBVIOUS
<1>1. InkTypes /\ ActiveExact /\ IdsInv
  BY DEF InkInv
<1>2. InkTypes' /\ InkEffect
  BY <1>1, EffectStep DEF IdsInv
<1>3. ASSUME UNCHANGED referralTickets, DOMAIN people' = DOMAIN people,
             \A r \in DOMAIN people : people'[r].active \subseteq people[r].active
      PROVE  TicketsInv'
  BY <1>1, <1>2, <1>3, TicketsShrink
<1>4. CASE NothingHappens
  <2>1. PeopleStay
    BY <1>4 DEF NothingHappens
  <2>2. CASE UNCHANGED referralTickets
    BY <1>3, <2>1, <2>2 DEF PeopleStay
  <2>3. ASSUME NEW r \in DOMAIN people, TicketMoves(r)
        PROVE  TicketsInv'
    <3>1. PICK t \in Tickets :
            \/ /\ RoomForTickets(r)
               /\ referralTickets' = [referralTickets EXCEPT ![r] = @ \cup {t}]
            \/ referralTickets' = [referralTickets EXCEPT ![r] = @ \ {t}]
      BY <2>3 DEF TicketMoves
    <3>2. CASE /\ RoomForTickets(r)
               /\ referralTickets' = [referralTickets EXCEPT ![r] = @ \cup {t}]
      BY <1>1, <2>1, <3>2, TicketGiven
    <3>3. CASE referralTickets' = [referralTickets EXCEPT ![r] = @ \ {t}]
      <4>1. \A q \in Ids : referralTickets'[q] \subseteq referralTickets[q]
        BY <1>1, <3>3 DEF InkTypes
      <4> QED BY <1>1, <1>2, <2>1, <4>1, TicketsShrink DEF PeopleStay
    <3> QED BY <3>1, <3>2, <3>3
  <2> QED BY <1>4, <2>2, <2>3 DEF NothingHappens
<1>5. ASSUME NEW a \in Accounts, NEW cred \in Credibilities, Applying(a, cred)
      PROVE  TicketsInv'
  <2>1. CASE cred.by = "Referred"
    <3>1. cred = Referred(cred.who) /\ cred.who \in DOMAIN people
      BY <1>5, <2>1, CredibilityKinds DEF Applying
    <3>2. PICK r \in DOMAIN people : cred = Referred(r)
      BY <3>1
    <3> QED BY <1>1, <1>5, <3>2, TicketUsed
  <2>2. CASE cred.by # "Referred"
    <3>1. \A r : cred # Referred(r)
      BY <2>2, CredibilityKinds
    <3> QED BY <1>3, <1>5, <2>2, <3>1 DEF Applying
  <2> QED BY <2>1, <2>2
<1>6. ASSUME NEW a \in Accounts, NEW id, NEW d, Committing(a, id, d)
      PROVE  TicketsInv'
  BY <1>3, <1>6 DEF Committing, PeopleStay
<1>7. ASSUME NEW a \in Accounts, Proving(a) \/ Flaking(a) \/ Dropping(a)
      PROVE  TicketsInv'
  BY <1>3, <1>7 DEF Proving, Flaking, Dropping, Ending, ReferralEnds
<1>8. ASSUME NEW a \in Accounts, Registering(a)
      PROVE  TicketsInv'
  <2> DEFINE q == candidates[a].reserved
  <2>1. /\ q \in reservedIds /\ UNCHANGED referralTickets
        /\ people' = Insert(people, q, NewPerson(candidates[a].design))
    BY <1>8 DEF Registering
  <2>2. q \notin DOMAIN people
    BY <1>1, <2>1 DEF IdsInv
  <2>3. DOMAIN people' = DOMAIN people \cup {q}
        /\ (\A r \in DOMAIN people : people'[r] = people[r])
        /\ people'[q].active = {}
    BY <2>1, <2>2 DEF Insert, NewPerson
  <2> HIDE DEF q
  <2> QED BY <1>1, <1>2, <2>1, <2>3, TicketsShrink
<1> QED BY <1>2, <1>4, <1>5, <1>6, <1>7, <1>8 DEF InkEffect

\* "This should not happen because the limit of unique tickets a referrer can
\* give away is equal to the limit of active referrals": every ticket in
\* circulation finds room among its referrer's active referrals.
THEOREM TicketsHonouredCorrect == Spec => []TicketsHonoured
<1>1. Init => TicketsInv
  <2> SUFFICES ASSUME Init PROVE TicketsInv
    OBVIOUS
  <2>1. DOMAIN people = {} /\ referralTickets = [i \in Ids |-> {}]
    BY DEF Init
  <2> QED BY <2>1 DEF TicketsInv, TicketsHonoured
<1>2. TicketsInv => TicketsHonoured
  BY DEF TicketsInv
<1> QED BY <1>1, <1>2, InkInit, InkStep, TicketsStep, PTL DEF Spec

-----------------------------------------------------------------------------
(* The evidence behind a proven candidate.                                 *)

\* The statement a selected candidate waits for was submitted after it
\* committed to its design, and as strictly as its allocation asks for.
EvidenceInv ==
  \A a \in Accounts : IsSelected(a) =>
    /\ candidates[a].since_ticket <= nextTicket
    /\ \A t \in candidates[a].judging \cap DOMAIN statements :
         statements[t].who = a =>
           /\ statements[t].strict <=> candidates[a].allocation # "Initial"
           /\ t >= candidates[a].since_ticket

\* What becomes of candidate a in a step that neither submits its evidence nor
\* proves it: what it waits for is the same, or nothing.
Follows(a) ==
  /\ IsProven(a)' => IsProven(a)
  /\ IsSelected(a)' =>
       \/ /\ candidates'[a].judging = {}
          /\ candidates'[a].since_ticket <= nextTicket
       \/ /\ IsSelected(a)
          /\ candidates'[a].since_ticket = candidates[a].since_ticket
          /\ candidates'[a].judging = candidates[a].judging
          /\ candidates'[a].allocation = "Initial"
               <=> candidates[a].allocation = "Initial"

\* Statements are only ever forgotten in such a step.
StatementsFollow ==
  /\ nextTicket' = nextTicket
  /\ \A t \in DOMAIN statements' : t \in DOMAIN statements
                                   /\ statements'[t] = statements[t]

\* A candidate that is left alone.
LEMMA FollowsAlone ==
  ASSUME NEW a, a \in DOMAIN candidates' => a \in DOMAIN candidates
                                            /\ candidates'[a] = candidates[a]
  PROVE  Follows(a)
BY DEF Follows, IsProven, IsSelected

\* A candidate that has only applied.
LEMMA FollowsApplied ==
  ASSUME NEW a, a \in DOMAIN candidates' => candidates'[a].status = "Applied"
  PROVE  Follows(a)
BY DEF Follows, IsProven, IsSelected

\* A candidate that leaves.
LEMMA FollowsWithout ==
  ASSUME NEW a, candidates' = Without(candidates, a), NEW b
  PROVE  Follows(b)
<1>1. b \in DOMAIN candidates' => b \in DOMAIN candidates /\ candidates'[b] = candidates[b]
  BY DEF Without
<1> QED BY <1>1, FollowsAlone

\* The invariant survives a step in which all candidates follow.
LEMMA EvidenceFollows ==
  ASSUME InkTypes, EvidenceInv, StatementsFollow, \A a \in Accounts : Follows(a)
  PROVE  EvidenceInv'
<1> SUFFICES ASSUME NEW a \in Accounts, IsSelected(a)'
             PROVE  /\ candidates'[a].since_ticket <= nextTicket'
                    /\ \A t \in candidates'[a].judging \cap DOMAIN statements' :
                         statements'[t].who = a =>
                           /\ statements'[t].strict <=> candidates'[a].allocation # "Initial"
                           /\ t >= candidates'[a].since_ticket
  BY DEF EvidenceInv
<1>1. CASE /\ candidates'[a].judging = {}
           /\ candidates'[a].since_ticket <= nextTicket
  BY <1>1 DEF StatementsFollow
<1>2. CASE /\ IsSelected(a)
           /\ candidates'[a].since_ticket = candidates[a].since_ticket
           /\ candidates'[a].judging = candidates[a].judging
           /\ candidates'[a].allocation = "Initial"
                <=> candidates[a].allocation = "Initial"
  BY <1>2 DEF EvidenceInv, StatementsFollow
<1> QED BY <1>1, <1>2 DEF Follows

\* The candidate that submits evidence waits for it.
LEMMA EvidenceSubmitted ==
  ASSUME InkTypes, EvidenceInv, NEW a \in Accounts, submit_evidence(a)
  PROVE  /\ EvidenceInv'
         /\ \A b \in Accounts : IsProven(b)' => IsProven(b)
<1>1. /\ candidates \in [DOMAIN candidates -> CandidateType] /\ nextTicket \in Nat
      /\ IsSelected(a) /\ a \in DOMAIN candidates /\ candidates[a] \in SelectedType
  <2>1. IsSelected(a) /\ a \in DOMAIN candidates
    BY DEF submit_evidence, IsSelected
  <2> QED BY <2>1, CandidateCases DEF InkTypes, IsPartialFunction
<1>2. PICK s : s = [who |-> a, strict |-> ~ProbableAcceptable(a)]
  OBVIOUS
<1>3. /\ nextTicket' = nextTicket + 1
      /\ statements' = Insert(statements, nextTicket, s)
      /\ candidates' = [candidates EXCEPT ![a].judging = {nextTicket}]
  BY <1>2 DEF submit_evidence, judge_statement
<1>4. /\ DOMAIN candidates' = DOMAIN candidates
      /\ candidates'[a] = [candidates[a] EXCEPT !.judging = {nextTicket}]
      /\ \A b \in DOMAIN candidates : b # a => candidates'[b] = candidates[b]
  BY <1>1, <1>3
<1>5. /\ candidates'[a].judging = {nextTicket}
      /\ candidates'[a].allocation = candidates[a].allocation
      /\ candidates'[a].since_ticket = candidates[a].since_ticket
      /\ candidates'[a].status = candidates[a].status
  BY <1>1, <1>4 DEF SelectedType
<1>6. \A t \in DOMAIN statements' : statements'[t] = IF t = nextTicket THEN s
                                                                     ELSE statements[t]
  BY <1>3 DEF Insert
<1>7. \A t \in DOMAIN statements' : t # nextTicket => t \in DOMAIN statements
  BY <1>3 DEF Insert
<1>8. ASSUME NEW b \in Accounts, IsSelected(b)'
      PROVE  /\ candidates'[b].since_ticket <= nextTicket'
             /\ \A t \in candidates'[b].judging \cap DOMAIN statements' :
                  statements'[t].who = b =>
                    /\ statements'[t].strict <=> candidates'[b].allocation # "Initial"
                    /\ t >= candidates'[b].since_ticket
  <2>1. CASE b = a
    <3>1. /\ candidates[a].since_ticket <= nextTicket
          /\ candidates[a].since_ticket \in Nat
      BY <1>1 DEF EvidenceInv, SelectedType
    <3>2. candidates'[b].since_ticket <= nextTicket'
      BY <1>1, <1>3, <1>5, <2>1, <3>1
    <3>3. s.strict <=> candidates[a].allocation # "Initial"
      BY <1>2 DEF ProbableAcceptable
    <3>4. \A t \in candidates'[b].judging : t = nextTicket
      BY <1>5, <2>1
    <3>5. nextTicket >= candidates'[b].since_ticket
      BY <1>1, <1>5, <2>1, <3>1
    <3> QED BY <1>5, <1>6, <2>1, <3>2, <3>3, <3>4, <3>5
  <2>2. CASE b # a
    <3>1. IsSelected(b) /\ candidates'[b] = candidates[b]
      BY <1>4, <1>8, <2>2 DEF IsSelected
    <3>2. /\ candidates[b].since_ticket <= nextTicket
          /\ candidates[b].since_ticket \in Nat
      <4>1. candidates[b] \in SelectedType
        BY <3>1, CandidateCases DEF IsSelected
      <4> QED BY <3>1, <4>1 DEF EvidenceInv, SelectedType
    <3>3. candidates'[b].since_ticket <= nextTicket'
      BY <1>1, <1>3, <3>1, <3>2
    <3>4. ASSUME NEW t \in candidates'[b].judging \cap DOMAIN statements',
                 statements'[t].who = b
          PROVE  /\ statements'[t].strict <=> candidates'[b].allocation # "Initial"
                 /\ t >= candidates'[b].since_ticket
      <4>1. s.who = a
        BY <1>2
      <4>2. t \in DOMAIN statements /\ statements'[t] = statements[t]
        BY <1>6, <1>7, <2>2, <3>4, <4>1
      <4> QED BY <3>1, <3>4, <4>2 DEF EvidenceInv
    <3> QED BY <3>3, <3>4
  <2> QED BY <2>1, <2>2
<1>9. EvidenceInv'
  BY <1>8 DEF EvidenceInv
<1>10. \A b \in Accounts : IsProven(b)' => IsProven(b)
  BY <1>1, <1>4, <1>5 DEF IsProven
<1> QED BY <1>9, <1>10

\* The other calls of candidates.
LEMMA CandidateFollows ==
  ASSUME InkTypes, EvidenceInv, CandidateNext, ~\E a \in Accounts : submit_evidence(a)
  PROVE  StatementsFollow /\ \A b \in Accounts : Follows(b)
<1> USE DEF oracleState, oracleVars
<1>1. PICK a \in Accounts :
        \/ apply(a)
        \/ \E r \in Ids, t \in Tickets : apply_with_signature(a, r, t)
        \/ \E i \in Inviters, t \in InviteTickets : apply_with_invitation(a, i, t)
        \/ reroll(a)
        \/ flakeout(a)
        \/ timeout(a)
        \/ \E id \in Ids, d \in ElectiveDesigns \cup {"procedural"} : commit(a, id, d)
        \/ allocate_full(a)
        \/ register_referred(a)
        \/ register_non_referred(a)
  BY DEF CandidateNext
<1>2. UNCHANGED oracleState
  BY <1>1 DEF apply, apply_with_signature, apply_with_invitation, reroll, flakeout,
     timeout, commit, allocate_full, register_referred, register_non_referred
<1>3. StatementsFollow
  BY <1>2 DEF StatementsFollow
<1>4. candidates \in [DOMAIN candidates -> CandidateType]
  BY DEF InkTypes, IsPartialFunction
<1>5. ASSUME NEW b \in Accounts PROVE Follows(b)
  <2>1. ASSUME NEW cred, NewCandidate(a, cred) PROVE Follows(b)
    <3>1. CASE b = a
      <4>1. candidates'[b].status = "Applied"
        BY <2>1, <3>1 DEF NewCandidate, Insert, Applied
      <4> QED BY <4>1, FollowsApplied
    <3>2. CASE b # a
      <4>1. b \in DOMAIN candidates' => b \in DOMAIN candidates
                                        /\ candidates'[b] = candidates[b]
        BY <2>1, <3>2 DEF NewCandidate, Insert
      <4> QED BY <4>1, FollowsAlone
    <3> QED BY <3>1, <3>2
  <2>2. CASE \/ apply(a)
             \/ \E r \in Ids, t \in Tickets : apply_with_signature(a, r, t)
             \/ \E i \in Inviters, t \in InviteTickets : apply_with_invitation(a, i, t)
    BY <2>1, <2>2 DEF apply, apply_with_signature, apply_with_invitation
  <2>3. CASE reroll(a)
    <3>1. a \in DOMAIN candidates /\ candidates[a] \in AppliedType
      BY <2>3, CandidateCases DEF reroll, IsApplied
    <3>2. CASE b = a
      <4>1. candidates'[b] = [candidates[a] EXCEPT !.age = @ - config.reroll_timeout]
        BY <1>4, <2>3, <3>1, <3>2 DEF reroll
      <4>2. candidates'[b].status = "Applied"
        BY <3>1, <4>1 DEF AppliedType
      <4> QED BY <4>2, FollowsApplied
    <3>3. CASE b # a
      <4>1. b \in DOMAIN candidates' => b \in DOMAIN candidates
                                        /\ candidates'[b] = candidates[b]
        BY <1>4, <2>3, <3>3 DEF reroll
      <4> QED BY <4>1, FollowsAlone
    <3> QED BY <3>2, <3>3
  <2>4. CASE flakeout(a) \/ timeout(a) \/ register_referred(a) \/ register_non_referred(a)
    <3>1. candidates' = Without(candidates, a)
      BY <2>4 DEF flakeout, timeout, Dropped, register_referred, register_non_referred,
         register_proven_candidate
    <3> QED BY <3>1, FollowsWithout
  <2>5. ASSUME NEW id \in Ids, NEW d, commit(a, id, d) PROVE Follows(b)
    <3>1. PICK alloc : candidates' = [candidates EXCEPT ![a] =
                                        Selected(candidates[a].cred, id, d, alloc)]
      BY <1>4, <2>5 DEF commit, IsApplied
    <3>2. a \in DOMAIN candidates
      BY <2>5 DEF commit, IsApplied
    <3>3. CASE b = a
      <4>1. candidates'[b] = Selected(candidates[a].cred, id, d, alloc)
        BY <1>4, <3>1, <3>2, <3>3
      <4>2. /\ candidates'[b].status = "Selected" /\ candidates'[b].judging = {}
            /\ candidates'[b].since_ticket = nextTicket
        BY <4>1 DEF Selected
      <4>3. nextTicket <= nextTicket
        BY DEF InkTypes
      <4> QED BY <4>2, <4>3 DEF Follows, IsProven
    <3>4. CASE b # a
      <4>1. b \in DOMAIN candidates' => b \in DOMAIN candidates
                                        /\ candidates'[b] = candidates[b]
        BY <1>4, <3>1, <3>4
      <4> QED BY <4>1, FollowsAlone
    <3> QED BY <3>3, <3>4
  <2>6. CASE allocate_full(a)
    <3>1. a \in DOMAIN candidates /\ candidates[a] \in SelectedType /\ IsSelected(a)
      BY <2>6, CandidateCases DEF allocate_full, IsSelected
    <3>2. CASE b = a
      <4>1. candidates'[b] = [candidates[a] EXCEPT !.allocation = "Full"]
        BY <1>4, <2>6, <3>1, <3>2 DEF allocate_full
      <4>2. /\ candidates'[b].allocation = "Full"
            /\ candidates'[b].judging = candidates[b].judging
            /\ candidates'[b].since_ticket = candidates[b].since_ticket
            /\ candidates'[b].status = "Selected"
        BY <3>1, <3>2, <4>1 DEF SelectedType
      <4>3. candidates[b].allocation = "InitDone"
        BY <2>6, <3>2 DEF allocate_full
      <4> QED BY <3>1, <3>2, <4>2, <4>3 DEF Follows, IsProven
    <3>3. CASE b # a
      <4>1. b \in DOMAIN candidates' => b \in DOMAIN candidates
                                        /\ candidates'[b] = candidates[b]
        BY <1>4, <2>6, <3>3 DEF allocate_full
      <4> QED BY <4>1, FollowsAlone
    <3> QED BY <3>2, <3>3
  <2> QED BY <1>1, <2>2, <2>3, <2>4, <2>5, <2>6
<1> QED BY <1>3, <1>5

\* Time passes.
LEMMA TickFollows ==
  ASSUME InkTypes, tick
  PROVE  StatementsFollow /\ \A b \in Accounts : Follows(b)
<1>1. StatementsFollow
  BY DEF tick, oracleState, oracleVars, StatementsFollow
<1>2. DOMAIN candidates' = DOMAIN candidates
  BY DEF tick
<1>3. ASSUME NEW b \in Accounts PROVE Follows(b)
  <2>1. CASE b \notin DOMAIN candidates
    BY <1>2, <2>1, FollowsAlone
  <2>2. CASE IsProven(b)
    <3>1. candidates'[b] = candidates[b]
      BY <2>2 DEF tick, IsProven
    <3> QED BY <1>2, <3>1, FollowsAlone
  <2>3. CASE IsApplied(b) \/ IsSelected(b)
    <3>1. PICK n : candidates'[b] = [candidates[b] EXCEPT !.age = n]
      BY <2>3 DEF tick, IsApplied, IsSelected
    <3>2. CASE IsApplied(b)
      <4>1. candidates[b] \in AppliedType
        BY <3>2, CandidateCases DEF IsApplied
      <4>2. candidates'[b].status = "Applied"
        BY <3>1, <4>1 DEF AppliedType
      <4> QED BY <4>2, FollowsApplied
    <3>3. CASE IsSelected(b)
      <4>1. candidates[b] \in SelectedType
        BY <3>3, CandidateCases DEF IsSelected
      <4>2. /\ candidates'[b].allocation = candidates[b].allocation
            /\ candidates'[b].judging = candidates[b].judging
            /\ candidates'[b].since_ticket = candidates[b].since_ticket
            /\ candidates'[b].status = "Selected"
        BY <3>1, <4>1 DEF SelectedType
      <4> QED BY <3>3, <4>2 DEF Follows, IsProven
    <3> QED BY <2>3, <3>2, <3>3
  <2> QED BY <2>1, <2>2, <2>3, CandidateCases
<1> QED BY <1>1, <1>3

\* A callback forgets its statement, and whoever it fails, drops or lets do the
\* rest of the evidence waits for nothing.
LEMMA JudgedFollows ==
  ASSUME InkTypes, EvidenceInv, NEW t \in pending, NEW j \in Judgements,
         NEW ok \in BOOLEAN, judged(t, j, ok)
  PROVE  /\ StatementsFollow
         /\ LET a == statements[t].who
            IN \/ \A b \in Accounts : Follows(b)
               \/ /\ Awaits(a, t) /\ ~Drops(a, j) /\ ~Fails(a, j)
                  /\ candidates[a].allocation # "Initial"
                  /\ JudgedTrue(a)
<1> DEFINE a == statements[t].who
<1>1. StatementsFollow
  <2>1. nextTicket' = nextTicket /\ statements' = Without(statements, t)
    BY DEF judged, callback
  <2> QED BY <2>1 DEF StatementsFollow, Without
<1>2. candidates \in [DOMAIN candidates -> CandidateType]
  BY DEF InkTypes, IsPartialFunction
<1>3. \/ CallbackFails
      \/ Dropped(a, j = "Contempt")
      \/ Awaits(a, t) /\ RetryGranted(a)
      \/ Awaits(a, t) /\ JudgedInitial(a)
      \/ /\ Awaits(a, t) /\ ~Drops(a, j) /\ ~Fails(a, j)
         /\ candidates[a].allocation # "Initial" /\ JudgedTrue(a)
  BY DEF judged
<1> HIDE DEF a
<1>4. ASSUME CallbackFails
      PROVE  \A b \in Accounts : Follows(b)
  BY <1>4, FollowsAlone DEF CallbackFails
<1>5. ASSUME Dropped(a, j = "Contempt")
      PROVE  \A b \in Accounts : Follows(b)
  <2>1. candidates' = Without(candidates, a)
    BY <1>5 DEF Dropped
  <2> QED BY <2>1, FollowsWithout
<1>6. ASSUME Awaits(a, t) /\ (RetryGranted(a) \/ JudgedInitial(a))
      PROVE  \A b \in Accounts : Follows(b)
  <2>1. a \in DOMAIN candidates /\ candidates[a] \in SelectedType /\ IsSelected(a)
    BY <1>6, CandidateCases DEF Awaits, IsSelected
  <2>2. PICK n, x : candidates' = [candidates EXCEPT ![a] =
                      [candidates[a] EXCEPT !.allocation = x, !.failed = n, !.judging = {}]]
    <3>1. CASE RetryGranted(a)
      <4>1. candidates' = [candidates EXCEPT ![a] =
                      [candidates[a] EXCEPT !.failed = candidates[a].failed + 1, !.judging = {}]]
        BY <1>2, <2>1, <3>1 DEF RetryGranted
      <4>2. [candidates[a] EXCEPT !.allocation = candidates[a].allocation,
                                  !.failed = candidates[a].failed + 1, !.judging = {}]
              = [candidates[a] EXCEPT !.failed = candidates[a].failed + 1, !.judging = {}]
        BY <2>1 DEF SelectedType
      <4> QED BY <4>1, <4>2
    <3>2. CASE JudgedInitial(a)
      <4>1. candidates' = [candidates EXCEPT ![a] =
                      [candidates[a] EXCEPT !.allocation = "InitDone", !.judging = {}]]
        BY <1>2, <2>1, <3>2 DEF JudgedInitial
      <4>2. [candidates[a] EXCEPT !.allocation = "InitDone",
                                  !.failed = candidates[a].failed, !.judging = {}]
              = [candidates[a] EXCEPT !.allocation = "InitDone", !.judging = {}]
        BY <2>1 DEF SelectedType
      <4> QED BY <4>1, <4>2
    <3> QED BY <1>6, <3>1, <3>2
  <2>3. ASSUME NEW b \in Accounts PROVE Follows(b)
    <3>1. CASE b = a
      <4>1. candidates'[b] = [candidates[a] EXCEPT !.allocation = x, !.failed = n,
                                                   !.judging = {}]
        BY <1>2, <2>1, <2>2, <3>1
      <4>2. /\ candidates'[b].judging = {} /\ candidates'[b].status = "Selected"
            /\ candidates'[b].since_ticket = candidates[b].since_ticket
        BY <2>1, <3>1, <4>1 DEF SelectedType
      <4> QED BY <2>1, <3>1, <4>2 DEF Follows, IsProven, EvidenceInv
    <3>2. CASE b # a
      <4>1. b \in DOMAIN candidates' => b \in DOMAIN candidates
                                        /\ candidates'[b] = candidates[b]
        BY <1>2, <2>2, <3>2
      <4> QED BY <4>1, FollowsAlone
    <3> QED BY <3>1, <3>2
  <2> QED BY <2>3
<1>7. \/ \A b \in Accounts : Follows(b)
      \/ /\ Awaits(a, t) /\ ~Drops(a, j) /\ ~Fails(a, j)
         /\ candidates[a].allocation # "Initial" /\ JudgedTrue(a)
  BY <1>3, <1>4, <1>5, <1>6
<1> QED BY <1>1, <1>7 DEF a

\* The candidate that is proven: its own statement, found true.
LEMMA JudgedTrueProves ==
  ASSUME InkTypes, EvidenceInv, NEW t \in pending, NEW j \in Judgements,
         NEW ok \in BOOLEAN, judged(t, j, ok), NEW a, a = statements[t].who,
         Awaits(a, t), ~Drops(a, j), ~Fails(a, j),
         candidates[a].allocation # "Initial", JudgedTrue(a)
  PROVE  /\ \A b \in Accounts : b # a => Follows(b)
         /\ EvidenceInv'
         /\ judged(t, "True", TRUE)
         /\ statements[t] = [who |-> a, strict |-> TRUE]
         /\ t >= candidates[a].since_ticket
<1>1. /\ a \in Accounts /\ t \in DOMAIN statements /\ statements[t] \in StatementType
      /\ a \in DOMAIN candidates /\ IsSelected(a)
  BY DEF InkTypes, IsPartialFunction, StatementType, Awaits, IsSelected
<1>2. candidates \in [DOMAIN candidates -> CandidateType]
  BY DEF InkTypes, IsPartialFunction
<1>3. PICK c : /\ c.status = "Proven"
               /\ candidates' = [candidates EXCEPT ![a] = c]
  BY DEF JudgedTrue, Proven
<1>4. /\ candidates'[a].status = "Proven"
      /\ \A b : b # a /\ b \in DOMAIN candidates' => b \in DOMAIN candidates
                                                      /\ candidates'[b] = candidates[b]
  BY <1>1, <1>2, <1>3
<1>5. \A b \in Accounts : b # a => Follows(b)
  BY <1>4, FollowsAlone
<1>6. StatementsFollow
  BY JudgedFollows
<1>7. EvidenceInv'
  <2> SUFFICES ASSUME NEW b \in Accounts, IsSelected(b)'
               PROVE  /\ candidates'[b].since_ticket <= nextTicket'
                      /\ \A s \in candidates'[b].judging \cap DOMAIN statements' :
                           statements'[s].who = b =>
                             /\ statements'[s].strict <=> candidates'[b].allocation # "Initial"
                             /\ s >= candidates'[b].since_ticket
    BY DEF EvidenceInv
  <2>1. b # a
    BY <1>4 DEF IsSelected
  <2>2. IsSelected(b) /\ candidates'[b] = candidates[b]
    BY <1>4, <2>1 DEF IsSelected
  <2> QED BY <1>6, <2>2 DEF EvidenceInv, StatementsFollow
<1>8. j = "True"
  BY DEF Judgements, Drops, Fails
<1>9. /\ ~Drops(a, "True") /\ ~Fails(a, "True") /\ j = "True"
  BY <1>8
<1>10. judged(t, "True", TRUE)
  BY <1>9 DEF judged
<1>11. statements[t].strict <=> candidates[a].allocation # "Initial"
  BY <1>1 DEF EvidenceInv, Awaits
<1>12. statements[t] = [who |-> a, strict |-> TRUE]
  BY <1>1, <1>11 DEF StatementType
<1>13. t >= candidates[a].since_ticket
  BY <1>1 DEF EvidenceInv, Awaits
<1> QED BY <1>5, <1>7, <1>10, <1>12, <1>13

\* One step: the invariant survives, and whoever it proves is proven so.
LEMMA EvidenceStep ==
  ASSUME InkTypes, EvidenceInv, [Next]_inkVars
  PROVE  /\ EvidenceInv'
         /\ \A a \in Accounts : IsProven(a)' /\ ~IsProven(a) =>
              \E t \in pending :
                /\ judged(t, "True", TRUE)
                /\ statements[t] = [who |-> a, strict |-> TRUE]
                /\ t >= candidates[a].since_ticket
<1> USE DEF oracleState, oracleVars
<1> DEFINE Proves(a) == \E t \in pending :
                          /\ judged(t, "True", TRUE)
                          /\ statements[t] = [who |-> a, strict |-> TRUE]
                          /\ t >= candidates[a].since_ticket
<1>1. ASSUME StatementsFollow, \A a \in Accounts : Follows(a)
      PROVE  EvidenceInv' /\ \A a \in Accounts : IsProven(a)' /\ ~IsProven(a) => Proves(a)
  <2>1. EvidenceInv'
    BY <1>1, EvidenceFollows
  <2>2. \A a \in Accounts : IsProven(a)' => IsProven(a)
    BY <1>1 DEF Follows
  <2> QED BY <2>1, <2>2
<1>2. ASSUME UNCHANGED <<candidates, oracleState>>
      PROVE  EvidenceInv' /\ \A a \in Accounts : IsProven(a)' /\ ~IsProven(a) => Proves(a)
  <2>1. StatementsFollow
    BY <1>2 DEF StatementsFollow
  <2>2. \A a \in Accounts : Follows(a)
    BY <1>2, FollowsAlone
  <2> QED BY <1>1, <2>1, <2>2
<1>3. CASE CandidateNext
  <2>1. CASE \E a \in Accounts : submit_evidence(a)
    BY <2>1, EvidenceSubmitted
  <2>2. CASE ~\E a \in Accounts : submit_evidence(a)
    BY <1>1, <1>3, <2>2, CandidateFollows
  <2> QED BY <2>1, <2>2
<1>4. CASE PersonNext
  BY <1>2, <1>4 DEF PersonNext, register_successful_referral_reward,
     set_referral_ticket, cancel_referral_ticket
<1>5. CASE InviteNext
  BY <1>2, <1>5 DEF InviteNext, grant_invites, remove_available_and_pending_invites,
     set_invite_ticket, cancel_invite_ticket, notInvites
<1>6. CASE ManagerNext
  BY <1>2, <1>6 DEF ManagerNext, add_design_family, set_configuration,
     set_reimbursement_values, notSettings
<1>7. CASE \E t \in pending, j \in Judgements, ok \in BOOLEAN : judged(t, j, ok)
  <2>1. PICK t \in pending, j \in Judgements, ok \in BOOLEAN : judged(t, j, ok)
    BY <1>7
  <2>2. PICK a : a = statements[t].who
    OBVIOUS
  <2>3. StatementsFollow
    BY <2>1, JudgedFollows
  <2>4. CASE \A b \in Accounts : Follows(b)
    BY <1>1, <2>3, <2>4
  <2>5. CASE /\ Awaits(a, t) /\ ~Drops(a, j) /\ ~Fails(a, j)
             /\ candidates[a].allocation # "Initial"
             /\ JudgedTrue(a)
    <3>1. /\ \A b \in Accounts : b # a => Follows(b)
          /\ EvidenceInv'
          /\ judged(t, "True", TRUE)
          /\ statements[t] = [who |-> a, strict |-> TRUE]
          /\ t >= candidates[a].since_ticket
      BY <2>1, <2>2, <2>5, JudgedTrueProves
    <3>2. Proves(a)
      BY <3>1
    <3>3. \A b \in Accounts : b # a => (IsProven(b)' => IsProven(b))
      BY <3>1 DEF Follows
    <3> HIDE DEF Proves
    <3> QED BY <3>1, <3>2, <3>3
  <2> QED BY <2>1, <2>2, <2>4, <2>5, JudgedFollows
<1>8. CASE tick
  BY <1>1, <1>8, TickFollows
<1>9. CASE UNCHANGED inkVars
  BY <1>2, <1>9 DEF inkVars
<1>10. EvidenceInv' /\ \A a \in Accounts : IsProven(a)' /\ ~IsProven(a) => Proves(a)
  BY <1>3, <1>4, <1>5, <1>6, <1>7, <1>8, <1>9 DEF Next
<1> QED BY <1>10 DEF Proves

\* A candidate becomes Proven only when the oracle finds true, with no benefit
\* of the doubt, evidence that this very candidate submitted after it committed
\* to its present design: an answer that outlives a timeout proves nobody.
THEOREM ProvenByOwnEvidenceCorrect == Spec => ProvenByOwnEvidence
<1>1. Init => EvidenceInv
  BY DEF Init, EvidenceInv, IsSelected
<1>2. InkInv /\ EvidenceInv /\ [Next]_inkVars => EvidenceInv'
  BY EvidenceStep DEF InkInv
<1>3. InkInv /\ EvidenceInv /\ [Next]_inkVars =>
        [\A a \in Accounts :
           IsProven(a)' /\ ~IsProven(a) =>
             \E t \in pending :
               /\ judged(t, "True", TRUE)
               /\ statements[t] = [who |-> a, strict |-> TRUE]
               /\ t >= candidates[a].since_ticket]_inkVars
  BY EvidenceStep DEF InkInv
<1> QED BY <1>1, <1>2, <1>3, InkInit, InkStep, PTL DEF Spec, ProvenByOwnEvidence
==============================================================================
