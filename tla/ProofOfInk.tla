----------------------------- MODULE ProofOfInk ------------------------------
(***************************************************************************)
(* pallets/proof-of-ink: a candidate applies (with a deposit, a referral   *)
(* or an invite), commits to a design, has evidence judged by an oracle it *)
(* only knows as StatementOracle, and registers as a person.  Composed     *)
(* with the reservations of personal ids in pallets/people-multi and with  *)
(* the transaction extension that admits referred and invited candidates.  *)
(*                                                                         *)
(* Times are ages, counted up to a bound.  Designs other than elective ones *)
(* are one value, since any number of candidates may have them.  The       *)
(* counters of a person that no call reads, entropy, storage sizes and the *)
(* membership key, which is taken to be fresh, are left out.  A call that  *)
(* fails has no effect, except that a failing callback uses up its ticket. *)
(*                                                                         *)
(* A definition whose name starts with Bug_ is a deliberate mistake in the *)
(* definition after it; no specification uses one.                         *)
(***************************************************************************)
EXTENDS StatementOracle

CONSTANTS
  Accounts, Inviters,
  Tickets, InviteTickets,
  ElectiveDesigns,
  MaxActiveReferrals, MaxRetryAttempts,
  Configs,              \* the configurations the manager may set
  Offers,               \* the sets of elective designs the families may hold
  ReimbursementLists,   \* the reimbursement values the manager may set
  InviteCounts,         \* how many invites are granted at once
  PotFunds,
  MaxAge,               \* bound: ages of selected candidates
  MaxEntropyAge,        \* bound: ages of the entropy of candidates
  MaxIds,               \* bound: personal ids ever reserved
  MaxInvites            \* bound: invites an account may have available

ConfigType == [reroll_timeout : Nat, fasttrack_count : Nat, maximum : Nat,
               timeout : Nat]
ListType == Seq([value : Nat \ {0}, count : Nat \ {0}])

ASSUME InkAssumption ==
  /\ IsFiniteSet(Accounts) /\ IsFiniteSet(Tickets) /\ IsFiniteSet(Inviters)
  /\ "procedural" \notin ElectiveDesigns
  /\ MaxActiveReferrals \in Nat \ {0} /\ MaxRetryAttempts \in Nat
  /\ Configs \subseteq ConfigType
  /\ \A c \in Configs : c.timeout < MaxAge
  /\ Offers \subseteq SUBSET ElectiveDesigns
  /\ ReimbursementLists \subseteq ListType \X ListType
  /\ PotFunds \in Nat /\ MaxAge \in Nat /\ MaxEntropyAge \in Nat
  /\ MaxIds \in Nat /\ MaxInvites \in Nat
  /\ InviteCounts \subseteq Nat

Ids == 0..(MaxIds - 1)

VARIABLES
  candidates,           \* `Candidates`
  people,               \* `People`: id -> [design, active, allowed, pending, banned]
  referralTickets,      \* `ReferralTickets`: id -> tickets; none: the empty set
  committedDesigns,     \* `CommittedDesigns`
  offered,              \* the elective designs of `DesignFamilies`
  allocationCount,      \* `AllocationCount`
  config,               \* `Configuration`
  availableInvites,     \* `AvailableInvites`
  pendingInvites,       \* `PendingInvites`
  referredValues, referrerValues,  \* `Referred-`, `ReferrerReimbursementValues`
  nextId, reservedIds,  \* `NextPersonalId`, `ReservedPersonalId` of people-multi
  persons,              \* ids in `People` of people-multi
  statements,           \* what the oracle judges: ticket -> [who, strict]
  deposits,             \* accounts with a deposit held
  sufficients,          \* the sufficient references this pallet holds
  pot                   \* balance of the pot account

referralVars == <<people, referralTickets>>
settingVars == <<offered, config>>
inviteVars == <<availableInvites, pendingInvites>>
rewardVars == <<referredValues, referrerValues, pot>>
idVars == <<nextId, reservedIds, persons>>
oracleState == <<oracleVars, statements>>
inkVars == <<candidates, referralVars, committedDesigns, settingVars,
             allocationCount, inviteVars, rewardVars, idVars, oracleState,
             deposits, sufficients>>

\* Credibility.
ByDeposit == [by |-> "Deposit", who |-> 0]
Referred(id) == [by |-> "Referred", who |-> id]
Invited == [by |-> "Invited", who |-> 0]

\* Candidate.
Applied(cred, age) == [status |-> "Applied", cred |-> cred, age |-> age]
\* `since_ticket` is history: the oracle's next ticket at the commitment.
Selected(cred, id, design, allocation) ==
  [status |-> "Selected", cred |-> cred, age |-> 0, reserved |-> id,
   design |-> design, allocation |-> allocation, judging |-> {}, failed |-> 0,
   since_ticket |-> nextTicket]
Proven(cred, id, design) ==
  [status |-> "Proven", cred |-> cred, reserved |-> id, design |-> design]

IsSelected(a) == a \in DOMAIN candidates /\ candidates[a].status = "Selected"
IsApplied(a) == a \in DOMAIN candidates /\ candidates[a].status = "Applied"
IsProven(a) == a \in DOMAIN candidates /\ candidates[a].status = "Proven"

NewPerson(design) ==
  [design |-> design, active |-> {}, allowed |-> 1, pending |-> 0,
   banned |-> FALSE]

Init ==
  /\ OracleInit /\ statements = <<>>
  /\ candidates = <<>> /\ people = <<>> /\ referralTickets = [i \in Ids |-> {}]
  /\ committedDesigns = <<>> /\ offered \in Offers
  /\ allocationCount = 0 /\ config \in Configs
  /\ availableInvites = [i \in Inviters |-> 0] /\ pendingInvites = {}
  /\ referredValues = <<>> /\ referrerValues = <<>>
  /\ nextId = 0 /\ reservedIds = {} /\ persons = {}
  /\ deposits = {} /\ sufficients = [a \in Accounts |-> 0]
  /\ pot = PotFunds

-----------------------------------------------------------------------------
(* Applying. *)

NewCandidate(a, cred) ==
  /\ a \notin DOMAIN candidates
  /\ candidates' = Insert(candidates, a, Applied(cred, 0))

apply(a) ==
  /\ NewCandidate(a, ByDeposit)
  /\ deposits' = deposits \cup {a}
  /\ UNCHANGED <<referralVars, committedDesigns, settingVars, allocationCount,
                 inviteVars, rewardVars, idVars, oracleState, sufficients>>

\* The extension lets in accounts that are no candidates yet, with a ticket of
\* a referrer who is not banned.
apply_with_signature(a, r, t) ==
  /\ r \in DOMAIN people /\ ~people[r].banned
  /\ t \in referralTickets[r]
  /\ Cardinality(people[r].active) < MaxActiveReferrals
  /\ NewCandidate(a, Referred(r))
  /\ referralTickets' = [referralTickets EXCEPT ![r] = @ \ {t}]
  /\ people' = [people EXCEPT ![r].active = @ \cup {a}]
  /\ sufficients' = [sufficients EXCEPT ![a] = @ + 1]
  /\ UNCHANGED <<committedDesigns, settingVars, allocationCount, inviteVars,
                 rewardVars, idVars, oracleState, deposits>>

apply_with_invitation(a, i, t) ==
  /\ <<i, t>> \in pendingInvites
  /\ NewCandidate(a, Invited)
  /\ pendingInvites' = pendingInvites \ {<<i, t>>}
  /\ sufficients' = [sufficients EXCEPT ![a] = @ + 1]
  /\ UNCHANGED <<referralVars, committedDesigns, settingVars, allocationCount,
                 availableInvites, rewardVars, idVars, oracleState, deposits>>

\* entropy_since moves on by the timeout, not to the present.
reroll(a) ==
  /\ IsApplied(a)
  /\ candidates[a].age >= config.reroll_timeout
  /\ candidates' = [candidates EXCEPT ![a].age = @ - config.reroll_timeout]
  /\ UNCHANGED <<referralVars, committedDesigns, settingVars, allocationCount,
                 inviteVars, rewardVars, idVars, oracleState, deposits,
                 sufficients>>

-----------------------------------------------------------------------------
(* How a candidacy ends: what becomes of the credibility. *)

Dec(s, a) == [s EXCEPT ![a] = Max({@ - 1, 0})]

\* The referrer loses the referral; `ban` after contempt.
ReferralOver(r, a, ban) ==
  IF r \in DOMAIN people
  THEN people' = [people EXCEPT ![r].active = @ \ {a}, ![r].banned = @ \/ ban]
  ELSE UNCHANGED people

Bug_TimeoutKeepsReferral(a, ban) ==
  LET cred == candidates[a].cred
  IN /\ deposits' = deposits \ {a}
     /\ IF cred.by = "Deposit" THEN UNCHANGED sufficients
        ELSE sufficients' = Dec(sufficients, a)
     /\ IF cred.by = "Referred" /\ candidates[a].status = "Applied"
        THEN ReferralOver(cred.who, a, ban) ELSE UNCHANGED people

\* referral_flaked, referral_bad and referral_contemptuous, a deposit that is
\* returned or burnt, and the account reference of an invited candidate.
CredibilitySpent(a, ban) ==
  LET cred == candidates[a].cred
  IN /\ deposits' = deposits \ {a}
     /\ IF cred.by = "Deposit" THEN UNCHANGED sufficients
        ELSE sufficients' = Dec(sufficients, a)
     /\ IF cred.by = "Referred" THEN ReferralOver(cred.who, a, ban)
        ELSE UNCHANGED people

Bug_DesignStaysReserved(d) == committedDesigns

\* A design that is not elective has no entry.
Freed(d) == Without(committedDesigns, d)

\* A selected candidate is dropped: by contempt, too many failures or timeout.
Dropped(a, ban) ==
  /\ CredibilitySpent(a, ban)
  /\ candidates[a].reserved \in reservedIds
  /\ reservedIds' = reservedIds \ {candidates[a].reserved}
  /\ allocationCount' = Max({allocationCount - 1, 0})
  /\ candidates' = Without(candidates, a)
  /\ committedDesigns' = Freed(candidates[a].design)
  /\ UNCHANGED <<nextId, persons>>

flakeout(a) ==
  /\ IsApplied(a)
  /\ CredibilitySpent(a, FALSE)
  /\ candidates' = Without(candidates, a)
  /\ UNCHANGED <<referralTickets, committedDesigns, settingVars,
                 allocationCount, inviteVars, rewardVars, idVars, oracleState>>

\* Anybody may time a candidate out, also while its evidence is judged.
timeout(a) ==
  /\ IsSelected(a)
  /\ candidates[a].age > config.timeout
  /\ Dropped(a, FALSE)
  /\ UNCHANGED <<referralTickets, settingVars, inviteVars, rewardVars,
                 oracleState>>

-----------------------------------------------------------------------------
(* Committing and submitting evidence. *)

\* An elective design must be free and offered.
bake_design(d) == d \in ElectiveDesigns => d \notin DOMAIN committedDesigns
                                           /\ d \in offered

\* reserve_new_id of people-multi.
NewId(id) ==
  id = nextId /\ id < MaxIds /\ nextId' = nextId + 1

\* renew_id_reservation: an id given up before may be taken again by anybody.
RenewedId(id) ==
  /\ id < nextId /\ id \notin persons /\ id \notin reservedIds
  /\ UNCHANGED nextId

commit(a, id, d) ==
  /\ IsApplied(a)
  /\ allocationCount < config.maximum
  /\ NewId(id) \/ RenewedId(id)
  /\ reservedIds' = reservedIds \cup {id}
  /\ bake_design(d)
  /\ committedDesigns' = IF d \in ElectiveDesigns
                         THEN Insert(committedDesigns, d, "Reserved")
                         ELSE committedDesigns
  /\ allocationCount' = allocationCount + 1
  /\ candidates' = [candidates EXCEPT ![a] =
       Selected(@.cred, id, d,
                IF allocationCount < config.fasttrack_count THEN "Full"
                                                            ELSE "Initial")]
  /\ UNCHANGED <<referralVars, settingVars, inviteVars, rewardVars, persons,
                 oracleState, deposits, sufficients>>

allocate_full(a) ==
  /\ IsSelected(a)
  /\ candidates[a].allocation = "InitDone"
  /\ candidates' = [candidates EXCEPT ![a].allocation = "Full"]
  /\ UNCHANGED <<referralVars, committedDesigns, settingVars, allocationCount,
                 inviteVars, rewardVars, idVars, oracleState, deposits,
                 sufficients>>

\* Only evidence for the initial allocation may be merely probable.
ProbableAcceptable(a) == candidates[a].allocation = "Initial"

submit_evidence(a) ==
  /\ IsSelected(a)
  /\ candidates[a].judging = {}
  /\ judge_statement
  /\ statements' = Insert(statements, nextTicket,
                          [who |-> a, strict |-> ~ProbableAcceptable(a)])
  /\ candidates' = [candidates EXCEPT ![a].judging = {nextTicket}]
  /\ UNCHANGED <<referralVars, committedDesigns, settingVars, allocationCount,
                 inviteVars, rewardVars, idVars, deposits, sufficients>>

-----------------------------------------------------------------------------
(* The oracle calls back. *)

Bug_AnyTicket(a, t) == IsSelected(a) /\ candidates[a].judging # {}

\* The candidate is still waiting for exactly this judgement.
Awaits(a, t) == IsSelected(a) /\ candidates[a].judging = {t}

\* A judgement that fails the candidate, and one that drops it.
Fails(a, j) == j = "False" \/ candidates[a].allocation = "InitDone"
Drops(a, j) ==
  \/ j = "Contempt"
  \/ Fails(a, j) /\ candidates[a].failed + 1 > MaxRetryAttempts

RetryGranted(a) ==
  /\ candidates' = [candidates EXCEPT ![a].failed = @ + 1, ![a].judging = {}]
  /\ UNCHANGED <<people, committedDesigns, allocationCount, idVars, deposits,
                 sufficients>>

JudgedInitial(a) ==
  /\ candidates' = [candidates EXCEPT ![a].allocation = "InitDone",
                                      ![a].judging = {}]
  /\ UNCHANGED <<people, committedDesigns, allocationCount, idVars, deposits,
                 sufficients>>

\* referral_ok, or the deposit is returned; the account reference of a
\* referred or invited candidate stays until it registers.
JudgedTrue(a) ==
  LET c == candidates[a]
      r == c.cred.who
  IN
  /\ allocationCount' = Max({allocationCount - 1, 0})
  /\ deposits' = deposits \ {a}
  /\ people' = IF c.cred.by = "Referred" /\ r \in DOMAIN people
               THEN [people EXCEPT ![r].active = @ \ {a},
                                   ![r].pending = @ + 1,
                                   ![r].allowed = Min({@ + 1, MaxActiveReferrals})]
               ELSE people
  /\ committedDesigns' = IF c.design \in ElectiveDesigns
                         THEN Insert(committedDesigns, c.design, "Committed")
                         ELSE committedDesigns
  /\ candidates' = [candidates EXCEPT ![a] = Proven(c.cred, c.reserved, c.design)]
  /\ UNCHANGED <<idVars, sufficients>>

CallbackFails ==
  UNCHANGED <<candidates, people, committedDesigns, allocationCount, idVars,
              deposits, sufficients>>

\* `refreshed`: whether DataStore::refresh_allocation succeeds.
judged(t, j, refreshed) ==
  LET a == statements[t].who
  IN
  /\ callback(t, j)
  /\ IF \/ ~Awaits(a, t)
        \/ Drops(a, j) /\ candidates[a].reserved \notin reservedIds
        \/ ~Drops(a, j) /\ Fails(a, j) /\ ~refreshed
     THEN CallbackFails
     ELSE IF Drops(a, j) THEN Dropped(a, j = "Contempt")
     ELSE IF Fails(a, j) THEN RetryGranted(a)
     ELSE IF candidates[a].allocation = "Initial" THEN JudgedInitial(a)
     ELSE JudgedTrue(a)
  /\ statements' = Without(statements, t)
  /\ UNCHANGED <<referralTickets, settingVars, inviteVars, rewardVars>>

-----------------------------------------------------------------------------
(* Registering, with the rewards. *)

\* What the last entry of a list of reimbursement values pays, and the list
\* after one payment.
Reward(list) == IF list = <<>> THEN 0 ELSE Last(list).value
Paid(list) ==
  IF list = <<>> THEN list
  ELSE IF Last(list).count = 1 THEN Front(list)
  ELSE [list EXCEPT ![Len(list)].count = @ - 1]

\* Also recognize_personhood of people-multi, which wants the id reserved.
register_proven_candidate(a, payReferrer) ==
  LET c == candidates[a]
      amount == Reward(referredValues)
                  + (IF payReferrer THEN Reward(referrerValues) ELSE 0)
  IN
  /\ candidates' = Without(candidates, a)
  /\ people' = Insert(people, c.reserved, NewPerson(c.design))
  /\ c.reserved \in reservedIds
  /\ reservedIds' = reservedIds \ {c.reserved}
  /\ persons' = persons \cup {c.reserved}
  /\ pot >= amount
  /\ pot' = pot - amount
  /\ referredValues' = Paid(referredValues)
  /\ referrerValues' = IF payReferrer THEN Paid(referrerValues)
                                      ELSE referrerValues
  /\ UNCHANGED nextId

register_referred(a) ==
  /\ IsProven(a) /\ candidates[a].cred.by = "Referred"
  /\ register_proven_candidate(a, FALSE)
  /\ sufficients' = Dec(sufficients, a)
  /\ UNCHANGED <<referralTickets, committedDesigns, settingVars,
                 allocationCount, inviteVars, oracleState, deposits>>

register_non_referred(a) ==
  /\ IsProven(a) /\ candidates[a].cred.by # "Referred"
  /\ register_proven_candidate(a, TRUE)
  /\ sufficients' = IF candidates[a].cred.by = "Invited" THEN Dec(sufficients, a)
                    ELSE sufficients
  /\ UNCHANGED <<referralTickets, committedDesigns, settingVars,
                 allocationCount, inviteVars, oracleState, deposits>>

register_successful_referral_reward(r) ==
  /\ r \in DOMAIN people /\ ~people[r].banned /\ people[r].pending > 0
  /\ people' = [people EXCEPT ![r].pending = @ - 1]
  /\ pot >= Reward(referrerValues)
  /\ pot' = pot - Reward(referrerValues)
  /\ referrerValues' = Paid(referrerValues)
  /\ UNCHANGED <<candidates, referralTickets, committedDesigns, settingVars,
                 allocationCount, inviteVars, referredValues, idVars,
                 oracleState, deposits, sufficients>>

-----------------------------------------------------------------------------
(* Referral and invite tickets. *)

Bug_RoomForTickets(r) == Cardinality(people[r].active) < MaxActiveReferrals

RoomForTickets(r) ==
  LET issued == Cardinality(referralTickets[r])
  IN /\ Cardinality(people[r].active) < MaxActiveReferrals
     /\ issued > 0 =>
          /\ people[r].allowed > issued
          /\ issued + Cardinality(people[r].active) < MaxActiveReferrals

set_referral_ticket(r, t) ==
  /\ r \in DOMAIN people /\ ~people[r].banned /\ people[r].pending = 0
  /\ RoomForTickets(r)
  /\ referralTickets' = [referralTickets EXCEPT ![r] = @ \cup {t}]
  /\ UNCHANGED <<candidates, people, committedDesigns, settingVars,
                 allocationCount, inviteVars, rewardVars, idVars, oracleState,
                 deposits, sufficients>>

cancel_referral_ticket(r, t) ==
  /\ r \in DOMAIN people /\ ~people[r].banned
  /\ t \in referralTickets[r]
  /\ referralTickets' = [referralTickets EXCEPT ![r] = @ \ {t}]
  /\ UNCHANGED <<candidates, people, committedDesigns, settingVars,
                 allocationCount, inviteVars, rewardVars, idVars, oracleState,
                 deposits, sufficients>>

notInvites == <<candidates, referralVars, committedDesigns, settingVars,
                allocationCount, rewardVars, idVars, oracleState, deposits,
                sufficients>>

grant_invites(i, n) ==
  /\ availableInvites[i] + n <= MaxInvites
  /\ availableInvites' = [availableInvites EXCEPT ![i] = @ + n]
  /\ UNCHANGED <<pendingInvites, notInvites>>

\* As many pending invites as the limit allows go, in no particular order.
remove_available_and_pending_invites(i, removed) ==
  /\ removed \subseteq {p \in pendingInvites : p[1] = i}
  /\ availableInvites' = [availableInvites EXCEPT ![i] = 0]
  /\ pendingInvites' = pendingInvites \ removed
  /\ UNCHANGED notInvites

set_invite_ticket(i, t) ==
  /\ availableInvites[i] > 0
  /\ <<i, t>> \notin pendingInvites
  /\ pendingInvites' = pendingInvites \cup {<<i, t>>}
  /\ availableInvites' = [availableInvites EXCEPT ![i] = @ - 1]
  /\ UNCHANGED notInvites

cancel_invite_ticket(i, t) ==
  /\ <<i, t>> \in pendingInvites
  /\ pendingInvites' = pendingInvites \ {<<i, t>>}
  /\ availableInvites' = [availableInvites EXCEPT ![i] = @ + 1]
  /\ UNCHANGED notInvites

-----------------------------------------------------------------------------
(* The manager, and time. *)

notSettings == <<candidates, referralVars, committedDesigns, allocationCount,
                 inviteVars, idVars, oracleState, deposits, sufficients>>

add_design_family(S) ==
  /\ S \in Offers /\ offered' = S
  /\ UNCHANGED <<notSettings, config, rewardVars>>

set_configuration(c) ==
  /\ config' = c
  /\ UNCHANGED <<notSettings, offered, rewardVars>>

set_reimbursement_values(lists) ==
  /\ Len(lists[1]) = Len(lists[2])
  /\ referredValues' = lists[1] /\ referrerValues' = lists[2]
  /\ UNCHANGED <<notSettings, settingVars, pot>>

tick ==
  /\ candidates' = [a \in DOMAIN candidates |->
       IF candidates[a].status = "Proven" THEN candidates[a]
       ELSE [candidates[a] EXCEPT !.age =
               Min({@ + 1, IF IsApplied(a) THEN MaxEntropyAge ELSE MaxAge})]]
  /\ UNCHANGED <<referralVars, committedDesigns, settingVars, allocationCount,
                 inviteVars, rewardVars, idVars, oracleState, deposits,
                 sufficients>>

-----------------------------------------------------------------------------
CandidateNext ==
  \E a \in Accounts :
    \/ apply(a)
    \/ \E r \in Ids, t \in Tickets : apply_with_signature(a, r, t)
    \/ \E i \in Inviters, t \in InviteTickets : apply_with_invitation(a, i, t)
    \/ reroll(a)
    \/ flakeout(a)
    \/ timeout(a)
    \/ \E id \in Ids, d \in ElectiveDesigns \cup {"procedural"} : commit(a, id, d)
    \/ allocate_full(a)
    \/ submit_evidence(a)
    \/ register_referred(a)
    \/ register_non_referred(a)

PersonNext ==
  \E r \in Ids :
    \/ register_successful_referral_reward(r)
    \/ \E t \in Tickets : set_referral_ticket(r, t) \/ cancel_referral_ticket(r, t)

InviteNext ==
  \E i \in Inviters :
    \/ \E n \in InviteCounts : grant_invites(i, n)
    \/ \E S \in SUBSET pendingInvites : remove_available_and_pending_invites(i, S)
    \/ \E t \in InviteTickets : set_invite_ticket(i, t) \/ cancel_invite_ticket(i, t)

ManagerNext ==
  \/ \E S \in Offers : add_design_family(S)
  \/ \E c \in Configs : set_configuration(c)
  \/ \E lists \in ReimbursementLists : set_reimbursement_values(lists)

Next ==
  \/ CandidateNext
  \/ PersonNext
  \/ InviteNext
  \/ ManagerNext
  \/ \E t \in pending, j \in Judgements, ok \in BOOLEAN : judged(t, j, ok)
  \/ tick

Spec == Init /\ [][Next]_inkVars

-----------------------------------------------------------------------------
SelectedNow == {a \in Accounts : IsSelected(a)}
WithId == {a \in Accounts : IsSelected(a) \/ IsProven(a)}

\* What is kept by hand beside the candidates agrees with them, whichever way
\* a candidacy ended: `AllocationCount`, deposits, account references and the
\* active referrals of every person.
BooksExact ==
  /\ allocationCount = Cardinality(SelectedNow)
  /\ deposits = {a \in DOMAIN candidates : candidates[a].cred.by = "Deposit"
                                           /\ ~IsProven(a)}
  /\ \A a \in Accounts :
       sufficients[a] = IF a \in DOMAIN candidates
                           /\ candidates[a].cred.by # "Deposit" THEN 1 ELSE 0
  /\ \A r \in DOMAIN people :
       people[r].active = {a \in DOMAIN candidates :
                             candidates[a].cred = Referred(r) /\ ~IsProven(a)}

\* A personal id is reserved for exactly one candidate or belongs to one
\* person, and an elective design is reserved for one candidate or committed
\* to one: ids and designs that were given up can be taken anew, by others.
IdsAndDesignsExact ==
  /\ reservedIds = {candidates[a].reserved : a \in WithId}
  /\ Cardinality(reservedIds) = Cardinality(WithId)
  /\ reservedIds \cap persons = {} /\ DOMAIN people = persons
  /\ \A d \in ElectiveDesigns :
       LET selected == {a \in SelectedNow : candidates[a].design = d}
           proven == {a \in WithId \ SelectedNow : candidates[a].design = d}
           owners == {r \in DOMAIN people : people[r].design = d}
       IN IF d \notin DOMAIN committedDesigns
          THEN selected \cup proven \cup owners = {}
          ELSE IF committedDesigns[d] = "Reserved"
          THEN Cardinality(selected) = 1 /\ proven \cup owners = {}
          ELSE selected = {} /\ Cardinality(proven) + Cardinality(owners) = 1

\* "This should not happen because the limit of unique tickets a referrer can
\* give away is equal to the limit of active referrals" (apply_with_signature):
\* no ticket given away is ever refused for want of room.  It may be refused
\* because its referrer was banned meanwhile (extension.rs:161).
TicketsHonoured ==
  \A r \in DOMAIN people :
    Cardinality(referralTickets[r]) + Cardinality(people[r].active)
      <= MaxActiveReferrals

\* A candidate becomes Proven only when the oracle finds true, with no benefit
\* of the doubt, the evidence that this candidate submitted for the design it
\* is committed to now; answers that come after a timeout prove nobody.
ProvenByOwnEvidence ==
  [][\A a \in Accounts :
       IsProven(a)' /\ ~IsProven(a) =>
         \E t \in pending :
           /\ judged(t, "True", TRUE)
           /\ statements[t] = [who |-> a, strict |-> TRUE]
           /\ t >= candidates[a].since_ticket]_inkVars
==============================================================================
