------------------------------- MODULE MobRule -------------------------------
(***************************************************************************)
(* pallets/mob-rule: people vote on the statements other pallets want      *)
(* judged.  A case is open, ripens by votes, by touch_case or by timeout,  *)
(* is closed by calling its owner back, and is reaped in the end; votes on *)
(* a closed case are claimed for points or cleaned away, and the points of *)
(* one payout round share the funds of the next.                           *)
(*                                                                         *)
(* Times are ages: how long ago the stored moment was, up to the largest   *)
(* age any condition tells apart.  The clock and the block number advance  *)
(* together.  The statement, its context and the callback are the caller's *)
(* and are represented by the case index.                                  *)
(*                                                                         *)
(* A definition whose name starts with Bug_ is a deliberate mistake in the *)
(* definition after it; no specification uses one.                         *)
(***************************************************************************)
EXTENDS StorageMaps

CONSTANTS
  Voters,                     \* aliases of people in MOB_CONTEXT
  Opinions,                   \* the judgements people and governance give
  ActiveCounts,               \* the values EnsurePerson::active_count takes
  MinTurnoutPercentage, MinTurnoutNominal,
  MinCaseDuration, MaxVotingDuration,
  VotesOpenForClaimsDuration, MaxVoteClaimDuration,
  VotingPenaltyDuration,
  MinimumVoterThreshold,
  MaxVotesClaimable,
  MaxPayoutRoundSchedules,
  Accuracy,                   \* of a Perbill; 10^9 in the code
  Schedules,                  \* the schedules governance may ask for
  PotFunds,                   \* what the treasury put into the pot
  MaxCases,                   \* bound: statements ever judged
  MaxRounds                   \* bound: payout rounds ever started

Cases == 0..(MaxCases - 1)
Judgements == {"True", "False", "Contempt"}

ASSUME MobRuleAssumption ==
  /\ IsFiniteSet(Voters) /\ ActiveCounts \subseteq Nat
  /\ Opinions \subseteq Judgements
  /\ MinTurnoutPercentage \in 0..100 /\ MinTurnoutNominal \in Nat
  /\ MinCaseDuration \in Nat /\ MaxVotingDuration \in Nat \ {0}
  /\ VotesOpenForClaimsDuration \in Nat /\ VotingPenaltyDuration \in Nat
  /\ MaxVoteClaimDuration \in Nat
  /\ VotesOpenForClaimsDuration <= MaxVoteClaimDuration  \* integrity_test
  /\ MinimumVoterThreshold \in Nat /\ MaxVotesClaimable \in Nat
  /\ MaxPayoutRoundSchedules \in Nat /\ Accuracy \in Nat \ {0}
  /\ PotFunds \in Nat /\ MaxCases \in Nat /\ MaxRounds \in Nat
  /\ IsFiniteSet(Schedules)
  /\ Schedules \subseteq [remaining : Nat, amount_per_round : Nat, period : Nat]

VARIABLES
  openCases,            \* `OpenCases`: index -> [age, tally]
  ripeCases,            \* `RipeCases`: index -> verdict
  doneCases,            \* `DoneCases`: index -> [age, verdict]
  caseCount,            \* `CaseCount`
  called,               \* history: how many callbacks there were
  votes,                \* `Votes`: <<index, voter>> -> judgement
  credits,              \* `Credits`
  votingPenalties,      \* `VotingPenalties`: voter -> age
  votingPoints,         \* `VotingPoints`: <<round, voter>> -> points
  accumulatedPoints,    \* `AccumulatedPoints`
  payoutDistribution,   \* `PayoutDistribution`
  roundSchedules,       \* `RoundSchedules`
  activeSince,          \* `ActiveSince`: age, or Never
  activeVoters,         \* EnsurePerson::active_count
  pot,                  \* balances of the pot account: free and by hold reason
  paid,                 \* what was paid out of the pot
  unbacked              \* history: funds of rounds that no schedule held

caseVars == <<openCases, ripeCases, doneCases, caseCount, called>>
rewardVars == <<votingPoints, accumulatedPoints, payoutDistribution,
                roundSchedules, pot, paid, unbacked>>
voterVars == <<votes, credits, votingPenalties>>
mobVars == <<caseVars, rewardVars, voterVars, activeSince, activeVoters>>

Never == -1
\* `None`, with a round whose successor is round 0.
NoDistribution == [round |-> -1, initial_balance |-> 0, remaining_balance |-> 0,
                   total_points |-> 0, age |-> 0]

\* Ages beyond these are not told apart.
OpenHorizon == Max({MinCaseDuration + 1, MaxVotingDuration})
DoneHorizon == MaxVoteClaimDuration + 1
PeriodHorizon == Max({s.period : s \in Schedules} \cup {0})

Init ==
  /\ openCases = <<>> /\ ripeCases = <<>> /\ doneCases = <<>>
  /\ caseCount = 0 /\ called = 0
  /\ votes = <<>> /\ votingPenalties = <<>>
  /\ credits = [v \in Voters |-> [voted |-> 0, cleaned |-> 0, correct |-> 0,
                                  credit |-> 0]]
  /\ votingPoints = <<>> /\ accumulatedPoints = 0
  /\ payoutDistribution = NoDistribution
  /\ roundSchedules = <<>>
  /\ activeSince = Never /\ activeVoters \in ActiveCounts
  /\ pot = [free |-> PotFunds, payout |-> 0, credit |-> 0]
  /\ paid = 0 /\ unbacked = 0

-----------------------------------------------------------------------------
(* Counting votes. *)

EmptyTally == [j \in Judgements |-> 0]
NayWeight(tally) == tally["False"] + tally["Contempt"]
VoteCount(tally) == tally["True"] + NayWeight(tally)

\* A contempt vote weighs as much as a nay; no votes at all judge False.
Verdict(tally) ==
  IF VoteCount(tally) = 0 THEN "False"
  ELSE IF tally["True"] > NayWeight(tally) THEN "True"
  ELSE IF tally["Contempt"] >= tally["False"] THEN "Contempt"
  ELSE "False"

\* The voters that did not vote cannot flip the verdict any more.
Definitive(tally) ==
  LET remaining == Max({activeVoters - VoteCount(tally), 0})
      ahead == IF tally["True"] > NayWeight(tally)
               THEN tally["True"] - NayWeight(tally)
               ELSE NayWeight(tally) - tally["True"]
  IN VoteCount(tally) > 0 /\ (remaining = 0 \/ ahead > remaining)

\* Percent::from_rational(vote_count, active_voters).
Turnout(tally) ==
  LET q == Max({activeVoters, 1})
  IN IF VoteCount(tally) = 0 THEN 0
     ELSE (Min({VoteCount(tally), q}) * 100) \div q

\* The required approval falls from 100% to 50% over MaxVotingDuration.
is_passing(tally, elapsed) ==
  LET remaining == Max({MaxVotingDuration - elapsed, 0})
  IN MaxVotingDuration * tally["True"] * 2
       > (MaxVotingDuration + remaining) * VoteCount(tally)

Ripens(tally, age) ==
  /\ Turnout(tally) >= MinTurnoutPercentage
  /\ VoteCount(tally) >= MinTurnoutNominal
  /\ age > MinCaseDuration
  /\ Definitive(tally) \/ is_passing(tally, age)

\* The case is put back, or becomes ripe with the verdict of its tally.
RipenOrReturn(c, tally, age) ==
  IF Ripens(tally, age)
  THEN /\ openCases' = Without(openCases, c)
       /\ ripeCases' = Insert(ripeCases, c, Verdict(tally))
  ELSE /\ openCases' = Insert(openCases, c, [age |-> age, tally |-> tally])
       /\ UNCHANGED ripeCases

-----------------------------------------------------------------------------
(* Cases. *)

judge_statement ==
  /\ caseCount < MaxCases
  /\ caseCount' = caseCount + 1
  /\ openCases' = Insert(openCases, caseCount, [age |-> 0, tally |-> EmptyTally])
  /\ UNCHANGED <<ripeCases, doneCases, called, voterVars, rewardVars,
                 activeSince, activeVoters>>

Bug_OldVoteStays(tally, v, c) == tally

\* The tally without the vote that v gave before.
Discounted(tally, v, c) ==
  IF <<c, v>> \in DOMAIN votes THEN [tally EXCEPT ![votes[<<c, v>>]] = @ - 1]
  ELSE tally

vote(v, c, opinion) ==
  LET tally == [Discounted(openCases[c].tally, v, c) EXCEPT ![opinion] = @ + 1]
  IN
  /\ opinion = "Contempt" => v \notin DOMAIN votingPenalties
  /\ c \in DOMAIN openCases
  /\ votes' = Insert(votes, <<c, v>>, opinion)
  /\ credits' = IF <<c, v>> \in DOMAIN votes THEN credits
                ELSE [credits EXCEPT ![v].voted = @ + 1]
  /\ RipenOrReturn(c, tally, openCases[c].age)
  /\ UNCHANGED <<doneCases, caseCount, called, votingPenalties, rewardVars,
                 activeSince, activeVoters>>

touch_case(c) ==
  /\ c \in DOMAIN openCases
  /\ RipenOrReturn(c, openCases[c].tally, openCases[c].age)
  /\ UNCHANGED <<doneCases, caseCount, called, voterVars, rewardVars,
                 activeSince, activeVoters>>

Bug_OnlyVotedCasesExpire(c) ==
  /\ c \in DOMAIN openCases
  /\ activeSince # Never
  /\ VoteCount(openCases[c].tally) > 0
  /\ Min({openCases[c].age, activeSince}) >= MaxVotingDuration

\* Time counts from when the case was opened or voting became active,
\* whichever was later.
validate_timeout_case(c) ==
  /\ c \in DOMAIN openCases
  /\ activeSince # Never
  /\ Min({openCases[c].age, activeSince}) >= MaxVotingDuration

force_ripen_case(c) ==
  /\ validate_timeout_case(c)
  /\ openCases' = Without(openCases, c)
  /\ ripeCases' = Insert(ripeCases, c, Verdict(openCases[c].tally))
  /\ UNCHANGED <<doneCases, caseCount, called, voterVars, rewardVars,
                 activeSince, activeVoters>>

\* Whether the callback can be built or succeeds does not matter here.
CallBackAndFinish(c, verdict) ==
  /\ called' = called + 1
  /\ doneCases' = Insert(doneCases, c, [age |-> 0, verdict |-> verdict])

close_case(c) ==
  /\ c \in DOMAIN ripeCases
  /\ ripeCases' = Without(ripeCases, c)
  /\ CallBackAndFinish(c, ripeCases[c])
  /\ UNCHANGED <<openCases, caseCount, voterVars, rewardVars, activeSince,
                 activeVoters>>

Bug_InterveneReads(c, verdict) ==
  /\ c \in DOMAIN openCases
  /\ CallBackAndFinish(c, verdict)
  /\ UNCHANGED <<openCases, ripeCases, caseCount, voterVars, rewardVars,
                 activeSince, activeVoters>>

intervene(c, verdict) ==
  /\ c \in DOMAIN openCases
  /\ openCases' = Without(openCases, c)
  /\ CallBackAndFinish(c, verdict)
  /\ UNCHANGED <<ripeCases, caseCount, voterVars, rewardVars, activeSince,
                 activeVoters>>

reap_case(c) ==
  /\ c \in DOMAIN doneCases
  /\ doneCases[c].age > MaxVoteClaimDuration
  /\ doneCases' = Without(doneCases, c)
  /\ UNCHANGED <<openCases, ripeCases, caseCount, called, voterVars, rewardVars,
                 activeSince, activeVoters>>

-----------------------------------------------------------------------------
(* What becomes of a vote once its case is done. *)

\* A nay agrees with a verdict of contempt.
Agrees(verdict, v, c) ==
  \/ votes[<<c, v>>] = verdict
  \/ verdict = "Contempt" /\ votes[<<c, v>>] = "False"

Penalised(v) == votingPenalties' = Insert(votingPenalties, v, 0)

Bug_PointsOfCurrentRound == Max({payoutDistribution.round, 0})

\* The round in which points earned now can be claimed.
PointsRound == payoutDistribution.round + 1

do_claim_votes(v, cs) ==
  LET correct == {c \in cs : Agrees(doneCases[c].verdict, v, c)}
      wrongContempt == {c \in cs \ correct : votes[<<c, v>>] = "Contempt"}
      points == Cardinality(correct)
  IN
  /\ Cardinality(cs) <= MaxVotesClaimable
  /\ \A c \in cs : <<c, v>> \in DOMAIN votes /\ c \in DOMAIN doneCases
  /\ votes' = WithoutAll(votes, {<<c, v>> : c \in cs})
  /\ IF wrongContempt = {} THEN UNCHANGED votingPenalties ELSE Penalised(v)
  /\ credits' = [credits EXCEPT ![v].cleaned = @ + Cardinality(cs),
                                ![v].correct = @ + points]
  /\ votingPoints' = Insert(votingPoints, <<PointsRound, v>>,
                            Get(votingPoints, <<PointsRound, v>>) + points)
  /\ accumulatedPoints' = accumulatedPoints + points
  /\ UNCHANGED <<caseVars, payoutDistribution, roundSchedules, pot, paid,
                 unbacked, activeSince, activeVoters>>

claim_vote(v, c) == do_claim_votes(v, {c})
claim_votes(v, cs) == do_claim_votes(v, cs)

validate_clean_vote(c, v) ==
  /\ c \notin DOMAIN openCases \cup DOMAIN ripeCases
  /\ c \in DOMAIN doneCases => doneCases[c].age > VotesOpenForClaimsDuration
  /\ <<c, v>> \in DOMAIN votes

\* A late vote counts as correct but earns no points; without the case (it
\* was reaped first) there is no verdict to compare with.
clean_vote_inner(c, v) ==
  LET done == c \in DOMAIN doneCases
      agrees == done /\ Agrees(doneCases[c].verdict, v, c)
  IN
  /\ validate_clean_vote(c, v)
  /\ votes' = Without(votes, <<c, v>>)
  /\ credits' = [credits EXCEPT ![v].cleaned = @ + 1,
                                ![v].correct = IF agrees THEN @ + 1 ELSE @]
  /\ IF done /\ ~agrees /\ votes[<<c, v>>] = "Contempt" THEN Penalised(v)
     ELSE UNCHANGED votingPenalties
  /\ UNCHANGED <<caseVars, rewardVars, activeSince, activeVoters>>

\* The worker cleans votes of cases that are not reaped yet; a signed call
\* may clean any.
clean_vote(c, v) == c \in DOMAIN doneCases /\ clean_vote_inner(c, v)
clean_vote_signed(c, v) == clean_vote_inner(c, v)

clear_voting_penalty(v) ==
  /\ v \in DOMAIN votingPenalties
  /\ votingPenalties[v] >= VotingPenaltyDuration
  /\ votingPenalties' = Without(votingPenalties, v)
  /\ UNCHANGED <<caseVars, rewardVars, votes, credits, activeSince, activeVoters>>

-----------------------------------------------------------------------------
(* Payout rounds. *)

\* release with Precision::BestEffort.
Released(held, amount) == Min({held, amount})

\* A schedule of no rounds is accepted, and holds nothing.
schedule_payout_rounds(s) ==
  LET total == s.amount_per_round * s.remaining
  IN
  /\ pot.free >= total
  /\ Len(roundSchedules) < MaxPayoutRoundSchedules
  /\ pot' = [pot EXCEPT !.free = @ - total, !.payout = @ + total]
  /\ roundSchedules' = Append(roundSchedules, s)
  /\ UNCHANGED <<caseVars, voterVars, votingPoints, accumulatedPoints,
                 payoutDistribution, paid, unbacked, activeSince, activeVoters>>

remove_payout_schedule(i) ==
  LET s == roundSchedules[i]
      released == Released(pot.payout, s.amount_per_round * s.remaining)
  IN
  /\ roundSchedules' = RemoveAt(roundSchedules, i)
  /\ pot' = [pot EXCEPT !.free = @ + released, !.payout = @ - released]
  /\ UNCHANGED <<caseVars, voterVars, votingPoints, accumulatedPoints,
                 payoutDistribution, paid, unbacked, activeSince, activeVoters>>

Bug_LeftoverKept(d) == 0

\* What the last round did not pay out is recycled.
Leftover(d) == Released(pot.payout, d.remaining_balance)

\* The first schedule runs a round even if it has none left: such a round is
\* paid from what other schedules hold.

start_payout_round ==
  LET d == payoutDistribution
      s == Head(roundSchedules)
      amount == s.amount_per_round
  IN
  /\ accumulatedPoints > 0
  /\ roundSchedules # <<>>
  /\ d # NoDistribution => d.age >= s.period
  /\ d.round + 1 < MaxRounds
  /\ pot' = [pot EXCEPT !.free = @ + Leftover(d), !.payout = @ - Leftover(d)]
  /\ payoutDistribution' = [round |-> d.round + 1, initial_balance |-> amount,
                            remaining_balance |-> amount,
                            total_points |-> accumulatedPoints, age |-> 0]
  /\ accumulatedPoints' = 0
  /\ roundSchedules' = IF s.remaining <= 1 THEN Tail(roundSchedules)
                       ELSE [roundSchedules EXCEPT ![1].remaining = @ - 1]
  /\ unbacked' = IF s.remaining = 0 THEN unbacked + amount ELSE unbacked
  /\ UNCHANGED <<caseVars, voterVars, votingPoints, paid, activeSince,
                 activeVoters>>

\* Perbill::from_rational(points, total).mul_floor(initial): floored twice.
Claimable(points, d) ==
  (((points * Accuracy) \div d.total_points) * d.initial_balance) \div Accuracy

\* VotingPoints::take.
PointsTaken(v) == Without(votingPoints, <<payoutDistribution.round, v>>)

claim_credit(v) ==
  LET d == payoutDistribution
      points == Get(votingPoints, <<d.round, v>>)
      released == Released(pot.payout, Claimable(points, d))
  IN
  /\ d # NoDistribution
  /\ points > 0
  /\ votingPoints' = PointsTaken(v)
  /\ payoutDistribution' = [d EXCEPT !.remaining_balance = Max({@ - released, 0})]
  /\ pot' = [pot EXCEPT !.payout = @ - released, !.credit = @ + released]
  /\ credits' = [credits EXCEPT ![v].credit = @ + released]
  /\ UNCHANGED <<caseVars, votes, votingPenalties, accumulatedPoints,
                 roundSchedules, paid, unbacked, activeSince, activeVoters>>

payout_rewards(v) ==
  LET amount == credits[v].credit
  IN
  /\ amount > 0
  /\ pot.credit >= amount
  /\ pot' = [pot EXCEPT !.credit = @ - amount]
  /\ paid' = paid + amount
  /\ credits' = [credits EXCEPT ![v].credit = 0]
  /\ UNCHANGED <<caseVars, votes, votingPenalties, votingPoints,
                 accumulatedPoints, payoutDistribution, roundSchedules,
                 unbacked, activeSince, activeVoters>>

clean_points(round, v) ==
  /\ payoutDistribution # NoDistribution
  /\ round < payoutDistribution.round
  /\ <<round, v>> \in DOMAIN votingPoints
  /\ votingPoints' = Without(votingPoints, <<round, v>>)
  /\ UNCHANGED <<caseVars, voterVars, accumulatedPoints, payoutDistribution,
                 roundSchedules, pot, paid, unbacked, activeSince, activeVoters>>

-----------------------------------------------------------------------------
(* Time and the number of people. *)

do_on_poll ==
  /\ \/ /\ activeSince = Never
        /\ activeVoters >= MinimumVoterThreshold
        /\ activeSince' = 0
     \/ /\ activeSince # Never
        /\ activeVoters < MinimumVoterThreshold
        /\ activeSince' = Never
  /\ UNCHANGED <<caseVars, voterVars, rewardVars, activeVoters>>

Older(age, horizon) == Min({age + 1, horizon})

tick ==
  /\ openCases' = [c \in DOMAIN openCases |->
                     [openCases[c] EXCEPT !.age = Older(@, OpenHorizon)]]
  /\ doneCases' = [c \in DOMAIN doneCases |->
                     [doneCases[c] EXCEPT !.age = Older(@, DoneHorizon)]]
  /\ votingPenalties' = [v \in DOMAIN votingPenalties |->
                           Older(votingPenalties[v], VotingPenaltyDuration)]
  /\ payoutDistribution' =
       IF payoutDistribution = NoDistribution THEN NoDistribution
       ELSE [payoutDistribution EXCEPT !.age = Older(@, PeriodHorizon)]
  /\ activeSince' = IF activeSince = Never THEN Never
                    ELSE Older(activeSince, MaxVotingDuration)
  /\ UNCHANGED <<ripeCases, caseCount, called, votes, credits, votingPoints,
                 accumulatedPoints, roundSchedules, pot, paid, unbacked,
                 activeVoters>>

\* People are recognised and suspended elsewhere.
people_change(n) ==
  /\ activeVoters' = n
  /\ UNCHANGED <<caseVars, voterVars, rewardVars, activeSince>>

-----------------------------------------------------------------------------
Voting ==
  \/ judge_statement
  \/ \E c \in Cases :
       \/ \E v \in Voters, j \in Opinions : vote(v, c, j)
       \/ touch_case(c)
       \/ force_ripen_case(c)
       \/ close_case(c)
       \/ \E j \in Opinions : intervene(c, j)
       \/ reap_case(c)

Cleaning ==
  \E v \in Voters :
    \/ \E cs \in SUBSET Cases : claim_votes(v, cs)
    \/ clear_voting_penalty(v)
    \/ \E c \in Cases : claim_vote(v, c) \/ clean_vote(c, v)
                        \/ clean_vote_signed(c, v)

Paying ==
  \/ \E s \in Schedules : schedule_payout_rounds(s)
  \/ \E i \in DOMAIN roundSchedules : remove_payout_schedule(i)
  \/ start_payout_round
  \/ \E v \in Voters : claim_credit(v) \/ payout_rewards(v)
  \/ \E v \in Voters, r \in 0..MaxRounds : clean_points(r, v)

Next ==
  \/ Voting
  \/ Cleaning
  \/ Paying
  \/ do_on_poll
  \/ tick
  \/ \E n \in ActiveCounts : people_change(n)

Spec == Init /\ [][Next]_mobVars

\* Every block has a timestamp and polls the pallet, and the worker submits
\* close_case and force_ripen_case whenever they are valid.
Fairness ==
  /\ WF_mobVars(tick)
  /\ WF_mobVars(do_on_poll)
  /\ \A c \in Cases : WF_mobVars(force_ripen_case(c)) /\ WF_mobVars(close_case(c))

FairSpec == Spec /\ Fairness

-----------------------------------------------------------------------------
VotesFor(c, j) == {v \in Voters : <<c, v>> \in DOMAIN votes /\ votes[<<c, v>>] = j}

\* However votes are changed, claimed and cleaned, the tally of an open case
\* counts exactly the votes stored for it, and a voter's record counts one
\* cleaned vote for each vote that is gone (`vote`, `do_claim_votes`,
\* `clean_vote_inner` keep both by hand).
VotesCounted ==
  /\ \A c \in DOMAIN openCases, j \in Judgements :
       openCases[c].tally[j] = Cardinality(VotesFor(c, j))
  /\ \A v \in Voters :
       /\ credits[v].voted - credits[v].cleaned
            = Cardinality({c \in Cases : <<c, v>> \in DOMAIN votes})
       /\ credits[v].correct <= credits[v].cleaned

PointsIn(r) == MapThenSumSet(LAMBDA v : Get(votingPoints, <<r, v>>), Voters)

\* The points of the coming round are the accumulated ones, and the running
\* round never owes more points than it was started with, so that the balance
\* it was started with covers every claim; whether that balance is on hold is
\* HoldsAccounted's question.
PointsCovered ==
  LET d == payoutDistribution
  IN /\ PointsIn(PointsRound) = accumulatedPoints
     /\ d # NoDistribution =>
          /\ PointsIn(d.round) <= d.total_points
          /\ d.remaining_balance >=
               MapThenSumSet(LAMBDA v :
                 Claimable(Get(votingPoints, <<d.round, v>>), d), Voters)

\* What the running round and the schedules still promise.
PromisedFunds ==
  payoutDistribution.remaining_balance
    + MapThenSumSet(LAMBDA i : roundSchedules[i].remaining
                                 * roundSchedules[i].amount_per_round,
                    DOMAIN roundSchedules)

\* The holds for payouts never exceed what is still promised, and fall short of
\* it by no more than what empty schedules put into rounds without holding it:
\* they are exact, and cover every claim as the `debug_assert_eq!` of
\* claim_credit expects, as long as no empty schedule started a round.  What is
\* held as credit is what voters were credited, and nothing is lost between the
\* two holds and the payments.
HoldsAccounted ==
  /\ pot.payout <= PromisedFunds
  /\ PromisedFunds <= pot.payout + unbacked
  /\ pot.credit = MapThenSumSet(LAMBDA v : credits[v].credit, Voters)
  /\ pot.free + pot.payout + pot.credit + paid = PotFunds

Oracle == INSTANCE StatementOracle
            WITH MaxTickets <- MaxCases, nextTicket <- caseCount, answers <- called,
                 pending <- DOMAIN openCases \cup DOMAIN ripeCases

\* MobRule implements the oracle: whichever of the four ways out of
\* `OpenCases` a case takes, its owner is called back at most once.
ImplementsOracle == Oracle!OracleSpec

\* As long as there are enough people, every case is judged in the end,
\* voted on or not.
EveryCaseJudged ==
  <>[](activeVoters >= MinimumVoterThreshold) =>
    \A c \in Cases :
      c \in DOMAIN openCases ~> c \notin DOMAIN openCases \cup DOMAIN ripeCases
==============================================================================
