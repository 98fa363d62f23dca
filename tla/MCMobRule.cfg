SPECIFICATION FairSpec
CONSTANTS
  Voters = {v1, v2}
  Opinions = {"True", "False", "Contempt"}
  ActiveCounts = {1, 3}
  MinTurnoutPercentage = 50
  MinTurnoutNominal = 1
  MinCaseDuration = 0
  MaxVotingDuration = 2
  VotesOpenForClaimsDuration = 0
  MaxVoteClaimDuration = 0
  VotingPenaltyDuration = 1
  MinimumVoterThreshold = 3
  MaxVotesClaimable = 1
  MaxPayoutRoundSchedules = 1
  Accuracy = 1000
  Schedules <- MCSchedules
  PotFunds = 4
  MaxCases = 1
  MaxRounds = 2
INVARIANTS VotesCounted PointsCovered HoldsAccounted
PROPERTIES ImplementsOracle EveryCaseJudged
