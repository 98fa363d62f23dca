--------------------------- MODULE MobRule_proofs ---------------------------
(***************************************************************************)
(* MobRule implements the StatementOracle, its tallies count exactly the   *)
(* votes it stores, and its pot covers what it owes, for any number of     *)
(* voters, cases, payout schedules and rounds.                             *)
(***************************************************************************)
EXTENDS MobRule, StorageMaps_proofs

-----------------------------------------------------------------------------
(* Cases.                                                                  *)

OpenCase == [age : Nat, tally : [Judgements -> Int]]
DoneCase == [age : Nat, verdict : Judgements]

\* A case index is in one of the three maps at most, and was given out.
CaseInv ==
  /\ caseCount \in 0..MaxCases /\ called \in Nat
  /\ IsPartialFunction(openCases, 0..(caseCount - 1), OpenCase)
  /\ IsPartialFunction(ripeCases, 0..(caseCount - 1), Judgements)
  /\ IsPartialFunction(doneCases, 0..(caseCount - 1), DoneCase)
  /\ DOMAIN openCases \cap DOMAIN ripeCases = {}
  /\ DOMAIN openCases \cap DOMAIN doneCases = {}
  /\ DOMAIN ripeCases \cap DOMAIN doneCases = {}

\* A tally has a verdict.
LEMMA VerdictType == \A tally : Verdict(tally) \in Judgements
BY DEF Verdict, Judgements

\* Ages stay naturals.
LEMMA OlderType == ASSUME NEW age \in Nat, NEW horizon \in Nat
                   PROVE  Older(age, horizon) \in Nat
BY MinOfTwo DEF Older

\* The two horizons at which ages saturate are numbers.
LEMMA HorizonTypes == OpenHorizon \in Nat /\ DoneHorizon \in Nat
BY MaxOfTwo, MobRuleAssumption DEF OpenHorizon, DoneHorizon

\* There are no cases in the beginning.
LEMMA CaseInit == Init => CaseInv
<1> SUFFICES ASSUME Init PROVE CaseInv
  OBVIOUS
<1>1. /\ openCases = <<>> /\ ripeCases = <<>> /\ doneCases = <<>>
      /\ caseCount = 0 /\ called = 0
  BY DEF Init
<1>2. caseCount \in 0..MaxCases /\ called \in Nat
  BY <1>1, MobRuleAssumption
<1> QED BY <1>1, <1>2, EmptyMapType DEF CaseInv

\* A case that is put back or ripens stays in one map.
LEMMA RipenOrReturnInv ==
  ASSUME CaseInv, NEW c \in DOMAIN openCases, NEW tally \in [Judgements -> Int],
         RipenOrReturn(c, tally, openCases[c].age),
         UNCHANGED <<doneCases, caseCount, called>>
  PROVE  CaseInv' /\ DOMAIN openCases' \subseteq DOMAIN openCases
         /\ DOMAIN openCases' \cup DOMAIN ripeCases'
              = DOMAIN openCases \cup DOMAIN ripeCases
<1>1. c \in 0..(caseCount - 1) /\ openCases[c].age \in Nat
  BY DEF CaseInv, IsPartialFunction, OpenCase
<1>2. CASE Ripens(tally, openCases[c].age)
  <2>1. openCases' = Without(openCases, c)
        /\ ripeCases' = Insert(ripeCases, c, Verdict(tally))
    BY <1>2 DEF RipenOrReturn
  <2>2. IsPartialFunction(openCases', 0..(caseCount - 1), OpenCase)
        /\ DOMAIN openCases' = DOMAIN openCases \ {c}
    BY <2>1 DEF CaseInv, IsPartialFunction, Without
  <2>3. IsPartialFunction(ripeCases', 0..(caseCount - 1), Judgements)
        /\ DOMAIN ripeCases' = DOMAIN ripeCases \cup {c}
    BY <1>1, <2>1, VerdictType DEF CaseInv, IsPartialFunction, Insert
  <2> QED BY <2>2, <2>3 DEF CaseInv
<1>3. CASE ~Ripens(tally, openCases[c].age)
  <2>1. openCases' = Insert(openCases, c, [age |-> openCases[c].age, tally |-> tally])
        /\ ripeCases' = ripeCases
    BY <1>3 DEF RipenOrReturn
  <2>2. [age |-> openCases[c].age, tally |-> tally] \in OpenCase
    BY <1>1 DEF OpenCase
  <2>3. IsPartialFunction(openCases', 0..(caseCount - 1), OpenCase)
        /\ DOMAIN openCases' = DOMAIN openCases \cup {c}
    BY <1>1, <2>1, <2>2 DEF CaseInv, IsPartialFunction, Insert
  <2> QED BY <2>1, <2>3 DEF CaseInv
<1> QED BY <1>2, <1>3

\* The tally after a vote is a tally.
LEMMA DiscountedType ==
  ASSUME NEW tally \in [Judgements -> Int], NEW v, NEW c
  PROVE  Discounted(tally, v, c) \in [Judgements -> Int]
<1>1. ASSUME NEW j
      PROVE  [tally EXCEPT ![j] = @ - 1] \in [Judgements -> Int]
  <2>1. CASE j \in Judgements
    BY <2>1
  <2>2. CASE j \notin Judgements
    <3>1. [tally EXCEPT ![j] = @ - 1] = tally
      BY <2>2
    <3> QED BY <3>1
  <2> QED BY <2>1, <2>2
<1> QED BY <1>1 DEF Discounted

\* Claiming, cleaning, paying, polling and the number of people do not touch
\* cases.
LEMMA CasesUntouched ==
  ASSUME Cleaning \/ Paying \/ do_on_poll \/ \E n \in ActiveCounts : people_change(n)
  PROVE  UNCHANGED caseVars
<1>1. CASE Cleaning
  <2>1. \A v, cs : do_claim_votes(v, cs) => UNCHANGED caseVars
    BY DEF do_claim_votes
  <2>2. \A v, c : clean_vote_inner(c, v) => UNCHANGED caseVars
    BY DEF clean_vote_inner
  <2>3. \A v : clear_voting_penalty(v) => UNCHANGED caseVars
    BY DEF clear_voting_penalty
  <2> QED BY <1>1, <2>1, <2>2, <2>3 DEF Cleaning, claim_votes, claim_vote,
                                        clean_vote, clean_vote_signed
<1>2. CASE Paying
  BY <1>2 DEF Paying, schedule_payout_rounds, remove_payout_schedule,
              start_payout_round, claim_credit, payout_rewards, clean_points
<1>3. CASE do_on_poll \/ \E n \in ActiveCounts : people_change(n)
  BY <1>3 DEF do_on_poll, people_change
<1> QED BY <1>1, <1>2, <1>3

\* Every operation keeps the cases disjoint and typed.
LEMMA CaseStep == CaseInv /\ [Next]_mobVars => CaseInv'
<1> SUFFICES ASSUME CaseInv, [Next]_mobVars PROVE CaseInv'
  OBVIOUS
<1>1. CASE UNCHANGED caseVars
  BY <1>1 DEF caseVars, CaseInv
<1>2. CASE judge_statement
  <2>1. 0..(caseCount - 1) \subseteq 0..(caseCount' - 1) /\ caseCount \in 0..(caseCount' - 1)
        /\ caseCount' \in 0..MaxCases /\ caseCount \notin 0..(caseCount - 1)
    BY <1>2, MobRuleAssumption DEF judge_statement, CaseInv
  <2>2. [age |-> 0, tally |-> EmptyTally] \in OpenCase
    BY DEF OpenCase, EmptyTally
  <2>3. /\ IsPartialFunction(openCases, 0..(caseCount' - 1), OpenCase)
        /\ IsPartialFunction(ripeCases, 0..(caseCount' - 1), Judgements)
        /\ IsPartialFunction(doneCases, 0..(caseCount' - 1), DoneCase)
    BY <2>1, PartialFunctionWider DEF CaseInv
  <2>4. /\ openCases' = Insert(openCases, caseCount, [age |-> 0, tally |-> EmptyTally])
        /\ UNCHANGED <<ripeCases, doneCases, called>>
    BY <1>2 DEF judge_statement
  <2>5. IsPartialFunction(openCases', 0..(caseCount' - 1), OpenCase)
        /\ DOMAIN openCases' = DOMAIN openCases \cup {caseCount}
    BY <2>1, <2>2, <2>3, <2>4 DEF IsPartialFunction, Insert
  <2>6. caseCount \notin DOMAIN ripeCases \cup DOMAIN doneCases
    BY <2>1 DEF CaseInv, IsPartialFunction
  <2> QED BY <2>1, <2>3, <2>4, <2>5, <2>6 DEF CaseInv
<1>3. ASSUME NEW c \in Cases, NEW v \in Voters, NEW j \in Opinions, vote(v, c, j)
      PROVE  CaseInv'
  <2>1. c \in DOMAIN openCases /\ openCases[c].tally \in [Judgements -> Int]
    BY <1>3 DEF vote, CaseInv, IsPartialFunction, OpenCase
  <2> DEFINE t == Discounted(openCases[c].tally, v, c)
  <2>2. t \in [Judgements -> Int]
    BY <2>1, DiscountedType
  <2> HIDE DEF t
  <2>3. [t EXCEPT ![j] = @ + 1] \in [Judgements -> Int]
    BY <2>2, MobRuleAssumption
  <2>4. /\ RipenOrReturn(c, [t EXCEPT ![j] = @ + 1], openCases[c].age)
        /\ UNCHANGED <<doneCases, caseCount, called>>
    BY <1>3 DEF vote, t
  <2> QED BY <2>1, <2>3, <2>4, RipenOrReturnInv
<1>4. ASSUME NEW c \in Cases, touch_case(c)
      PROVE  CaseInv'
  <2>1. c \in DOMAIN openCases /\ openCases[c].tally \in [Judgements -> Int]
    BY <1>4 DEF touch_case, CaseInv, IsPartialFunction, OpenCase
  <2> QED BY <1>4, <2>1, RipenOrReturnInv DEF touch_case
<1>5. ASSUME NEW c \in Cases, force_ripen_case(c)
      PROVE  CaseInv'
  <2>1. /\ c \in DOMAIN openCases
        /\ openCases' = Without(openCases, c)
        /\ ripeCases' = Insert(ripeCases, c, Verdict(openCases[c].tally))
        /\ UNCHANGED <<doneCases, caseCount, called>>
    BY <1>5 DEF force_ripen_case, validate_timeout_case
  <2>2. c \in 0..(caseCount - 1)
    BY <2>1 DEF CaseInv, IsPartialFunction
  <2>3. IsPartialFunction(openCases', 0..(caseCount - 1), OpenCase)
        /\ DOMAIN openCases' = DOMAIN openCases \ {c}
    BY <2>1 DEF CaseInv, IsPartialFunction, Without
  <2>4. IsPartialFunction(ripeCases', 0..(caseCount - 1), Judgements)
        /\ DOMAIN ripeCases' = DOMAIN ripeCases \cup {c}
    BY <2>1, <2>2, VerdictType DEF CaseInv, IsPartialFunction, Insert
  <2> QED BY <2>1, <2>3, <2>4 DEF CaseInv
<1>6. ASSUME NEW c \in Cases, close_case(c)
      PROVE  CaseInv'
  <2>1. /\ c \in DOMAIN ripeCases
        /\ ripeCases' = Without(ripeCases, c)
        /\ doneCases' = Insert(doneCases, c, [age |-> 0, verdict |-> ripeCases[c]])
        /\ called' = called + 1 /\ UNCHANGED <<openCases, caseCount>>
    BY <1>6 DEF close_case, CallBackAndFinish
  <2>2. c \in 0..(caseCount - 1) /\ [age |-> 0, verdict |-> ripeCases[c]] \in DoneCase
    BY <2>1 DEF CaseInv, IsPartialFunction, DoneCase
  <2>3. IsPartialFunction(ripeCases', 0..(caseCount - 1), Judgements)
        /\ DOMAIN ripeCases' = DOMAIN ripeCases \ {c}
    BY <2>1 DEF CaseInv, IsPartialFunction, Without
  <2>4. IsPartialFunction(doneCases', 0..(caseCount - 1), DoneCase)
        /\ DOMAIN doneCases' = DOMAIN doneCases \cup {c}
    BY <2>1, <2>2 DEF CaseInv, IsPartialFunction, Insert
  <2> QED BY <2>1, <2>3, <2>4 DEF CaseInv
<1>7. ASSUME NEW c \in Cases, NEW j \in Opinions, intervene(c, j)
      PROVE  CaseInv'
  <2>1. /\ c \in DOMAIN openCases
        /\ openCases' = Without(openCases, c)
        /\ doneCases' = Insert(doneCases, c, [age |-> 0, verdict |-> j])
        /\ called' = called + 1 /\ UNCHANGED <<ripeCases, caseCount>>
    BY <1>7 DEF intervene, CallBackAndFinish
  <2>2. c \in 0..(caseCount - 1) /\ [age |-> 0, verdict |-> j] \in DoneCase
    BY <2>1, MobRuleAssumption DEF CaseInv, IsPartialFunction, DoneCase
  <2>3. IsPartialFunction(openCases', 0..(caseCount - 1), OpenCase)
        /\ DOMAIN openCases' = DOMAIN openCases \ {c}
    BY <2>1 DEF CaseInv, IsPartialFunction, Without
  <2>4. IsPartialFunction(doneCases', 0..(caseCount - 1), DoneCase)
        /\ DOMAIN doneCases' = DOMAIN doneCases \cup {c}
    BY <2>1, <2>2 DEF CaseInv, IsPartialFunction, Insert
  <2> QED BY <2>1, <2>3, <2>4 DEF CaseInv
<1>8. ASSUME NEW c \in Cases, reap_case(c)
      PROVE  CaseInv'
  <2>1. /\ doneCases' = Without(doneCases, c)
        /\ UNCHANGED <<openCases, ripeCases, caseCount, called>>
    BY <1>8 DEF reap_case
  <2>2. IsPartialFunction(doneCases', 0..(caseCount - 1), DoneCase)
        /\ DOMAIN doneCases' = DOMAIN doneCases \ {c}
    BY <2>1 DEF CaseInv, IsPartialFunction, Without
  <2> QED BY <2>1, <2>2 DEF CaseInv
<1>9. CASE tick
  <2>1. /\ openCases' = [c \in DOMAIN openCases |->
                           [openCases[c] EXCEPT !.age = Older(@, OpenHorizon)]]
        /\ doneCases' = [c \in DOMAIN doneCases |->
                           [doneCases[c] EXCEPT !.age = Older(@, DoneHorizon)]]
        /\ UNCHANGED <<ripeCases, caseCount, called>>
    BY <1>9 DEF tick
  <2>2. \A c \in DOMAIN openCases : openCases'[c] \in OpenCase
    <3> SUFFICES ASSUME NEW c \in DOMAIN openCases PROVE openCases'[c] \in OpenCase
      OBVIOUS
    <3>1. openCases[c] \in OpenCase
      BY DEF CaseInv, IsPartialFunction
    <3>2. Older(openCases[c].age, OpenHorizon) \in Nat
      BY <3>1, OlderType, HorizonTypes DEF OpenCase
    <3>3. openCases'[c] = [openCases[c] EXCEPT !.age = Older(openCases[c].age, OpenHorizon)]
      BY <2>1
    <3> QED BY <3>1, <3>2, <3>3 DEF OpenCase
  <2>3. \A c \in DOMAIN doneCases : doneCases'[c] \in DoneCase
    <3> SUFFICES ASSUME NEW c \in DOMAIN doneCases PROVE doneCases'[c] \in DoneCase
      OBVIOUS
    <3>1. doneCases[c] \in DoneCase
      BY DEF CaseInv, IsPartialFunction
    <3>2. Older(doneCases[c].age, DoneHorizon) \in Nat
      BY <3>1, OlderType, HorizonTypes DEF DoneCase
    <3>3. doneCases'[c] = [doneCases[c] EXCEPT !.age = Older(doneCases[c].age, DoneHorizon)]
      BY <2>1
    <3> QED BY <3>1, <3>2, <3>3 DEF DoneCase
  <2>4. /\ DOMAIN openCases' = DOMAIN openCases /\ DOMAIN doneCases' = DOMAIN doneCases
        /\ openCases' \in [DOMAIN openCases -> OpenCase]
        /\ doneCases' \in [DOMAIN doneCases -> DoneCase]
    BY <2>1, <2>2, <2>3
  <2> QED BY <2>1, <2>4 DEF CaseInv, IsPartialFunction
<1> QED
  <2>1. CASE UNCHANGED mobVars
    BY <1>1, <2>1 DEF mobVars
  <2>2. CASE Voting
    BY <1>2, <1>3, <1>4, <1>5, <1>6, <1>7, <1>8, <2>2 DEF Voting
  <2>3. CASE Cleaning \/ Paying \/ do_on_poll \/ \E n \in ActiveCounts : people_change(n)
    BY <1>1, <2>3, CasesUntouched
  <2> QED BY <1>9, <2>1, <2>2, <2>3 DEF Next

\* At every moment a case index is in at most one of the three maps.
THEOREM CasesDisjoint == Spec => []CaseInv
BY CaseInit, CaseStep, PTL DEF Spec

-----------------------------------------------------------------------------
(* The refinement: pending tickets are the open and the ripe cases.        *)

\* The cases that were not answered yet, as the oracle sees them.
Pending == DOMAIN openCases \cup DOMAIN ripeCases

\* Only judge_statement, close_case and intervene change what the oracle shows.
LEMMA OracleStep ==
  CaseInv /\ [Next]_mobVars => [Oracle!OracleNext]_(Oracle!oracleVars)
<1> SUFFICES ASSUME CaseInv, [Next]_mobVars
             PROVE  [Oracle!OracleNext]_(Oracle!oracleVars)
  OBVIOUS
<1>1. ASSUME UNCHANGED <<caseCount, called>>, Pending' = Pending
      PROVE  UNCHANGED Oracle!oracleVars
  BY <1>1 DEF Pending, Oracle!oracleVars
<1>2. ASSUME NEW c \in Pending, called' = called + 1, UNCHANGED caseCount,
             Pending' = Pending \ {c}
      PROVE  Oracle!OracleNext
  <2>1. "True" \in Oracle!Judgements
    BY DEF Oracle!Judgements
  <2>2. Oracle!callback(c, "True")
    BY <1>2, <2>1 DEF Oracle!callback, Pending
  <2> QED BY <1>2, <2>1, <2>2 DEF Oracle!OracleNext, Pending
<1>3. CASE judge_statement
  <2>1. openCases' = Insert(openCases, caseCount, [age |-> 0, tally |-> EmptyTally])
        /\ UNCHANGED <<ripeCases, called>>
    BY <1>3 DEF judge_statement
  <2>2. Pending' = Pending \cup {caseCount}
    BY <2>1 DEF Pending, Insert
  <2>3. Oracle!judge_statement
    BY <1>3, <2>1, <2>2 DEF judge_statement, Oracle!judge_statement, Pending
  <2> QED BY <2>3 DEF Oracle!OracleNext
<1>4. ASSUME NEW c \in Cases, NEW v \in Voters, NEW j \in Opinions, vote(v, c, j)
      PROVE  UNCHANGED Oracle!oracleVars
  <2>1. c \in DOMAIN openCases /\ openCases[c].tally \in [Judgements -> Int]
    BY <1>4 DEF vote, CaseInv, IsPartialFunction, OpenCase
  <2> DEFINE t == Discounted(openCases[c].tally, v, c)
  <2>2. t \in [Judgements -> Int]
    BY <2>1, DiscountedType
  <2> HIDE DEF t
  <2>3. [t EXCEPT ![j] = @ + 1] \in [Judgements -> Int]
    BY <2>2, MobRuleAssumption
  <2>4. /\ RipenOrReturn(c, [t EXCEPT ![j] = @ + 1], openCases[c].age)
        /\ UNCHANGED <<doneCases, caseCount, called>>
    BY <1>4 DEF vote, t
  <2>5. Pending' = Pending
    BY <2>1, <2>3, <2>4, RipenOrReturnInv DEF Pending
  <2> QED BY <1>1, <2>4, <2>5
<1>5. ASSUME NEW c \in Cases, touch_case(c)
      PROVE  UNCHANGED Oracle!oracleVars
  <2>1. /\ c \in DOMAIN openCases /\ openCases[c].tally \in [Judgements -> Int]
        /\ RipenOrReturn(c, openCases[c].tally, openCases[c].age)
        /\ UNCHANGED <<doneCases, caseCount, called>>
    BY <1>5 DEF touch_case, CaseInv, IsPartialFunction, OpenCase
  <2>2. Pending' = Pending
    BY <2>1, RipenOrReturnInv DEF Pending
  <2> QED BY <1>1, <2>1, <2>2
<1>6. ASSUME NEW c \in Cases, force_ripen_case(c)
      PROVE  UNCHANGED Oracle!oracleVars
  <2>1. /\ c \in DOMAIN openCases /\ UNCHANGED <<caseCount, called>>
        /\ openCases' = Without(openCases, c)
        /\ ripeCases' = Insert(ripeCases, c, Verdict(openCases[c].tally))
    BY <1>6 DEF force_ripen_case, validate_timeout_case
  <2>2. Pending' = Pending
    BY <2>1 DEF Pending, Insert, Without
  <2> QED BY <1>1, <2>1, <2>2
<1>7. ASSUME NEW c \in Cases, close_case(c)
      PROVE  Oracle!OracleNext
  <2>1. /\ c \in DOMAIN ripeCases /\ ripeCases' = Without(ripeCases, c)
        /\ called' = called + 1 /\ UNCHANGED <<openCases, caseCount>>
    BY <1>7 DEF close_case, CallBackAndFinish
  <2>2. c \notin DOMAIN openCases
    BY <2>1 DEF CaseInv
  <2>3. c \in Pending /\ Pending' = Pending \ {c}
    BY <2>1, <2>2 DEF Pending, Without
  <2> QED BY <1>2, <2>1, <2>3
<1>8. ASSUME NEW c \in Cases, NEW j \in Opinions, intervene(c, j)
      PROVE  Oracle!OracleNext
  <2>1. /\ c \in DOMAIN openCases /\ openCases' = Without(openCases, c)
        /\ called' = called + 1 /\ UNCHANGED <<ripeCases, caseCount>>
    BY <1>8 DEF intervene, CallBackAndFinish
  <2>2. c \notin DOMAIN ripeCases
    BY <2>1 DEF CaseInv
  <2>3. c \in Pending /\ Pending' = Pending \ {c}
    BY <2>1, <2>2 DEF Pending, Without
  <2> QED BY <1>2, <2>1, <2>3
<1>9. ASSUME UNCHANGED <<openCases, ripeCases, caseCount, called>>
      PROVE  UNCHANGED Oracle!oracleVars
  BY <1>1, <1>9 DEF Pending
<1>10. ASSUME NEW c \in Cases, reap_case(c)
       PROVE  UNCHANGED Oracle!oracleVars
  BY <1>9, <1>10 DEF reap_case
<1>11. CASE tick
  <2>1. /\ openCases' = [c \in DOMAIN openCases |->
                           [openCases[c] EXCEPT !.age = Older(@, OpenHorizon)]]
        /\ UNCHANGED <<ripeCases, caseCount, called>>
    BY <1>11 DEF tick
  <2>2. Pending' = Pending
    BY <2>1 DEF Pending
  <2> QED BY <1>1, <2>1, <2>2
<1>12. CASE UNCHANGED caseVars
  BY <1>9, <1>12 DEF caseVars
<1> QED
  <2>1. CASE UNCHANGED mobVars
    BY <1>12, <2>1 DEF mobVars
  <2>2. CASE Voting
    BY <1>3, <1>4, <1>5, <1>6, <1>7, <1>8, <1>10, <2>2 DEF Voting
  <2>3. CASE Cleaning \/ Paying \/ do_on_poll \/ \E n \in ActiveCounts : people_change(n)
    BY <1>12, <2>3, CasesUntouched
  <2> QED BY <1>11, <2>1, <2>2, <2>3 DEF Next

\* MobRule implements the oracle that proof-of-ink and every other caller of
\* `judge_statement` relies on: whichever way a case leaves `OpenCases` (votes,
\* touch_case, timeout or intervention), its owner is called back at most once.
THEOREM MobRuleImplementsOracle == Spec => ImplementsOracle
<1>1. Init => Oracle!OracleInit
  BY DEF Init, Oracle!OracleInit
<1> QED BY <1>1, CaseInit, CaseStep, OracleStep, PTL
        DEF Spec, ImplementsOracle, Oracle!OracleSpec

\* Every case that was opened was called back once or is still open or ripe.
AnsweredOnce == called + Cardinality(Pending) = caseCount

\* No statement given to judge_statement is dropped without its callback and
\* none is called back twice, however force_ripen_case, touch_case, vote,
\* close_case, intervene and reap_case follow each other.
THEOREM CasesAnsweredOnce == Spec => []AnsweredOnce
<1>1. CaseInv => IsFiniteSet(Pending) /\ Cardinality(Pending) \in Nat
  <2> SUFFICES ASSUME CaseInv
               PROVE  IsFiniteSet(Pending) /\ Cardinality(Pending) \in Nat
    OBVIOUS
  <2>1. PICK last \in Int : last = caseCount - 1
    BY DEF CaseInv
  <2>2. Pending \subseteq 0..last
    BY <2>1 DEF CaseInv, IsPartialFunction, Pending
  <2>3. IsFiniteSet(0..last)
    BY FS_Interval
  <2>4. IsFiniteSet(Pending)
    BY <2>2, <2>3, FS_Subset
  <2> QED BY <2>4, FS_CardinalityType
<1>2. Init => AnsweredOnce
  <2> SUFFICES ASSUME Init PROVE AnsweredOnce
    OBVIOUS
  <2>1. Pending = {} /\ called = 0 /\ caseCount = 0
    BY DEF Init, Pending
  <2> QED BY <2>1, FS_EmptySet DEF AnsweredOnce
<1>3. CaseInv /\ AnsweredOnce /\ [Next]_mobVars => AnsweredOnce'
  <2> SUFFICES ASSUME CaseInv, AnsweredOnce, [Next]_mobVars PROVE AnsweredOnce'
    OBVIOUS
  <2>1. IsFiniteSet(Pending) /\ Cardinality(Pending) \in Nat
        /\ called \in Nat /\ caseCount \in Nat /\ caseCount \notin Pending
    BY <1>1 DEF CaseInv, IsPartialFunction, Pending
  <2>2. CASE Oracle!judge_statement
    <3>1. /\ caseCount' = caseCount + 1 /\ called' = called
          /\ Pending' = Pending \cup {caseCount}
      BY <2>2 DEF Oracle!judge_statement, Pending
    <3>2. Cardinality(Pending \cup {caseCount}) = Cardinality(Pending) + 1
      BY <2>1, FS_AddElement
    <3> QED BY <2>1, <3>1, <3>2 DEF AnsweredOnce
  <2>3. ASSUME NEW c \in Pending, NEW j, Oracle!callback(c, j)
        PROVE  AnsweredOnce'
    <3>1. /\ caseCount' = caseCount /\ called' = called + 1
          /\ Pending' = Pending \ {c}
      BY <2>3 DEF Oracle!callback, Pending
    <3>2. Cardinality(Pending \ {c}) = Cardinality(Pending) - 1
      BY <2>1, FS_RemoveElement
    <3> QED BY <2>1, <3>1, <3>2 DEF AnsweredOnce
  <2>4. CASE UNCHANGED Oracle!oracleVars
    BY <2>4 DEF Oracle!oracleVars, Pending, AnsweredOnce
  <2> QED BY <2>2, <2>3, <2>4, OracleStep DEF Oracle!OracleNext, Pending
<1> QED BY <1>2, <1>3, CaseInit, CaseStep, PTL DEF Spec

-----------------------------------------------------------------------------
(* Points, credits and funds: types.                                       *)

\* The records of voters, schedules and rounds, and the pot.
Credit == [voted : Nat, cleaned : Nat, correct : Nat, credit : Nat]
Schedule == [remaining : Nat, amount_per_round : Nat, period : Nat]
Distribution == [round : Nat, initial_balance : Nat, remaining_balance : Nat,
                 total_points : Nat \ {0}, age : Nat]
Pot == [free : Nat, payout : Nat, credit : Nat]

\* Nobody holds points of a round after the coming one.
RewardTypes ==
  /\ credits \in [Voters -> Credit]
  /\ IsPartialFunction(votingPoints, (0..PointsRound) \X Voters, Nat)
  /\ accumulatedPoints \in Nat
  /\ payoutDistribution = NoDistribution \/ payoutDistribution \in Distribution
  /\ roundSchedules \in Seq(Schedule)
  /\ pot \in Pot /\ paid \in Nat /\ unbacked \in Nat

\* The round before the first is -1.
LEMMA RoundTypes ==
  ASSUME payoutDistribution = NoDistribution \/ payoutDistribution \in Distribution
  PROVE  /\ PointsRound \in Nat
         /\ payoutDistribution.round \in Int
         /\ payoutDistribution.round < PointsRound
         /\ payoutDistribution.remaining_balance \in Nat
         /\ payoutDistribution # NoDistribution => payoutDistribution \in Distribution
BY DEF PointsRound, NoDistribution, Distribution

\* A map with default 0 returns naturals.
LEMMA GetType ==
  ASSUME NEW f, NEW S, IsPartialFunction(f, S, Nat), NEW k
  PROVE  Get(f, k) \in Nat
BY DEF Get, IsPartialFunction

\* Cases are finitely many.
LEMMA CasesFinite == \A cs \in SUBSET Cases : IsFiniteSet(cs) /\ Cardinality(cs) \in Nat
<1>1. PICK last \in Int : last = MaxCases - 1
  BY MobRuleAssumption
<1>2. IsFiniteSet(0..last)
  BY FS_Interval
<1>3. IsFiniteSet(Cases)
  BY <1>1, <1>2 DEF Cases
<1> QED BY <1>3, FS_Subset, FS_CardinalityType

\* A claimed share is a natural.
LEMMA ClaimableType ==
  ASSUME NEW points \in Nat, NEW d \in Distribution
  PROVE  Claimable(points, d) \in Nat
<1>1. d.total_points \in Nat \ {0} /\ d.initial_balance \in Nat /\ Accuracy \in Nat \ {0}
  BY MobRuleAssumption DEF Distribution
<1>2. points * Accuracy \in Nat
  BY <1>1
<1>3. (points * Accuracy) \div d.total_points \in Nat
  BY <1>1, <1>2
<1>4. ((points * Accuracy) \div d.total_points) * d.initial_balance \in Nat
  BY <1>1, <1>3
<1> QED BY <1>1, <1>4 DEF Claimable

\* The horizon of payout periods is a natural.
LEMMA PeriodHorizonType == PeriodHorizon \in Nat
<1> DEFINE P == {s.period : s \in Schedules}
           f == [s \in Schedules |-> s.period]
<1>1. f \in Surjection(Schedules, P)
  BY DEF Surjection
<1>2. IsFiniteSet(P)
  <2> HIDE DEF P, f
  <2> QED BY <1>1, FS_Surjection, MobRuleAssumption
<1>3. P \subseteq Nat
  BY MobRuleAssumption
<1>4. IsFiniteSet(P \cup {0}) /\ P \cup {0} # {} /\ P \cup {0} \in SUBSET Int
  BY <1>2, <1>3, FS_AddElement
<1>5. Max(P \cup {0}) \in P \cup {0}
  <2> HIDE DEF P
  <2> QED BY <1>4, MaxExists
<1> QED BY <1>3, <1>5 DEF PeriodHorizon

\* Nothing is promised in the beginning.
LEMMA RewardInit == Init => RewardTypes
<1> SUFFICES ASSUME Init PROVE RewardTypes
  OBVIOUS
<1>1. credits \in [Voters -> Credit]
  BY DEF Init, Credit
<1>2. IsPartialFunction(votingPoints, (0..PointsRound) \X Voters, Nat)
  BY EmptyMapType DEF Init
<1>3. /\ accumulatedPoints \in Nat /\ payoutDistribution = NoDistribution /\ paid \in Nat
      /\ pot \in Pot /\ unbacked \in Nat
  BY MobRuleAssumption DEF Init, Pot
<1>4. roundSchedules \in Seq(Schedule)
  BY DEF Init
<1> QED BY <1>1, <1>2, <1>3, <1>4 DEF RewardTypes

\* What is left of a sequence when one element is taken out.
LEMMA RemoveAtFacts ==
  ASSUME NEW S, NEW s \in Seq(S), NEW i \in 1..Len(s)
  PROVE  /\ RemoveAt(s, i) \in Seq(S)
         /\ Len(RemoveAt(s, i)) = Len(s) - 1
         /\ \A j \in 1..(Len(s) - 1) :
              RemoveAt(s, i)[j] = IF j < i THEN s[j] ELSE s[j + 1]
<1> DEFINE a == SubSeq(s, 1, i - 1)
           b == SubSeq(s, i + 1, Len(s))
<1>1. Len(s) \in Nat /\ \A j \in 1..Len(s) : s[j] \in S
  BY ElementOfSeq, LenProperties
<1>2. /\ a \in Seq(S) /\ Len(a) = i - 1
      /\ \A j \in 1..(i - 1) : a[j] = s[j]
  <2>1. \A j \in 1..(i - 1) : s[j] \in S
    BY <1>1
  <2>2. /\ a \in Seq(S)
        /\ Len(a) = IF 1 <= i - 1 THEN (i - 1) - 1 + 1 ELSE 0
        /\ \A j \in 1..((i - 1) - 1 + 1) : a[j] = s[1 + j - 1]
    BY <2>1, SubSeqProperties
  <2> QED BY <1>1, <2>2
<1>3. /\ b \in Seq(S) /\ Len(b) = Len(s) - i
      /\ \A j \in 1..(Len(s) - i) : b[j] = s[i + j]
  <2>1. \A j \in (i + 1)..Len(s) : s[j] \in S
    BY <1>1
  <2>2. /\ b \in Seq(S)
        /\ Len(b) = IF i + 1 <= Len(s) THEN Len(s) - (i + 1) + 1 ELSE 0
        /\ \A j \in 1..(Len(s) - (i + 1) + 1) : b[j] = s[(i + 1) + j - 1]
    BY <1>1, <2>1, SubSeqProperties
  <2> QED BY <1>1, <2>2
<1>4. RemoveAt(s, i) = a \o b
  BY DEF RemoveAt
<1> HIDE DEF a, b
<1>5. /\ a \o b \in Seq(S)
      /\ Len(a \o b) = Len(a) + Len(b)
      /\ \A j \in 1..(Len(a) + Len(b)) :
           (a \o b)[j] = IF j <= Len(a) THEN a[j] ELSE b[j - Len(a)]
  BY <1>2, <1>3, ConcatProperties
<1>6. Len(a) + Len(b) = Len(s) - 1
  BY <1>1, <1>2, <1>3
<1>7. ASSUME NEW j \in 1..(Len(s) - 1)
      PROVE  (a \o b)[j] = IF j < i THEN s[j] ELSE s[j + 1]
  <2>1. CASE j < i
    BY <1>1, <1>2, <1>5, <1>6, <2>1
  <2>2. CASE ~(j < i)
    <3>1. (a \o b)[j] = b[j - (i - 1)] /\ j - (i - 1) \in 1..(Len(s) - i)
      BY <1>1, <1>2, <1>5, <1>6, <2>2
    <3>2. b[j - (i - 1)] = s[i + (j - (i - 1))] /\ i + (j - (i - 1)) = j + 1
      BY <1>1, <1>3, <3>1
    <3> QED BY <2>2, <3>1, <3>2
  <2> QED BY <2>1, <2>2
<1> QED BY <1>4, <1>5, <1>6, <1>7

\* Voting, claiming and cleaning keep a voter's record well typed.
LEMMA CreditType ==
  ASSUME NEW r \in Credit, NEW m \in Nat, NEW n \in Nat
  PROVE  /\ [r EXCEPT !.voted = @ + n] \in Credit
         /\ [r EXCEPT !.cleaned = @ + m, !.correct = @ + n] \in Credit
         /\ [r EXCEPT !.credit = n] \in Credit
<1>1. /\ r.voted + n \in Nat /\ r.cleaned + m \in Nat /\ r.correct + n \in Nat
  BY DEF Credit
<1>2. [r EXCEPT !.voted = r.voted + n] \in Credit
  BY <1>1 DEF Credit
<1>3. [r EXCEPT !.cleaned = r.cleaned + m, !.correct = r.correct + n] \in Credit
  BY <1>1 DEF Credit
<1>4. [r EXCEPT !.credit = n] \in Credit
  BY DEF Credit
<1> QED BY <1>2, <1>3, <1>4

\* Replacing the record of one voter leaves those of the others alone.
LEMMA CreditUpdate ==
  ASSUME credits \in [Voters -> Credit], NEW v \in Voters, NEW r \in Credit,
         credits' = [credits EXCEPT ![v] = r]
  PROVE  /\ credits' \in [Voters -> Credit] /\ credits'[v] = r
         /\ \A w \in Voters \ {v} : credits'[w] = credits[w]
OBVIOUS

\* What each operation on votes does to the record of its voter.
LEMMA VoteEffect ==
  ASSUME RewardTypes, NEW v \in Voters, NEW c, NEW j, vote(v, c, j)
  PROVE  /\ credits' \in [Voters -> Credit]
         /\ credits'[v] = IF <<c, v>> \in DOMAIN votes THEN credits[v]
                          ELSE [credits[v] EXCEPT !.voted = @ + 1]
         /\ \A w \in Voters \ {v} : credits'[w] = credits[w]
<1> DEFINE r == [credits[v] EXCEPT !.voted = @ + 1]
<1>1. credits \in [Voters -> Credit] /\ r \in Credit
  BY CreditType DEF RewardTypes
<1>2. credits' = IF <<c, v>> \in DOMAIN votes THEN credits
                 ELSE [credits EXCEPT ![v] = r]
  BY DEF vote
<1> HIDE DEF r
<1>3. CASE <<c, v>> \in DOMAIN votes
  BY <1>1, <1>2, <1>3
<1>4. CASE <<c, v>> \notin DOMAIN votes
  <2>1. credits' = [credits EXCEPT ![v] = r]
    BY <1>2, <1>4
  <2> QED BY <1>1, <1>4, <2>1, CreditUpdate DEF r
<1> QED BY <1>3, <1>4

\* A claim cleans the votes it names and earns a point for each that was right.
LEMMA ClaimEffect ==
  ASSUME RewardTypes, NEW v \in Voters, NEW cs \in SUBSET Cases,
         do_claim_votes(v, cs)
  PROVE  \E points \in 0..Cardinality(cs) :
           /\ credits' \in [Voters -> Credit]
           /\ credits'[v] = [credits[v] EXCEPT !.cleaned = @ + Cardinality(cs),
                                               !.correct = @ + points]
           /\ \A w \in Voters \ {v} : credits'[w] = credits[w]
           /\ votingPoints' = Insert(votingPoints, <<PointsRound, v>>,
                                     Get(votingPoints, <<PointsRound, v>>) + points)
           /\ accumulatedPoints' = accumulatedPoints + points
<1> DEFINE correct == {c \in cs : Agrees(doneCases[c].verdict, v, c)}
           points == Cardinality(correct)
           n == Cardinality(cs)
           r == [credits[v] EXCEPT !.cleaned = @ + n, !.correct = @ + points]
<1>1. points \in Nat /\ n \in Nat /\ points <= n
  <2>1. IsFiniteSet(cs) /\ n \in Nat
    BY CasesFinite
  <2>2. correct \in SUBSET cs /\ correct \in SUBSET Cases
    OBVIOUS
  <2> HIDE DEF correct
  <2> QED BY <2>1, <2>2, CasesFinite, FS_Subset
<1>2. /\ credits' = [credits EXCEPT ![v].cleaned = @ + n, ![v].correct = @ + points]
      /\ votingPoints' = Insert(votingPoints, <<PointsRound, v>>,
                                Get(votingPoints, <<PointsRound, v>>) + points)
      /\ accumulatedPoints' = accumulatedPoints + points
  BY DEF do_claim_votes
<1> HIDE DEF points, n, correct
<1>3. credits \in [Voters -> Credit] /\ r \in Credit
  BY <1>1, CreditType DEF RewardTypes
<1>4. credits' = [credits EXCEPT ![v] = r]
  BY <1>2, <1>3
<1> HIDE DEF r
<1>5. /\ credits' \in [Voters -> Credit] /\ credits'[v] = r
      /\ \A w \in Voters \ {v} : credits'[w] = credits[w]
  BY <1>3, <1>4, CreditUpdate
<1>6. points \in 0..n
  BY <1>1
<1> QED BY <1>2, <1>5, <1>6 DEF r, n

\* Cleaning by the worker takes one vote and earns at most one point.
LEMMA CleanEffect ==
  ASSUME RewardTypes, NEW v \in Voters, NEW c, clean_vote_inner(c, v)
  PROVE  \E points \in 0..1 :
           /\ credits' \in [Voters -> Credit]
           /\ credits'[v] = [credits[v] EXCEPT !.cleaned = @ + 1, !.correct = @ + points]
           /\ \A w \in Voters \ {v} : credits'[w] = credits[w]
<1> DEFINE agrees == c \in DOMAIN doneCases /\ Agrees(doneCases[c].verdict, v, c)
           points == IF agrees THEN 1 ELSE 0
           r == [credits[v] EXCEPT !.cleaned = @ + 1, !.correct = @ + points]
<1>1. credits' = [credits EXCEPT ![v].cleaned = @ + 1,
                                 ![v].correct = IF agrees THEN @ + 1 ELSE @]
  BY DEF clean_vote_inner
<1> HIDE DEF agrees
<1>2. points \in 0..1 /\ points \in Nat
  OBVIOUS
<1>3. credits \in [Voters -> Credit] /\ r \in Credit
  BY <1>2, CreditType DEF RewardTypes
<1>4. credits' = [credits EXCEPT ![v] = r]
  <2>1. credits[v].correct \in Int
    BY <1>3 DEF Credit
  <2>2. (IF agrees THEN credits[v].correct + 1 ELSE credits[v].correct)
          = credits[v].correct + points
    BY <2>1
  <2> HIDE DEF points
  <2> QED BY <1>1, <1>3, <2>2
<1> HIDE DEF r, points
<1>5. /\ credits' \in [Voters -> Credit] /\ credits'[v] = r
      /\ \A w \in Voters \ {v} : credits'[w] = credits[w]
  BY <1>3, <1>4, CreditUpdate
<1> QED BY <1>2, <1>5 DEF r

\* Funds moved between the free balance and the holds of the pot are neither
\* lost nor made: what schedule_payout_rounds holds,
LEMMA PotHolds ==
  ASSUME NEW p \in Pot, NEW n \in Nat, n <= p.free, NEW q,
         q = [p EXCEPT !.free = @ - n, !.payout = @ + n]
  PROVE  /\ q \in Pot
         /\ q.free = p.free - n /\ q.payout = p.payout + n /\ q.credit = p.credit
<1>1. p.free \in Nat /\ p.payout \in Nat /\ p.credit \in Nat
  BY DEF Pot
<1>2. /\ p.free + n \in Nat /\ p.payout + n \in Nat /\ p.credit + n \in Nat
      /\ p.free - n \in Nat
  BY <1>1
<1> QED BY <1>1, <1>2 DEF Pot

\* what remove_payout_schedule and start_payout_round release,
LEMMA PotReleases ==
  ASSUME NEW p \in Pot, NEW n \in Nat, n <= p.payout, NEW q,
         q = [p EXCEPT !.free = @ + n, !.payout = @ - n]
  PROVE  /\ q \in Pot
         /\ q.free = p.free + n /\ q.payout = p.payout - n /\ q.credit = p.credit
<1>1. p.free \in Nat /\ p.payout \in Nat /\ p.credit \in Nat
  BY DEF Pot
<1>2. /\ p.free + n \in Nat /\ p.payout + n \in Nat /\ p.credit + n \in Nat
      /\ p.payout - n \in Nat
  BY <1>1
<1> QED BY <1>1, <1>2 DEF Pot

\* what claim_credit turns into credit,
LEMMA PotCredits ==
  ASSUME NEW p \in Pot, NEW n \in Nat, n <= p.payout, NEW q,
         q = [p EXCEPT !.payout = @ - n, !.credit = @ + n]
  PROVE  /\ q \in Pot
         /\ q.free = p.free /\ q.payout = p.payout - n /\ q.credit = p.credit + n
<1>1. p.free \in Nat /\ p.payout \in Nat /\ p.credit \in Nat
  BY DEF Pot
<1>2. /\ p.free + n \in Nat /\ p.payout + n \in Nat /\ p.credit + n \in Nat
      /\ p.payout - n \in Nat
  BY <1>1
<1> QED BY <1>1, <1>2 DEF Pot

\* and what payout_rewards pays out.
LEMMA PotPays ==
  ASSUME NEW p \in Pot, NEW n \in Nat, n <= p.credit, NEW q,
         q = [p EXCEPT !.credit = @ - n]
  PROVE  /\ q \in Pot
         /\ q.free = p.free /\ q.payout = p.payout /\ q.credit = p.credit - n
<1>1. p.free \in Nat /\ p.payout \in Nat /\ p.credit \in Nat
  BY DEF Pot
<1>2. /\ p.free + n \in Nat /\ p.payout + n \in Nat /\ p.credit + n \in Nat
      /\ p.credit - n \in Nat
  BY <1>1
<1> QED BY <1>1, <1>2 DEF Pot

\* The balances of the pot are naturals.
LEMMA PotTypes ==
  ASSUME RewardTypes
  PROVE  pot \in Pot /\ pot.free \in Nat /\ pot.payout \in Nat /\ pot.credit \in Nat
BY DEF RewardTypes, Pot

\* A credit that is claimed moves from the payout hold to the voter.
LEMMA ClaimCreditEffect ==
  ASSUME RewardTypes, NEW v \in Voters, claim_credit(v)
  PROVE  /\ payoutDistribution \in Distribution
         /\ \E released \in Nat :
              /\ released = Released(pot.payout,
                   Claimable(Get(votingPoints, <<payoutDistribution.round, v>>),
                             payoutDistribution))
              /\ released <= pot.payout
              /\ payoutDistribution' = [payoutDistribution EXCEPT !.remaining_balance =
                   IF @ >= released THEN @ - released ELSE 0]
              /\ pot' = [pot EXCEPT !.payout = @ - released, !.credit = @ + released]
              /\ credits' = [credits EXCEPT ![v] =
                   [credits[v] EXCEPT !.credit = credits[v].credit + released]]
<1> DEFINE d == payoutDistribution
           points == Get(votingPoints, <<d.round, v>>)
           released == Released(pot.payout, Claimable(points, d))
<1>1. d \in Distribution
  BY RoundTypes DEF RewardTypes, claim_credit
<1>2. Claimable(points, d) \in Nat
  <2>1. points \in Nat
    BY GetType DEF RewardTypes
  <2> QED BY <1>1, <2>1, ClaimableType
<1>3. pot.payout \in Nat
  BY DEF RewardTypes, Pot
<1>4. released \in Nat /\ released <= pot.payout
  BY <1>2, <1>3, MinOfTwo DEF Released
<1>5. /\ payoutDistribution' = [d EXCEPT !.remaining_balance = Max({@ - released, 0})]
      /\ pot' = [pot EXCEPT !.payout = @ - released, !.credit = @ + released]
      /\ credits' = [credits EXCEPT ![v].credit = @ + released]
  BY DEF claim_credit
<1> HIDE DEF released, points
<1>6. Max({d.remaining_balance - released, 0})
        = IF d.remaining_balance >= released THEN d.remaining_balance - released ELSE 0
  <2>1. d.remaining_balance \in Nat
    BY <1>1 DEF Distribution
  <2>2. d.remaining_balance - released \in Int
    BY <1>4, <2>1
  <2> QED BY <1>4, <2>1, <2>2, MaxOfTwo
<1>7. credits' = [credits EXCEPT ![v] =
                    [credits[v] EXCEPT !.credit = credits[v].credit + released]]
  BY <1>5
<1> QED BY <1>1, <1>4, <1>5, <1>6, <1>7 DEF released, points

\* The head of the schedule list is a schedule.
LEMMA HeadSchedule ==
  ASSUME roundSchedules \in Seq(Schedule), roundSchedules # <<>>
  PROVE  /\ Len(roundSchedules) \in Nat \ {0}
         /\ Head(roundSchedules) = roundSchedules[1]
         /\ roundSchedules[1] \in Schedule
         /\ roundSchedules[1].remaining \in Nat
         /\ roundSchedules[1].amount_per_round \in Nat
<1>1. Len(roundSchedules) \in Nat \ {0}
  BY EmptySeq
<1>2. roundSchedules[1] \in Schedule
  BY <1>1, ElementOfSeq
<1> QED BY <1>1, <1>2 DEF Schedule

\* One round less, as the first schedule of the list records it.
OneRoundLess(s) ==
  IF s[1].remaining <= 1 THEN RemoveAt(s, 1)
  ELSE [s EXCEPT ![1] = [s[1] EXCEPT !.remaining = s[1].remaining - 1]]

\* The head of the list loses a round, or leaves with its last one.
LEMMA OneRoundLessType ==
  ASSUME roundSchedules \in Seq(Schedule), roundSchedules # <<>>
  PROVE  /\ OneRoundLess(roundSchedules) \in Seq(Schedule)
         /\ OneRoundLess(roundSchedules) =
              IF roundSchedules[1].remaining <= 1 THEN Tail(roundSchedules)
              ELSE [roundSchedules EXCEPT ![1].remaining = @ - 1]
<1> DEFINE s == roundSchedules
           r == [s[1] EXCEPT !.remaining = s[1].remaining - 1]
<1>1. Len(s) \in Nat \ {0} /\ s[1] \in Schedule /\ s[1].remaining \in Nat
  BY HeadSchedule
<1>2. CASE s[1].remaining <= 1
  <2>1. RemoveAt(s, 1) \in Seq(Schedule) /\ Len(RemoveAt(s, 1)) = Len(s) - 1
        /\ \A j \in 1..(Len(s) - 1) : RemoveAt(s, 1)[j] = IF j < 1 THEN s[j] ELSE s[j + 1]
    <3>1. 1 \in 1..Len(s)
      BY <1>1
    <3> HIDE DEF s
    <3> QED BY <3>1, RemoveAtFacts DEF s
  <2>2. Tail(s) \in Seq(Schedule) /\ Len(Tail(s)) = Len(s) - 1
        /\ \A j \in 1..Len(Tail(s)) : Tail(s)[j] = s[j + 1]
    BY HeadTailProperties
  <2>3. \A j \in 1..Len(Tail(s)) : Tail(s)[j] = RemoveAt(s, 1)[j]
    BY <1>1, <2>1, <2>2
  <2>4. Tail(s) = RemoveAt(s, 1)
    BY <2>1, <2>2, <2>3, SeqEqual
  <2> QED BY <1>2, <2>1, <2>4 DEF OneRoundLess
<1>3. CASE ~(s[1].remaining <= 1)
  <2>1. r \in Schedule
    BY <1>1, <1>3 DEF Schedule
  <2>2. [s EXCEPT ![1] = r] \in Seq(Schedule)
    <3> HIDE DEF r
    <3> QED BY <1>1, <2>1, ExceptSeq
  <2> QED BY <1>3, <2>2 DEF OneRoundLess
<1> QED BY <1>2, <1>3

\* Every operation keeps points, credits and funds typed.
LEMMA RewardStep == RewardTypes /\ [Next]_mobVars => RewardTypes'
<1> SUFFICES ASSUME RewardTypes, [Next]_mobVars PROVE RewardTypes'
  OBVIOUS
<1>1. ASSUME UNCHANGED <<credits, rewardVars>>
      PROVE  RewardTypes'
  BY <1>1 DEF RewardTypes, rewardVars, PointsRound
<1>2. ASSUME NEW v \in Voters, NEW c, NEW j, vote(v, c, j)
      PROVE  RewardTypes'
  <2>1. credits' \in [Voters -> Credit] /\ UNCHANGED rewardVars
    BY <1>2, VoteEffect DEF vote
  <2> QED BY <2>1 DEF RewardTypes, rewardVars, PointsRound
<1>3. ASSUME NEW v \in Voters, NEW cs \in SUBSET Cases, do_claim_votes(v, cs)
      PROVE  RewardTypes'
  <2>1. PICK points \in 0..Cardinality(cs) :
           /\ credits' \in [Voters -> Credit]
           /\ votingPoints' = Insert(votingPoints, <<PointsRound, v>>,
                                     Get(votingPoints, <<PointsRound, v>>) + points)
           /\ accumulatedPoints' = accumulatedPoints + points
    BY <1>3, ClaimEffect
  <2>2. points \in Nat
    BY CasesFinite
  <2>3. PointsRound \in Nat
    BY RoundTypes DEF RewardTypes
  <2>4. <<PointsRound, v>> \in (0..PointsRound) \X Voters
    BY <2>3
  <2>5. Get(votingPoints, <<PointsRound, v>>) + points \in Nat
    <3>1. Get(votingPoints, <<PointsRound, v>>) \in Nat
      BY GetType DEF RewardTypes
    <3> QED BY <2>2, <3>1
  <2>6. IsPartialFunction(votingPoints', (0..PointsRound) \X Voters, Nat)
    BY <2>1, <2>4, <2>5, InsertType DEF RewardTypes
  <2>7. UNCHANGED <<payoutDistribution, roundSchedules, pot, paid, unbacked>>
    BY <1>3 DEF do_claim_votes
  <2>8. accumulatedPoints' \in Nat
    BY <2>1, <2>2 DEF RewardTypes
  <2> QED BY <2>1, <2>6, <2>7, <2>8 DEF RewardTypes, PointsRound
<1>4. ASSUME NEW v \in Voters, NEW c, clean_vote_inner(c, v)
      PROVE  RewardTypes'
  <2>1. credits' \in [Voters -> Credit] /\ UNCHANGED rewardVars
    BY <1>4, CleanEffect DEF clean_vote_inner
  <2> QED BY <2>1 DEF RewardTypes, rewardVars, PointsRound
<1>5. ASSUME NEW s \in Schedules, schedule_payout_rounds(s)
      PROVE  RewardTypes'
  <2>1. s \in Schedule
    BY MobRuleAssumption DEF Schedule
  <2>2. roundSchedules' \in Seq(Schedule)
    BY <1>5, <2>1, AppendProperties DEF RewardTypes, schedule_payout_rounds
  <2>3. s.amount_per_round * s.remaining \in Nat
    BY <2>1 DEF Schedule
  <2>4. pot' \in Pot
    <3> DEFINE n == s.amount_per_round * s.remaining
    <3>1. n <= pot.free /\ pot' = [pot EXCEPT !.free = @ - n, !.payout = @ + n]
      BY <1>5, <2>3, PotTypes DEF RewardTypes, schedule_payout_rounds
    <3> HIDE DEF n
    <3>2. n \in Nat
      BY <2>3 DEF n
    <3> QED BY <3>1, <3>2, PotHolds DEF RewardTypes
  <2>5. UNCHANGED <<credits, votingPoints, accumulatedPoints, payoutDistribution, paid, unbacked>>
    BY <1>5 DEF schedule_payout_rounds, voterVars
  <2> QED BY <2>2, <2>4, <2>5 DEF RewardTypes, PointsRound
<1>6. ASSUME NEW i \in DOMAIN roundSchedules, remove_payout_schedule(i)
      PROVE  RewardTypes'
  <2> DEFINE s == roundSchedules[i]
             released == Released(pot.payout, s.amount_per_round * s.remaining)
  <2>1. i \in 1..Len(roundSchedules) /\ s \in Schedule
    BY ElementOfSeq, LenProperties DEF RewardTypes
  <2>2. roundSchedules' \in Seq(Schedule)
    BY <1>6, <2>1, RemoveAtFacts DEF RewardTypes, remove_payout_schedule
  <2>3. s.amount_per_round * s.remaining \in Nat /\ pot.payout \in Nat
    BY <2>1, PotTypes DEF Schedule
  <2>4. released \in Nat /\ released <= pot.payout
    BY <2>3, MinOfTwo DEF Released
  <2>5. /\ pot' = [pot EXCEPT !.free = @ + released, !.payout = @ - released]
        /\ UNCHANGED <<credits, votingPoints, accumulatedPoints, payoutDistribution, paid, unbacked>>
    BY <1>6 DEF remove_payout_schedule, voterVars
  <2> HIDE DEF released
  <2>6. pot' \in Pot
    BY <2>4, <2>5, PotReleases DEF RewardTypes
  <2> QED BY <2>2, <2>5, <2>6 DEF RewardTypes, PointsRound
<1>7. CASE start_payout_round
  <2> DEFINE d == payoutDistribution
             amount == roundSchedules[1].amount_per_round
  <2>1. /\ roundSchedules # <<>> /\ accumulatedPoints > 0
        /\ pot' = [pot EXCEPT !.free = @ + Leftover(d), !.payout = @ - Leftover(d)]
        /\ accumulatedPoints' = 0
        /\ UNCHANGED <<credits, votingPoints, paid>>
        /\ unbacked' \in {unbacked, unbacked + Head(roundSchedules).amount_per_round}
    BY <1>7 DEF start_payout_round, voterVars
  <2>2. /\ Head(roundSchedules) = roundSchedules[1] /\ amount \in Nat
    BY <2>1, HeadSchedule DEF RewardTypes
  <2>3. /\ payoutDistribution' = [round |-> d.round + 1, initial_balance |-> amount,
                                  remaining_balance |-> amount,
                                  total_points |-> accumulatedPoints, age |-> 0]
        /\ roundSchedules' = IF roundSchedules[1].remaining <= 1 THEN Tail(roundSchedules)
                             ELSE [roundSchedules EXCEPT ![1].remaining = @ - 1]
    BY <1>7, <2>2 DEF start_payout_round
  <2>4. roundSchedules' \in Seq(Schedule)
    BY <2>1, <2>3, OneRoundLessType DEF RewardTypes
  <2>5. PointsRound \in Nat /\ PointsRound = d.round + 1 /\ d.remaining_balance \in Nat
    BY RoundTypes DEF RewardTypes, PointsRound
  <2>6. payoutDistribution' \in Distribution
    BY <2>1, <2>2, <2>3, <2>5 DEF RewardTypes, Distribution
  <2>7. Leftover(d) \in Nat /\ Leftover(d) <= pot.payout
    BY <2>5, MinOfTwo, PotTypes DEF Leftover, Released
  <2>8. pot' \in Pot
    BY <2>1, <2>7, PotReleases DEF RewardTypes
  <2>9. PointsRound' = PointsRound + 1
    BY <2>3, <2>5 DEF PointsRound
  <2>10. (0..PointsRound) \X Voters \subseteq (0..PointsRound') \X Voters
    BY <2>5, <2>9
  <2>11. IsPartialFunction(votingPoints', (0..PointsRound') \X Voters, Nat)
    BY <2>1, <2>10 DEF RewardTypes, IsPartialFunction
  <2>12. unbacked' \in Nat
    BY <2>1, <2>2 DEF RewardTypes
  <2> QED BY <2>1, <2>4, <2>6, <2>8, <2>11, <2>12 DEF RewardTypes
<1>8. ASSUME NEW v \in Voters, claim_credit(v)
      PROVE  RewardTypes'
  <2>1. PICK released \in Nat :
              /\ released <= pot.payout
              /\ payoutDistribution' = [payoutDistribution EXCEPT !.remaining_balance =
                   IF @ >= released THEN @ - released ELSE 0]
              /\ pot' = [pot EXCEPT !.payout = @ - released, !.credit = @ + released]
              /\ credits' = [credits EXCEPT ![v] =
                   [credits[v] EXCEPT !.credit = credits[v].credit + released]]
    BY <1>8, ClaimCreditEffect
  <2>2. payoutDistribution \in Distribution
    BY <1>8, ClaimCreditEffect
  <2>3. payoutDistribution' \in Distribution
        /\ payoutDistribution'.round = payoutDistribution.round
    BY <2>1, <2>2 DEF Distribution
  <2>4. pot' \in Pot
    BY <2>1, PotCredits DEF RewardTypes
  <2>5. credits[v] \in Credit /\ credits \in [Voters -> Credit]
    BY DEF RewardTypes
  <2>6. credits[v].credit + released \in Nat
    BY <2>5 DEF Credit
  <2>7. [credits[v] EXCEPT !.credit = credits[v].credit + released] \in Credit
    BY <2>5, <2>6, CreditType
  <2>8. credits' \in [Voters -> Credit]
    BY <2>1, <2>5, <2>7, CreditUpdate
  <2>9. /\ votingPoints' = Without(votingPoints, <<payoutDistribution.round, v>>)
        /\ UNCHANGED <<accumulatedPoints, roundSchedules, paid, unbacked>>
    BY <1>8 DEF claim_credit, PointsTaken
  <2>10. IsPartialFunction(votingPoints', (0..PointsRound) \X Voters, Nat)
    BY <2>9, WithoutType DEF RewardTypes
  <2> QED BY <2>3, <2>4, <2>8, <2>9, <2>10 DEF RewardTypes, PointsRound
<1>9. ASSUME NEW v \in Voters, payout_rewards(v)
      PROVE  RewardTypes'
  <2>1. credits[v] \in Credit /\ credits \in [Voters -> Credit] /\ credits[v].credit \in Nat
    BY DEF RewardTypes, Credit
  <2>2. /\ pot.credit >= credits[v].credit
        /\ pot' = [pot EXCEPT !.credit = @ - credits[v].credit]
        /\ paid' = paid + credits[v].credit
        /\ credits' = [credits EXCEPT ![v] = [credits[v] EXCEPT !.credit = 0]]
        /\ UNCHANGED <<votingPoints, accumulatedPoints, payoutDistribution, roundSchedules,
                       unbacked>>
    BY <1>9 DEF payout_rewards
  <2>3. [credits[v] EXCEPT !.credit = 0] \in Credit
    BY <2>1, CreditType
  <2>4. credits' \in [Voters -> Credit]
    BY <2>1, <2>2, <2>3, CreditUpdate
  <2>5. pot' \in Pot /\ paid' \in Nat
    <3>1. credits[v].credit <= pot.credit /\ paid \in Nat
      BY <2>1, <2>2, PotTypes DEF RewardTypes
    <3>2. pot' \in Pot
      BY <2>1, <2>2, <3>1, PotTypes, PotPays
    <3> QED BY <2>1, <2>2, <3>1, <3>2
  <2> QED BY <2>2, <2>4, <2>5 DEF RewardTypes, PointsRound
<1>10. ASSUME NEW v \in Voters, NEW r, clean_points(r, v)
       PROVE  RewardTypes'
  <2>1. /\ votingPoints' = Without(votingPoints, <<r, v>>)
        /\ UNCHANGED <<credits, accumulatedPoints, payoutDistribution, roundSchedules,
                       pot, paid, unbacked>>
    BY <1>10 DEF clean_points, voterVars
  <2>2. IsPartialFunction(votingPoints', (0..PointsRound) \X Voters, Nat)
    BY <2>1, WithoutType DEF RewardTypes
  <2> QED BY <2>1, <2>2 DEF RewardTypes, PointsRound
<1>11. CASE tick
  <2>1. /\ UNCHANGED <<credits, votingPoints, accumulatedPoints, roundSchedules, pot, paid,
                       unbacked>>
        /\ payoutDistribution' =
             IF payoutDistribution = NoDistribution THEN NoDistribution
             ELSE [payoutDistribution EXCEPT !.age = Older(@, PeriodHorizon)]
    BY <1>11 DEF tick
  <2>2. CASE payoutDistribution = NoDistribution
    BY <2>1, <2>2 DEF RewardTypes, PointsRound
  <2>3. CASE payoutDistribution # NoDistribution
    <3>1. payoutDistribution \in Distribution
      BY <2>3 DEF RewardTypes
    <3>2. Older(payoutDistribution.age, PeriodHorizon) \in Nat
      BY <3>1, OlderType, PeriodHorizonType DEF Distribution
    <3>3. payoutDistribution' \in Distribution
          /\ payoutDistribution'.round = payoutDistribution.round
      BY <2>1, <2>3, <3>1, <3>2 DEF Distribution
    <3> QED BY <2>1, <3>3 DEF RewardTypes, PointsRound
  <2> QED BY <2>2, <2>3
<1>12. CASE UNCHANGED mobVars
  BY <1>1, <1>12 DEF mobVars, voterVars
<1>13. CASE Voting
  <2>1. \A c : touch_case(c) \/ force_ripen_case(c) \/ close_case(c) \/ reap_case(c)
               => UNCHANGED <<credits, rewardVars>>
    BY DEF touch_case, force_ripen_case, close_case, reap_case, voterVars
  <2>2. \A c, j : intervene(c, j) => UNCHANGED <<credits, rewardVars>>
    BY DEF intervene, voterVars
  <2>3. judge_statement => UNCHANGED <<credits, rewardVars>>
    BY DEF judge_statement, voterVars
  <2> QED BY <1>1, <1>2, <1>13, <2>1, <2>2, <2>3 DEF Voting
<1>14. CASE Cleaning
  <2>1. \A c \in Cases : {c} \in SUBSET Cases
    OBVIOUS
  <2>2. \A v : clear_voting_penalty(v) => UNCHANGED <<credits, rewardVars>>
    BY DEF clear_voting_penalty
  <2> QED BY <1>1, <1>3, <1>4, <1>14, <2>1, <2>2
          DEF Cleaning, claim_votes, claim_vote, clean_vote, clean_vote_signed
<1>15. CASE Paying
  BY <1>5, <1>6, <1>7, <1>8, <1>9, <1>10, <1>15 DEF Paying
<1>16. CASE do_on_poll \/ \E n \in ActiveCounts : people_change(n)
  BY <1>1, <1>16 DEF do_on_poll, people_change, voterVars
<1> QED BY <1>11, <1>12, <1>13, <1>14, <1>15, <1>16 DEF Next

-----------------------------------------------------------------------------
(* The tallies and the voters' records count the stored votes.             *)

\* The cases a voter has a stored vote on.
VotedOn(v) == {c \in Cases : <<c, v>> \in DOMAIN votes}

\* The first half of VotesCounted: open tallies count the stored votes.
TalliesExact ==
  \A c \in DOMAIN openCases, j \in Judgements :
    openCases[c].tally[j] = Cardinality(VotesFor(c, j))

\* The second half: votes not cleaned yet are exactly the stored ones.
RecordExact(v) ==
  /\ credits[v].voted - credits[v].cleaned = Cardinality(VotedOn(v))
  /\ credits[v].correct <= credits[v].cleaned

\* VotesCounted is inductive once votes are known to be on cases given out.
VotesInv ==
  /\ IsPartialFunction(votes, (0..(caseCount - 1)) \X Voters, Judgements)
  /\ TalliesExact
  /\ \A v \in Voters : RecordExact(v)

\* The invariant gives the property.
LEMMA VotesInvImplies == VotesInv => VotesCounted
BY DEF VotesInv, VotesCounted, TalliesExact, RecordExact, VotedOn

\* There are finitely many votes on a case and of a voter.
LEMMA VotesFinite ==
  /\ \A c, j : IsFiniteSet(VotesFor(c, j)) /\ Cardinality(VotesFor(c, j)) \in Nat
  /\ \A v : IsFiniteSet(VotedOn(v)) /\ Cardinality(VotedOn(v)) \in Nat
<1>1. \A c, j : VotesFor(c, j) \in SUBSET Voters
  BY DEF VotesFor
<1>2. \A S \in SUBSET Voters : IsFiniteSet(S) /\ Cardinality(S) \in Nat
  BY MobRuleAssumption, FS_Subset, FS_CardinalityType
<1>3. \A v : VotedOn(v) \in SUBSET Cases
  BY DEF VotedOn
<1> QED BY <1>1, <1>2, <1>3, CasesFinite

\* Nobody voted in the beginning.
LEMMA VotesInit == Init => VotesInv
<1> SUFFICES ASSUME Init PROVE VotesInv
  OBVIOUS
<1>1. votes = <<>> /\ openCases = <<>> /\ DOMAIN votes = {} /\ DOMAIN openCases = {}
  BY DEF Init
<1>2. IsPartialFunction(votes, (0..(caseCount - 1)) \X Voters, Judgements)
  BY <1>1, EmptyMapType
<1>3. \A v \in Voters : VotedOn(v) = {}
  BY <1>1 DEF VotedOn
<1>4. \A v \in Voters : credits[v].voted = 0 /\ credits[v].cleaned = 0
                        /\ credits[v].correct = 0
  BY DEF Init
<1>5. \A v \in Voters : Cardinality(VotedOn(v)) = 0
  BY <1>3, FS_EmptySet, Zenon
<1>6. \A v \in Voters : RecordExact(v)
  BY <1>4, <1>5 DEF RecordExact
<1> QED BY <1>1, <1>2, <1>6 DEF VotesInv, TalliesExact

\* A step that leaves votes, tallies and records alone.
LEMMA VotesSame ==
  ASSUME VotesInv, UNCHANGED <<votes, credits>>, caseCount \in Nat,
         caseCount' = caseCount \/ caseCount' = caseCount + 1,
         \A c \in DOMAIN openCases' : c \in DOMAIN openCases
                                     /\ openCases'[c].tally = openCases[c].tally
  PROVE  VotesInv'
<1>1. IsPartialFunction(votes, (0..(caseCount' - 1)) \X Voters, Judgements)
  BY DEF VotesInv, IsPartialFunction
<1>2. \A c, j : VotesFor(c, j)' = VotesFor(c, j)
  BY DEF VotesFor
<1>3. TalliesExact'
  BY <1>2 DEF VotesInv, TalliesExact
<1>4. \A v \in Voters : RecordExact(v)'
  BY DEF VotesInv, RecordExact, VotedOn
<1> QED BY <1>1, <1>3, <1>4 DEF VotesInv

\* A vote, first or changed, moves the voter to the set of that opinion.
LEMMA VoteMoves ==
  ASSUME NEW v \in Voters, NEW c, NEW opinion,
         votes' = Insert(votes, <<c, v>>, opinion)
  PROVE  /\ \A j : VotesFor(c, j)' = IF j = opinion THEN VotesFor(c, j) \cup {v}
                                     ELSE VotesFor(c, j) \ {v}
         /\ \A x, j : x # c => VotesFor(x, j)' = VotesFor(x, j)
         /\ VotedOn(v)' = VotedOn(v) \cup ({c} \cap Cases)
         /\ \A w \in Voters \ {v} : VotedOn(w)' = VotedOn(w)
<1>1. /\ DOMAIN votes' = DOMAIN votes \cup {<<c, v>>}
      /\ votes'[<<c, v>>] = opinion
      /\ \A x \in DOMAIN votes \ {<<c, v>>} : votes'[x] = votes[x]
  BY DEF Insert
<1>2. \A x, w : <<x, w>> = <<c, v>> <=> x = c /\ w = v
  OBVIOUS
<1>3. ASSUME NEW j
      PROVE  VotesFor(c, j)' = IF j = opinion THEN VotesFor(c, j) \cup {v}
                               ELSE VotesFor(c, j) \ {v}
  BY <1>1, <1>2 DEF VotesFor
<1>4. ASSUME NEW x, NEW j, x # c
      PROVE  VotesFor(x, j)' = VotesFor(x, j)
  BY <1>1, <1>2, <1>4 DEF VotesFor
<1>5. VotedOn(v)' = VotedOn(v) \cup ({c} \cap Cases)
  BY <1>1, <1>2 DEF VotedOn
<1>6. \A w \in Voters \ {v} : VotedOn(w)' = VotedOn(w)
  BY <1>1, <1>2 DEF VotedOn
<1> QED BY <1>3, <1>4, <1>5, <1>6

\* The tally kept by `vote` counts the votes after it.
LEMMA VoteTally ==
  ASSUME VotesInv, NEW v \in Voters, NEW c \in DOMAIN openCases,
         openCases[c].tally \in [Judgements -> Int], NEW opinion \in Judgements,
         votes' = Insert(votes, <<c, v>>, opinion), NEW j \in Judgements
  PROVE  [Discounted(openCases[c].tally, v, c) EXCEPT ![opinion] = @ + 1][j]
           = Cardinality(VotesFor(c, j)')
<1> DEFINE t == openCases[c].tally
           u == Discounted(t, v, c)
           has == <<c, v>> \in DOMAIN votes
<1>1. t[j] = Cardinality(VotesFor(c, j)) /\ t[j] \in Nat
  BY VotesFinite DEF VotesInv, TalliesExact
<1>2. v \in VotesFor(c, j) <=> has /\ votes[<<c, v>>] = j
  BY DEF VotesFor
<1>3. u \in [Judgements -> Int]
  BY DiscountedType
<1>4. u[j] = IF v \in VotesFor(c, j) THEN t[j] - 1 ELSE t[j]
  <2>1. CASE has
    <3>1. u = [t EXCEPT ![votes[<<c, v>>]] = @ - 1]
      BY <2>1 DEF Discounted
    <3> QED BY <1>2, <2>1, <3>1
  <2>2. CASE ~has
    BY <1>2, <2>2 DEF Discounted
  <2> QED BY <2>1, <2>2
<1> HIDE DEF u, t, has
<1>5. [u EXCEPT ![opinion] = @ + 1][j] = IF j = opinion THEN u[j] + 1 ELSE u[j]
  BY <1>3
<1>6. /\ Cardinality(VotesFor(c, j) \cup {v})
           = IF v \in VotesFor(c, j) THEN t[j] ELSE t[j] + 1
      /\ Cardinality(VotesFor(c, j) \ {v})
           = IF v \in VotesFor(c, j) THEN t[j] - 1 ELSE t[j]
  <2>1. IsFiniteSet(VotesFor(c, j))
    BY VotesFinite
  <2>2. Cardinality(VotesFor(c, j) \cup {v})
          = IF v \in VotesFor(c, j) THEN Cardinality(VotesFor(c, j))
            ELSE Cardinality(VotesFor(c, j)) + 1
    BY <2>1, FS_AddElement
  <2>3. Cardinality(VotesFor(c, j) \ {v})
          = IF v \in VotesFor(c, j) THEN Cardinality(VotesFor(c, j)) - 1
            ELSE Cardinality(VotesFor(c, j))
    BY <2>1, FS_RemoveElement
  <2> QED BY <1>1, <2>2, <2>3
<1>7. VotesFor(c, j)' = IF j = opinion THEN VotesFor(c, j) \cup {v}
                        ELSE VotesFor(c, j) \ {v}
  BY VoteMoves
<1>8. CASE j = opinion
  BY <1>1, <1>4, <1>5, <1>6, <1>7, <1>8 DEF u, t
<1>9. CASE j # opinion
  BY <1>1, <1>4, <1>5, <1>6, <1>7, <1>9 DEF u, t
<1> QED BY <1>8, <1>9

\* Votes that are claimed or cleaned are on no open case.
LEMMA VotesTaken ==
  ASSUME VotesInv, UNCHANGED <<openCases, caseCount>>, NEW v \in Voters,
         NEW cs \in SUBSET Cases, cs \subseteq VotedOn(v),
         cs \cap DOMAIN openCases = {},
         votes' = WithoutAll(votes, {<<c, v>> : c \in cs})
  PROVE  /\ IsPartialFunction(votes', (0..(caseCount' - 1)) \X Voters, Judgements)
         /\ TalliesExact'
         /\ Cardinality(VotedOn(v)') = Cardinality(VotedOn(v)) - Cardinality(cs)
         /\ \A w \in Voters \ {v} : VotedOn(w)' = VotedOn(w)
<1>1. /\ IsPartialFunction(votes', (0..(caseCount' - 1)) \X Voters, Judgements)
      /\ DOMAIN votes' = DOMAIN votes \ {<<c, v>> : c \in cs}
      /\ \A x \in DOMAIN votes' : votes'[x] = votes[x]
  BY DEF VotesInv, IsPartialFunction, WithoutAll
<1>2. ASSUME NEW c \in DOMAIN openCases, NEW j
      PROVE  VotesFor(c, j)' = VotesFor(c, j)
  <2>1. \A w \in Voters : <<c, w>> \notin {<<x, v>> : x \in cs}
    BY <1>2
  <2> QED BY <1>1, <2>1 DEF VotesFor
<1>3. TalliesExact'
  BY <1>2 DEF VotesInv, TalliesExact
<1>4. VotedOn(v)' = VotedOn(v) \ cs
  BY <1>1 DEF VotedOn
<1>5. Cardinality(VotedOn(v) \ cs) = Cardinality(VotedOn(v)) - Cardinality(VotedOn(v) \cap cs)
  BY VotesFinite, FS_Difference
<1>6. VotedOn(v) \cap cs = cs
  OBVIOUS
<1>7. \A w \in Voters \ {v} : VotedOn(w)' = VotedOn(w)
  BY <1>1 DEF VotedOn
<1> QED BY <1>1, <1>3, <1>4, <1>5, <1>6, <1>7

\* A cleaned vote is one vote less on record.
LEMMA RecordsTaken ==
  ASSUME RewardTypes, VotesInv, NEW v \in Voters, NEW n \in Nat, NEW points \in 0..n,
         credits'[v] = [credits[v] EXCEPT !.cleaned = @ + n, !.correct = @ + points],
         \A w \in Voters \ {v} : credits'[w] = credits[w],
         Cardinality(VotedOn(v)') = Cardinality(VotedOn(v)) - n,
         \A w \in Voters \ {v} : VotedOn(w)' = VotedOn(w)
  PROVE  \A w \in Voters : RecordExact(w)'
<1>1. credits[v] \in Credit
  BY DEF RewardTypes
<1>2. /\ credits[v].voted \in Nat /\ credits[v].cleaned \in Nat /\ credits[v].correct \in Nat
      /\ credits'[v].voted = credits[v].voted
      /\ credits'[v].cleaned = credits[v].cleaned + n
      /\ credits'[v].correct = credits[v].correct + points
  BY <1>1 DEF Credit
<1>3. RecordExact(v) /\ Cardinality(VotedOn(v)) \in Nat
  BY VotesFinite DEF VotesInv
<1>4. RecordExact(v)'
  BY <1>2, <1>3 DEF RecordExact
<1>5. \A w \in Voters \ {v} : RecordExact(w)'
  BY DEF VotesInv, RecordExact
<1> QED BY <1>4, <1>5

\* Voting, revoting, closing, claiming and cleaning keep the counts exact.
LEMMA VotesStep ==
  CaseInv /\ RewardTypes /\ VotesInv /\ [Next]_mobVars => VotesInv'
<1> SUFFICES ASSUME CaseInv, RewardTypes, VotesInv, [Next]_mobVars
             PROVE  VotesInv'
  OBVIOUS
<1>1. caseCount \in Nat
  BY MobRuleAssumption DEF CaseInv
<1>2. CASE judge_statement
  <2>1. /\ openCases' = Insert(openCases, caseCount, [age |-> 0, tally |-> EmptyTally])
        /\ caseCount' = caseCount + 1 /\ UNCHANGED <<votes, credits>>
    BY <1>2 DEF judge_statement, voterVars
  <2>2. IsPartialFunction(votes, (0..(caseCount' - 1)) \X Voters, Judgements)
    BY <1>1, <2>1 DEF VotesInv, IsPartialFunction
  <2>3. \A c, j : VotesFor(c, j)' = VotesFor(c, j)
    BY <2>1 DEF VotesFor
  <2>4. \A j : VotesFor(caseCount, j) = {}
    <3>1. \A v : <<caseCount, v>> \notin DOMAIN votes
      BY <1>1 DEF VotesInv, IsPartialFunction
    <3> QED BY <3>1 DEF VotesFor
  <2>5. TalliesExact'
    <3> SUFFICES ASSUME NEW c \in DOMAIN openCases', NEW j \in Judgements
                 PROVE  openCases'[c].tally[j] = Cardinality(VotesFor(c, j))
      BY <2>3 DEF TalliesExact
    <3>1. CASE c = caseCount
      <4>1. openCases'[c].tally[j] = 0
        BY <2>1, <3>1 DEF Insert, EmptyTally
      <4>2. Cardinality(VotesFor(c, j)) = 0
        BY <2>4, <3>1, FS_EmptySet, Zenon
      <4> QED BY <4>1, <4>2
    <3>2. CASE c # caseCount
      <4>1. c \in DOMAIN openCases /\ openCases'[c] = openCases[c]
        BY <2>1, <3>2 DEF Insert
      <4> QED BY <4>1 DEF VotesInv, TalliesExact
    <3> QED BY <3>1, <3>2
  <2>6. \A v \in Voters : RecordExact(v)'
    BY <2>1 DEF VotesInv, RecordExact, VotedOn
  <2> QED BY <2>1, <2>2, <2>5, <2>6 DEF VotesInv
<1>3. ASSUME NEW c \in Cases, NEW v \in Voters, NEW o \in Opinions, vote(v, c, o)
      PROVE  VotesInv'
  <2> DEFINE t == [Discounted(openCases[c].tally, v, c) EXCEPT ![o] = @ + 1]
  <2>1. /\ c \in DOMAIN openCases /\ votes' = Insert(votes, <<c, v>>, o)
        /\ RipenOrReturn(c, t, openCases[c].age) /\ UNCHANGED caseCount
    BY <1>3 DEF vote
  <2>2. /\ c \in 0..(caseCount - 1) /\ openCases[c].tally \in [Judgements -> Int]
        /\ o \in Judgements
    BY <2>1, MobRuleAssumption DEF CaseInv, IsPartialFunction, OpenCase
  <2>3. IsPartialFunction(votes', (0..(caseCount' - 1)) \X Voters, Judgements)
    BY <2>1, <2>2 DEF VotesInv, IsPartialFunction, Insert
  <2>4. \A j \in Judgements : t[j] = Cardinality(VotesFor(c, j)')
    BY <2>1, <2>2, VoteTally
  <2> HIDE DEF t
  <2>5. /\ \A x \in DOMAIN openCases' : x \in DOMAIN openCases
        /\ \A x \in DOMAIN openCases' \ {c} : openCases'[x] = openCases[x]
        /\ c \in DOMAIN openCases' => openCases'[c].tally = t
    <3>1. CASE Ripens(t, openCases[c].age)
      BY <2>1, <3>1 DEF RipenOrReturn, Without
    <3>2. CASE ~Ripens(t, openCases[c].age)
      BY <2>1, <3>2 DEF RipenOrReturn, Insert
    <3> QED BY <3>1, <3>2
  <2>6. TalliesExact'
    <3> SUFFICES ASSUME NEW x \in DOMAIN openCases', NEW j \in Judgements
                 PROVE  openCases'[x].tally[j] = Cardinality(VotesFor(x, j)')
      BY DEF TalliesExact
    <3>1. CASE x = c
      BY <2>4, <2>5, <3>1
    <3>2. CASE x # c
      <4>1. VotesFor(x, j)' = VotesFor(x, j)
        BY <2>1, <3>2, VoteMoves
      <4>2. openCases'[x].tally[j] = Cardinality(VotesFor(x, j))
        BY <2>5, <3>2 DEF VotesInv, TalliesExact
      <4> QED BY <4>1, <4>2
    <3> QED BY <3>1, <3>2
  <2>7. /\ VotedOn(v)' = VotedOn(v) \cup {c}
        /\ \A w \in Voters \ {v} : VotedOn(w)' = VotedOn(w)
    <3>1. {c} \cap Cases = {c}
      OBVIOUS
    <3> QED BY <2>1, <3>1, VoteMoves
  <2>8. /\ credits'[v] = IF <<c, v>> \in DOMAIN votes THEN credits[v]
                         ELSE [credits[v] EXCEPT !.voted = @ + 1]
        /\ \A w \in Voters \ {v} : credits'[w] = credits[w]
    BY <1>3, VoteEffect
  <2>9. RecordExact(v)'
    <3>1. c \in VotedOn(v) <=> <<c, v>> \in DOMAIN votes
      BY DEF VotedOn
    <3>2. IsFiniteSet(VotedOn(v)) /\ Cardinality(VotedOn(v)) \in Nat
      BY VotesFinite
    <3>3. Cardinality(VotedOn(v) \cup {c}) = IF c \in VotedOn(v) THEN Cardinality(VotedOn(v))
                                             ELSE Cardinality(VotedOn(v)) + 1
      BY <3>2, FS_AddElement
    <3>4. credits[v] \in Credit /\ RecordExact(v)
      BY DEF RewardTypes, VotesInv
    <3>5. /\ credits[v].voted \in Nat /\ credits[v].cleaned \in Nat
          /\ credits'[v].voted = IF c \in VotedOn(v) THEN credits[v].voted
                                 ELSE credits[v].voted + 1
          /\ credits'[v].cleaned = credits[v].cleaned
          /\ credits'[v].correct = credits[v].correct
      BY <2>8, <3>1, <3>4 DEF Credit
    <3>6. Cardinality(VotedOn(v)') = IF c \in VotedOn(v) THEN Cardinality(VotedOn(v))
                                    ELSE Cardinality(VotedOn(v)) + 1
      BY <2>7, <3>3
    <3> QED BY <3>2, <3>4, <3>5, <3>6 DEF RecordExact
  <2>10. \A w \in Voters \ {v} : RecordExact(w)'
    BY <2>7, <2>8 DEF VotesInv, RecordExact
  <2> QED BY <2>3, <2>6, <2>9, <2>10 DEF VotesInv
<1>4. ASSUME NEW c \in Cases, touch_case(c)
      PROVE  VotesInv'
  <2>1. /\ c \in DOMAIN openCases /\ UNCHANGED <<votes, credits, caseCount>>
        /\ RipenOrReturn(c, openCases[c].tally, openCases[c].age)
    BY <1>4 DEF touch_case, voterVars
  <2>2. \A x \in DOMAIN openCases' : x \in DOMAIN openCases
                                     /\ openCases'[x].tally = openCases[x].tally
    <3>1. CASE Ripens(openCases[c].tally, openCases[c].age)
      BY <2>1, <3>1 DEF RipenOrReturn, Without
    <3>2. CASE ~Ripens(openCases[c].tally, openCases[c].age)
      BY <2>1, <3>2 DEF RipenOrReturn, Insert
    <3> QED BY <3>1, <3>2
  <2> QED BY <1>1, <2>1, <2>2, VotesSame
<1>5. ASSUME NEW c, force_ripen_case(c) \/ close_case(c) \/ reap_case(c)
                    \/ \E j \in Opinions : intervene(c, j)
      PROVE  VotesInv'
  <2>1. UNCHANGED <<votes, credits, caseCount>>
        /\ (openCases' = Without(openCases, c) \/ openCases' = openCases)
    BY <1>5 DEF force_ripen_case, close_case, reap_case, intervene, voterVars
  <2>2. \A x \in DOMAIN openCases' : x \in DOMAIN openCases
                                     /\ openCases'[x].tally = openCases[x].tally
    BY <2>1 DEF Without
  <2> QED BY <1>1, <2>1, <2>2, VotesSame
<1>6. CASE tick
  <2>1. /\ openCases' = [c \in DOMAIN openCases |->
                           [openCases[c] EXCEPT !.age = Older(@, OpenHorizon)]]
        /\ UNCHANGED <<votes, credits, caseCount>>
    BY <1>6 DEF tick
  <2>2. \A x \in DOMAIN openCases' : x \in DOMAIN openCases
                                     /\ openCases'[x].tally = openCases[x].tally
    <3> SUFFICES ASSUME NEW x \in DOMAIN openCases'
                 PROVE  x \in DOMAIN openCases
                        /\ openCases'[x].tally = openCases[x].tally
      OBVIOUS
    <3>1. x \in DOMAIN openCases /\ openCases[x] \in OpenCase
      BY <2>1 DEF CaseInv, IsPartialFunction
    <3>2. openCases'[x] = [openCases[x] EXCEPT !.age = Older(openCases[x].age, OpenHorizon)]
      BY <2>1, <3>1
    <3> QED BY <3>1, <3>2 DEF OpenCase
  <2> QED BY <1>1, <2>1, <2>2, VotesSame
<1>7. ASSUME NEW v \in Voters, NEW cs \in SUBSET Cases, do_claim_votes(v, cs)
      PROVE  VotesInv'
  <2>1. /\ \A c \in cs : <<c, v>> \in DOMAIN votes /\ c \in DOMAIN doneCases
        /\ votes' = WithoutAll(votes, {<<c, v>> : c \in cs})
        /\ UNCHANGED caseVars
    BY <1>7 DEF do_claim_votes
  <2>2. cs \subseteq VotedOn(v) /\ cs \cap DOMAIN openCases = {}
    BY <2>1 DEF VotedOn, CaseInv
  <2>3. UNCHANGED <<openCases, caseCount>>
    BY <2>1 DEF caseVars
  <2>4. /\ IsPartialFunction(votes', (0..(caseCount' - 1)) \X Voters, Judgements)
        /\ TalliesExact'
        /\ Cardinality(VotedOn(v)') = Cardinality(VotedOn(v)) - Cardinality(cs)
        /\ \A w \in Voters \ {v} : VotedOn(w)' = VotedOn(w)
    BY <2>1, <2>2, <2>3, VotesTaken
  <2>5. PICK points \in 0..Cardinality(cs) :
           /\ credits'[v] = [credits[v] EXCEPT !.cleaned = @ + Cardinality(cs),
                                               !.correct = @ + points]
           /\ \A w \in Voters \ {v} : credits'[w] = credits[w]
    BY <1>7, ClaimEffect
  <2>6. Cardinality(cs) \in Nat
    BY CasesFinite
  <2>7. \A w \in Voters : RecordExact(w)'
    BY <2>4, <2>5, <2>6, RecordsTaken
  <2> QED BY <2>4, <2>7 DEF VotesInv
<1>8. ASSUME NEW v \in Voters, NEW c \in Cases, clean_vote_inner(c, v)
      PROVE  VotesInv'
  <2>1. /\ <<c, v>> \in DOMAIN votes /\ c \notin DOMAIN openCases
        /\ votes' = Without(votes, <<c, v>>)
        /\ UNCHANGED caseVars
    BY <1>8 DEF clean_vote_inner, validate_clean_vote
  <2>2. {c} \in SUBSET Cases /\ {c} \subseteq VotedOn(v) /\ {c} \cap DOMAIN openCases = {}
    BY <2>1 DEF VotedOn
  <2>3. {<<x, v>> : x \in {c}} = {<<c, v>>}
    OBVIOUS
  <2>4. votes' = WithoutAll(votes, {<<x, v>> : x \in {c}})
    BY <2>1, <2>3 DEF Without, WithoutAll
  <2>5. UNCHANGED <<openCases, caseCount>>
    BY <2>1 DEF caseVars
  <2>6. /\ IsPartialFunction(votes', (0..(caseCount' - 1)) \X Voters, Judgements)
        /\ TalliesExact'
        /\ Cardinality(VotedOn(v)') = Cardinality(VotedOn(v)) - Cardinality({c})
        /\ \A w \in Voters \ {v} : VotedOn(w)' = VotedOn(w)
    BY <2>2, <2>4, <2>5, VotesTaken
  <2>7. PICK points \in 0..1 :
           /\ credits'[v] = [credits[v] EXCEPT !.cleaned = @ + 1, !.correct = @ + points]
           /\ \A w \in Voters \ {v} : credits'[w] = credits[w]
    BY <1>8, CleanEffect
  <2>8. Cardinality({c}) = 1
    BY FS_Singleton
  <2>9. \A w \in Voters : RecordExact(w)'
    BY <2>6, <2>7, <2>8, RecordsTaken
  <2> QED BY <2>6, <2>9 DEF VotesInv
<1>9. ASSUME UNCHANGED <<openCases, caseCount, votes>>,
             \A v \in Voters : /\ credits'[v].voted = credits[v].voted
                               /\ credits'[v].cleaned = credits[v].cleaned
                               /\ credits'[v].correct = credits[v].correct
      PROVE  VotesInv'
  <2>1. \A c, j : VotesFor(c, j)' = VotesFor(c, j)
    BY <1>9 DEF VotesFor
  <2>2. TalliesExact'
    BY <1>9, <2>1 DEF VotesInv, TalliesExact
  <2>3. \A v \in Voters : RecordExact(v)'
    BY <1>9 DEF VotesInv, RecordExact, VotedOn
  <2> QED BY <1>9, <2>2, <2>3 DEF VotesInv
<1>10. ASSUME NEW v \in Voters, NEW n,
              credits' = [credits EXCEPT ![v] = [credits[v] EXCEPT !.credit = n]],
              UNCHANGED <<caseVars, votes>>
       PROVE  VotesInv'
  <2>1. credits \in [Voters -> Credit]
    BY DEF RewardTypes
  <2>2. \A w \in Voters : /\ credits'[w].voted = credits[w].voted
                          /\ credits'[w].cleaned = credits[w].cleaned
                          /\ credits'[w].correct = credits[w].correct
    BY <1>10, <2>1 DEF Credit
  <2> QED BY <1>9, <1>10, <2>2 DEF caseVars
<1>11. ASSUME UNCHANGED <<caseVars, votes, credits>>
       PROVE  VotesInv'
  BY <1>9, <1>11 DEF caseVars
<1>12. CASE Voting
  BY <1>2, <1>3, <1>4, <1>5, <1>12 DEF Voting
<1>13. CASE Cleaning
  <2>1. \A c \in Cases : {c} \in SUBSET Cases
    OBVIOUS
  <2>2. \A v : clear_voting_penalty(v) => UNCHANGED <<caseVars, votes, credits>>
    BY DEF clear_voting_penalty
  <2> QED BY <1>7, <1>8, <1>11, <1>13, <2>1, <2>2
          DEF Cleaning, claim_votes, claim_vote, clean_vote, clean_vote_signed
<1>14. CASE Paying
  <2>1. ASSUME NEW v \in Voters, claim_credit(v)
        PROVE  VotesInv'
    <3>1. UNCHANGED <<caseVars, votes>>
      BY <2>1 DEF claim_credit
    <3>2. PICK released \in Nat : credits' = [credits EXCEPT ![v] =
                   [credits[v] EXCEPT !.credit = credits[v].credit + released]]
      BY <2>1, ClaimCreditEffect
    <3> QED BY <1>10, <3>1, <3>2
  <2>2. ASSUME NEW v \in Voters, payout_rewards(v)
        PROVE  VotesInv'
    <3>1. UNCHANGED <<caseVars, votes>>
          /\ credits' = [credits EXCEPT ![v] = [credits[v] EXCEPT !.credit = 0]]
      BY <2>2 DEF payout_rewards
    <3> QED BY <1>10, <3>1
  <2>3. \A s : schedule_payout_rounds(s) => UNCHANGED <<caseVars, votes, credits>>
    BY DEF schedule_payout_rounds, voterVars
  <2>4. \A i : remove_payout_schedule(i) => UNCHANGED <<caseVars, votes, credits>>
    BY DEF remove_payout_schedule, voterVars
  <2>5. start_payout_round => UNCHANGED <<caseVars, votes, credits>>
    BY DEF start_payout_round, voterVars
  <2>6. \A r, v : clean_points(r, v) => UNCHANGED <<caseVars, votes, credits>>
    BY DEF clean_points, voterVars
  <2> QED BY <1>11, <1>14, <2>1, <2>2, <2>3, <2>4, <2>5, <2>6 DEF Paying
<1>15. CASE do_on_poll \/ (\E n \in ActiveCounts : people_change(n)) \/ UNCHANGED mobVars
  BY <1>11, <1>15 DEF do_on_poll, people_change, mobVars, voterVars
<1> QED BY <1>6, <1>12, <1>13, <1>14, <1>15 DEF Next

\* Whatever the number of voters and cases, the tally of an open case counts
\* exactly the votes `Votes` stores for it, although `vote` corrects it by hand
\* and claims and cleaning take votes away; and each voter's record misses no
\* vote.
THEOREM VotesCountedCorrect == Spec => []VotesCounted
BY CaseInit, CaseStep, RewardInit, RewardStep, VotesInit, VotesStep,
   VotesInvImplies, PTL DEF Spec

-----------------------------------------------------------------------------
(* The sums of PointsCovered and HoldsAccounted.                               *)

\* What each voter, or each schedule, contributes to a sum.
PointsOf(m, r) == [v \in Voters |-> Get(m, <<r, v>>)]
ClaimsOf(m, d) == [v \in Voters |-> Claimable(Get(m, <<d.round, v>>), d)]
CreditOf(c) == [v \in Voters |-> c[v].credit]
Promised(s) == [i \in DOMAIN s |-> s[i].remaining * s[i].amount_per_round]

\* The sum of points of a round, in the form of a cardinality.
LEMMA PointsSum ==
  ASSUME RewardTypes, NEW r
  PROVE  /\ \A x \in Voters : PointsOf(votingPoints, r)[x] \in Nat
         /\ PointsIn(r) = Total(Voters, PointsOf(votingPoints, r))
<1>1. \A x \in Voters : PointsOf(votingPoints, r)[x] = Get(votingPoints, <<r, x>>) /\ PointsOf(votingPoints, r)[x] \in Nat
  BY GetType DEF PointsOf, RewardTypes
<1> DEFINE Sums(iter) ==
      iter = [s \in SUBSET Voters |->
                IF s = {} THEN 0
                ELSE Get(votingPoints, <<r, CHOOSE x \in s : TRUE>>)
                       + iter[s \ {CHOOSE x \in s : TRUE}]]
<1>2. \A iter : Sums(iter) <=> SumsUp(iter, Voters, PointsOf(votingPoints, r))
  <2>1. \A s \in SUBSET Voters : s # {} =>
          Get(votingPoints, <<r, CHOOSE x \in s : TRUE>>) = PointsOf(votingPoints, r)[CHOOSE x \in s : TRUE]
    BY <1>1, Picked
  <2> QED BY <2>1 DEF SumsUp
<1>3. PointsIn(r) = (CHOOSE iter : Sums(iter))[Voters]
  BY DEF PointsIn, MapThenSumSet, MapThenFoldSet
<1> HIDE DEF Sums
<1>4. /\ \E iter : SumsUp(iter, Voters, PointsOf(votingPoints, r))
      /\ \A iter : SumsUp(iter, Voters, PointsOf(votingPoints, r)) => iter[Voters] = Total(Voters, PointsOf(votingPoints, r))
  BY <1>1, SumsUpUnique, MobRuleAssumption
<1>5. SumsUp((CHOOSE iter : Sums(iter)), Voters, PointsOf(votingPoints, r))
  BY <1>2, <1>4
<1> QED BY <1>1, <1>3, <1>4, <1>5

\* The same of what can be claimed in a round.
LEMMA ClaimsSum ==
  ASSUME RewardTypes, NEW d \in Distribution
  PROVE  /\ \A x \in Voters : ClaimsOf(votingPoints, d)[x] \in Nat
         /\ MapThenSumSet(LAMBDA v :
              Claimable(Get(votingPoints, <<d.round, v>>), d), Voters) = Total(Voters, ClaimsOf(votingPoints, d))
<1>1. \A x \in Voters : ClaimsOf(votingPoints, d)[x] = Claimable(Get(votingPoints, <<d.round, x>>), d) /\ ClaimsOf(votingPoints, d)[x] \in Nat
  <2> SUFFICES ASSUME NEW x \in Voters
               PROVE  Claimable(Get(votingPoints, <<d.round, x>>), d) \in Nat
    BY DEF ClaimsOf
  <2>1. Get(votingPoints, <<d.round, x>>) \in Nat
    BY GetType DEF RewardTypes
  <2> QED BY <2>1, ClaimableType
<1> DEFINE Sums(iter) ==
      iter = [s \in SUBSET Voters |->
                IF s = {} THEN 0
                ELSE Claimable(Get(votingPoints, <<d.round, CHOOSE x \in s : TRUE>>), d)
                       + iter[s \ {CHOOSE x \in s : TRUE}]]
<1>2. \A iter : Sums(iter) <=> SumsUp(iter, Voters, ClaimsOf(votingPoints, d))
  <2>1. \A s \in SUBSET Voters : s # {} =>
          Claimable(Get(votingPoints, <<d.round, CHOOSE x \in s : TRUE>>), d) = ClaimsOf(votingPoints, d)[CHOOSE x \in s : TRUE]
    BY <1>1, Picked
  <2> QED BY <2>1 DEF SumsUp
<1>3. MapThenSumSet(LAMBDA v :
              Claimable(Get(votingPoints, <<d.round, v>>), d), Voters) = (CHOOSE iter : Sums(iter))[Voters]
  BY DEF MapThenSumSet, MapThenFoldSet
<1> HIDE DEF Sums
<1>4. /\ \E iter : SumsUp(iter, Voters, ClaimsOf(votingPoints, d))
      /\ \A iter : SumsUp(iter, Voters, ClaimsOf(votingPoints, d)) => iter[Voters] = Total(Voters, ClaimsOf(votingPoints, d))
  BY <1>1, SumsUpUnique, MobRuleAssumption
<1>5. SumsUp((CHOOSE iter : Sums(iter)), Voters, ClaimsOf(votingPoints, d))
  BY <1>2, <1>4
<1> QED BY <1>1, <1>3, <1>4, <1>5

\* The same of the credit earned.
LEMMA CreditSum ==
  ASSUME RewardTypes
  PROVE  /\ \A x \in Voters : CreditOf(credits)[x] \in Nat
         /\ MapThenSumSet(LAMBDA v : credits[v].credit, Voters) = Total(Voters, CreditOf(credits))
<1>1. \A x \in Voters : CreditOf(credits)[x] = credits[x].credit /\ CreditOf(credits)[x] \in Nat
  BY DEF CreditOf, RewardTypes, Credit
<1> DEFINE Sums(iter) ==
      iter = [s \in SUBSET Voters |->
                IF s = {} THEN 0
                ELSE credits[CHOOSE x \in s : TRUE].credit
                       + iter[s \ {CHOOSE x \in s : TRUE}]]
<1>2. \A iter : Sums(iter) <=> SumsUp(iter, Voters, CreditOf(credits))
  <2>1. \A s \in SUBSET Voters : s # {} =>
          credits[CHOOSE x \in s : TRUE].credit = CreditOf(credits)[CHOOSE x \in s : TRUE]
    BY <1>1, Picked
  <2> QED BY <2>1 DEF SumsUp
<1>3. MapThenSumSet(LAMBDA v : credits[v].credit, Voters) = (CHOOSE iter : Sums(iter))[Voters]
  BY DEF MapThenSumSet, MapThenFoldSet
<1> HIDE DEF Sums
<1>4. /\ \E iter : SumsUp(iter, Voters, CreditOf(credits))
      /\ \A iter : SumsUp(iter, Voters, CreditOf(credits)) => iter[Voters] = Total(Voters, CreditOf(credits))
  BY <1>1, SumsUpUnique, MobRuleAssumption
<1>5. SumsUp((CHOOSE iter : Sums(iter)), Voters, CreditOf(credits))
  BY <1>2, <1>4
<1> QED BY <1>1, <1>3, <1>4, <1>5

\* The list of schedules has finitely many positions.
LEMMA SchedulesFinite ==
  ASSUME RewardTypes
  PROVE  /\ IsFiniteSet(DOMAIN roundSchedules)
         /\ DOMAIN roundSchedules = 1..Len(roundSchedules) /\ Len(roundSchedules) \in Nat
BY LenProperties, FS_Interval DEF RewardTypes

\* The same of what the schedules promise.
LEMMA PromisedSum ==
  ASSUME RewardTypes
  PROVE  /\ \A x \in DOMAIN roundSchedules : Promised(roundSchedules)[x] \in Nat
         /\ MapThenSumSet(LAMBDA i : roundSchedules[i].remaining
                                    * roundSchedules[i].amount_per_round,
                          DOMAIN roundSchedules) = Total(DOMAIN roundSchedules, Promised(roundSchedules))
<1>1. \A x \in DOMAIN roundSchedules : Promised(roundSchedules)[x] = roundSchedules[x].remaining * roundSchedules[x].amount_per_round /\ Promised(roundSchedules)[x] \in Nat
  <2> SUFFICES ASSUME NEW x \in DOMAIN roundSchedules
               PROVE  roundSchedules[x].remaining * roundSchedules[x].amount_per_round \in Nat
    BY DEF Promised
  <2>1. roundSchedules[x] \in Schedule
    BY LenProperties, ElementOfSeq DEF RewardTypes
  <2> QED BY <2>1 DEF Schedule
<1> DEFINE Sums(iter) ==
      iter = [s \in SUBSET DOMAIN roundSchedules |->
                IF s = {} THEN 0
                ELSE roundSchedules[CHOOSE x \in s : TRUE].remaining * roundSchedules[CHOOSE x \in s : TRUE].amount_per_round
                       + iter[s \ {CHOOSE x \in s : TRUE}]]
<1>2. \A iter : Sums(iter) <=> SumsUp(iter, DOMAIN roundSchedules, Promised(roundSchedules))
  <2>1. \A s \in SUBSET DOMAIN roundSchedules : s # {} =>
          roundSchedules[CHOOSE x \in s : TRUE].remaining * roundSchedules[CHOOSE x \in s : TRUE].amount_per_round = Promised(roundSchedules)[CHOOSE x \in s : TRUE]
    BY <1>1, Picked
  <2> QED BY <2>1 DEF SumsUp
<1>3. MapThenSumSet(LAMBDA i : roundSchedules[i].remaining
                                    * roundSchedules[i].amount_per_round,
                          DOMAIN roundSchedules) = (CHOOSE iter : Sums(iter))[DOMAIN roundSchedules]
  BY DEF MapThenSumSet, MapThenFoldSet
<1> HIDE DEF Sums
<1>4. /\ \E iter : SumsUp(iter, DOMAIN roundSchedules, Promised(roundSchedules))
      /\ \A iter : SumsUp(iter, DOMAIN roundSchedules, Promised(roundSchedules)) => iter[DOMAIN roundSchedules] = Total(DOMAIN roundSchedules, Promised(roundSchedules))
  BY <1>1, SumsUpUnique, SchedulesFinite
<1>5. SumsUp((CHOOSE iter : Sums(iter)), DOMAIN roundSchedules, Promised(roundSchedules))
  BY <1>2, <1>4
<1> QED BY <1>1, <1>3, <1>4, <1>5

-----------------------------------------------------------------------------
(* The funds of a round cover its claims.                                  *)

\* Products and inequalities.
LEMMA TimesMonotone ==
  ASSUME NEW a \in Nat, NEW b \in Nat, NEW c \in Nat, a <= b
  PROVE  a * c <= b * c
OBVIOUS

\* A positive factor can be cancelled.
LEMMA TimesCancel ==
  ASSUME NEW a \in Nat, NEW b \in Nat, NEW c \in Nat \ {0}, a * c <= b * c
  PROVE  a <= b
<1> SUFFICES ASSUME b + 1 <= a PROVE FALSE
  OBVIOUS
<1>1. (b + 1) * c <= a * c
  BY TimesMonotone
<1>2. (b + 1) * c = b * c + c
  OBVIOUS
<1> QED BY <1>1, <1>2

\* Integer division rounds down.
LEMMA FloorBelow ==
  ASSUME NEW a \in Nat, NEW b \in Nat \ {0}
  PROVE  a \div b \in Nat /\ (a \div b) * b <= a
OBVIOUS

\* Rounding down twice never gives more than the exact share.
LEMMA ClaimableShare ==
  ASSUME NEW p \in Nat, NEW d \in Distribution
  PROVE  Claimable(p, d) * d.total_points <= p * d.initial_balance
<1> DEFINE A == Accuracy
           T == d.total_points
           B == d.initial_balance
           q == (p * A) \div T
           r == (q * B) \div A
<1>1. T \in Nat \ {0} /\ B \in Nat /\ A \in Nat \ {0}
  BY MobRuleAssumption DEF Distribution
<1> HIDE DEF T, B, A
<1>2. q \in Nat /\ q * T <= p * A
  BY <1>1, FloorBelow
<1> HIDE DEF q
<1>3. r \in Nat /\ r * A <= q * B
  BY <1>1, <1>2, FloorBelow
<1>4. r = Claimable(p, d)
  BY DEF r, q, A, T, B, Claimable
<1> HIDE DEF r
<1>5. (r * A) * T <= (q * B) * T
  <2>1. r * A \in Nat /\ q * B \in Nat
    BY <1>1, <1>2, <1>3
  <2> QED BY <1>1, <1>3, <2>1, TimesMonotone
<1>6. (q * T) * B <= (p * A) * B
  <2>1. q * T \in Nat /\ p * A \in Nat
    BY <1>1, <1>2
  <2> QED BY <1>1, <1>2, <2>1, TimesMonotone
<1>7. (r * T) * A <= (p * B) * A
  <2>1. (r * A) * T = (r * T) * A /\ (q * B) * T = (q * T) * B /\ (p * A) * B = (p * B) * A
    BY <1>1, <1>2, <1>3
  <2>2. (r * T) * A \in Nat /\ (q * T) * B \in Nat /\ (p * B) * A \in Nat
    BY <1>1, <1>2, <1>3
  <2> QED BY <1>5, <1>6, <2>1, <2>2
<1>8. r * T \in Nat /\ p * B \in Nat
  BY <1>1, <1>3
<1>9. r * T <= p * B
  BY <1>1, <1>7, <1>8, TimesCancel
<1> QED BY <1>4, <1>9 DEF T, B

\* All claims of a round together are at most its funds, if its points are
\* at most those it was started with.
LEMMA SharesCovered ==
  ASSUME RewardTypes, NEW d \in Distribution,
         Total(Voters, PointsOf(votingPoints, d.round)) <= d.total_points
  PROVE  Total(Voters, ClaimsOf(votingPoints, d)) <= d.initial_balance
<1> DEFINE T == d.total_points
           B == d.initial_balance
           P == Total(Voters, PointsOf(votingPoints, d.round))
           C == Total(Voters, ClaimsOf(votingPoints, d))
<1>1. T \in Nat \ {0} /\ B \in Nat
  BY DEF Distribution
<1>2. \A x \in Voters : /\ ClaimsOf(votingPoints, d)[x] \in Nat /\ PointsOf(votingPoints, d.round)[x] \in Nat
                        /\ ClaimsOf(votingPoints, d)[x] * T <= PointsOf(votingPoints, d.round)[x] * B
  <2> SUFFICES ASSUME NEW x \in Voters
               PROVE  /\ ClaimsOf(votingPoints, d)[x] \in Nat /\ PointsOf(votingPoints, d.round)[x] \in Nat
                      /\ ClaimsOf(votingPoints, d)[x] * T <= PointsOf(votingPoints, d.round)[x] * B
    OBVIOUS
  <2>1. ClaimsOf(votingPoints, d)[x] \in Nat /\ PointsOf(votingPoints, d.round)[x] \in Nat
    BY PointsSum, ClaimsSum
  <2>2. ClaimsOf(votingPoints, d)[x] = Claimable(PointsOf(votingPoints, d.round)[x], d)
    BY DEF ClaimsOf, PointsOf
  <2> QED BY <2>1, <2>2, ClaimableShare
<1>3. C \in Nat /\ P \in Nat
  BY <1>2, TotalType, MobRuleAssumption
<1>4. C * T <= P * B
  <2> HIDE DEF T, B
  <2> QED BY <1>1, <1>2, TotalScaled, MobRuleAssumption
<1> HIDE DEF T, B, C, P
<1>5. P <= T
  BY DEF P, T
<1>6. P * B <= T * B
  BY <1>1, <1>3, <1>5, TimesMonotone
<1>7. C * T <= B * T
  <2>1. C * T \in Nat /\ P * B \in Nat /\ T * B \in Nat /\ T * B = B * T
    BY <1>1, <1>3
  <2> QED BY <1>4, <1>6, <2>1
<1>8. C <= B
  BY <1>1, <1>3, <1>7, TimesCancel
<1> QED BY <1>8 DEF C, B

-----------------------------------------------------------------------------
(* PointsCovered and HoldsAccounted.                                           *)

\* The sums of the two properties in the form the proofs use.  They need each
\* other: a claim takes as much from the round as from the hold because the
\* round covers the claim.
PointsExact ==
  Total(Voters, PointsOf(votingPoints, PointsRound)) = accumulatedPoints

\* The points of the running round and the claims they give are covered by it.
RoundCovered ==
  payoutDistribution # NoDistribution =>
    /\ Total(Voters, PointsOf(votingPoints, payoutDistribution.round))
         <= payoutDistribution.total_points
    /\ Total(Voters, ClaimsOf(votingPoints, payoutDistribution))
         <= payoutDistribution.remaining_balance

\* What the running round and the schedules promise.
Owed == payoutDistribution.remaining_balance
          + Total(DOMAIN roundSchedules, Promised(roundSchedules))

\* The hold for payouts is what is owed, but for the rounds of empty schedules.
PayoutAccounted == pot.payout <= Owed /\ Owed <= pot.payout + unbacked

\* The hold for credit is the credit of all voters.
CreditExact == pot.credit = Total(Voters, CreditOf(credits))

\* Money is neither made nor lost: free, held or paid.
FundsExact == pot.free + pot.payout + pot.credit + paid = PotFunds

\* All of it together is inductive, with RewardTypes.
MoneyInv == PointsExact /\ RoundCovered /\ PayoutAccounted /\ CreditExact /\ FundsExact

\* The invariant gives both properties.
LEMMA MoneyInvImplies == RewardTypes /\ MoneyInv => PointsCovered /\ HoldsAccounted
<1> SUFFICES ASSUME RewardTypes, MoneyInv PROVE PointsCovered /\ HoldsAccounted
  OBVIOUS
<1>1. PointsIn(PointsRound) = accumulatedPoints
  BY PointsSum DEF MoneyInv, PointsExact
<1>2. ASSUME payoutDistribution # NoDistribution
      PROVE  /\ PointsIn(payoutDistribution.round) <= payoutDistribution.total_points
             /\ payoutDistribution.remaining_balance >=
                  MapThenSumSet(LAMBDA v :
                    Claimable(Get(votingPoints, <<payoutDistribution.round, v>>),
                              payoutDistribution), Voters)
  <2>1. payoutDistribution \in Distribution /\ payoutDistribution.remaining_balance \in Nat
    BY <1>2, RoundTypes DEF RewardTypes
  <2>2. Total(Voters, ClaimsOf(votingPoints, payoutDistribution)) \in Nat
    BY <2>1, ClaimsSum, TotalType, MobRuleAssumption
  <2>3. payoutDistribution.remaining_balance
          >= Total(Voters, ClaimsOf(votingPoints, payoutDistribution))
    BY <1>2, <2>1, <2>2 DEF MoneyInv, RoundCovered
  <2>4. PointsIn(payoutDistribution.round) <= payoutDistribution.total_points
    BY <1>2, PointsSum DEF MoneyInv, RoundCovered
  <2> QED BY <2>1, <2>3, <2>4, ClaimsSum
<1>3. PointsCovered
  BY <1>1, <1>2 DEF PointsCovered
<1>4. HoldsAccounted
  <2>1. PromisedFunds = Owed
    BY PromisedSum DEF PromisedFunds, Owed
  <2> QED BY <2>1, CreditSum DEF HoldsAccounted, MoneyInv, PayoutAccounted,
                                 CreditExact, FundsExact
<1> QED BY <1>3, <1>4

\* Points change for one voter and one round.
LEMMA PointsInserted ==
  ASSUME NEW m, NEW r, NEW v \in Voters, NEW n, NEW m2, m2 = Insert(m, <<r, v>>, n)
  PROVE  /\ PointsOf(m2, r)[v] = n
         /\ \A w \in Voters \ {v} : PointsOf(m2, r)[w] = PointsOf(m, r)[w]
         /\ \A q : q # r => PointsOf(m2, q) = PointsOf(m, q)
BY DEF PointsOf, Insert, Get

\* Points that are paid or forgotten leave all other points alone.
LEMMA PointsDropped ==
  ASSUME NEW m, NEW r, NEW v \in Voters, NEW m2, m2 = Without(m, <<r, v>>)
  PROVE  /\ PointsOf(m2, r)[v] = 0
         /\ \A w \in Voters \ {v} : PointsOf(m2, r)[w] = PointsOf(m, r)[w]
         /\ \A q : q # r => PointsOf(m2, q) = PointsOf(m, q)
BY DEF PointsOf, Without, Get

\* A claim depends on the points and on what the round started with.
LEMMA ClaimsDepend ==
  ASSUME NEW m, NEW m2, NEW d, NEW d2, d2.round = d.round,
         d2.total_points = d.total_points, d2.initial_balance = d.initial_balance
  PROVE  \A v \in Voters : PointsOf(m2, d2.round)[v] = PointsOf(m, d.round)[v]
           => ClaimsOf(m2, d2)[v] = ClaimsOf(m, d)[v]
BY DEF ClaimsOf, PointsOf, Claimable

\* All funds are free in the beginning.
LEMMA MoneyInit == Init => MoneyInv
<1> SUFFICES ASSUME Init PROVE MoneyInv
  OBVIOUS
<1>1. /\ votingPoints = <<>> /\ accumulatedPoints = 0 /\ payoutDistribution = NoDistribution
      /\ roundSchedules = <<>> /\ paid = 0 /\ unbacked = 0
      /\ pot = [free |-> PotFunds, payout |-> 0, credit |-> 0]
      /\ \A v \in Voters : credits[v].credit = 0
  BY DEF Init
<1>2. \A v \in Voters : PointsOf(votingPoints, PointsRound)[v] = 0
  BY <1>1 DEF PointsOf, Get
<1>3. PointsExact
  BY <1>1, <1>2, TotalZero DEF PointsExact
<1>4. \A v \in Voters : CreditOf(credits)[v] = 0
  BY <1>1 DEF CreditOf
<1>5. CreditExact
  BY <1>1, <1>4, TotalZero DEF CreditExact
<1>6. Total(DOMAIN roundSchedules, Promised(roundSchedules)) = 0
  BY <1>1, TotalZero
<1>7. PayoutAccounted /\ RoundCovered
  <2>1. Owed = 0
    BY <1>1, <1>6 DEF Owed, NoDistribution
  <2> QED BY <1>1, <2>1 DEF PayoutAccounted, RoundCovered
<1>8. FundsExact
  BY <1>1, MobRuleAssumption DEF FundsExact
<1> QED BY <1>3, <1>5, <1>7, <1>8 DEF MoneyInv

\* What a schedule of a list promises is a natural.
LEMMA PromisedType ==
  ASSUME NEW s \in Seq(Schedule)
  PROVE  /\ Len(s) \in Nat /\ DOMAIN s = 1..Len(s) /\ IsFiniteSet(DOMAIN s)
         /\ \A i \in DOMAIN s : /\ s[i] \in Schedule
                                /\ Promised(s)[i] = s[i].remaining * s[i].amount_per_round
                                /\ Promised(s)[i] \in Nat
         /\ Total(DOMAIN s, Promised(s)) \in Nat
<1>1. Len(s) \in Nat /\ DOMAIN s = 1..Len(s) /\ IsFiniteSet(DOMAIN s)
  BY LenProperties, FS_Interval
<1>2. ASSUME NEW i \in DOMAIN s
      PROVE  /\ s[i] \in Schedule
             /\ Promised(s)[i] = s[i].remaining * s[i].amount_per_round
             /\ Promised(s)[i] \in Nat
  <2>1. s[i] \in Schedule
    BY <1>1, ElementOfSeq
  <2>2. s[i].remaining \in Nat /\ s[i].amount_per_round \in Nat
    BY <2>1 DEF Schedule
  <2>3. s[i].remaining * s[i].amount_per_round \in Nat
    BY <2>2
  <2> QED BY <2>1, <2>3 DEF Promised
<1>3. \A i \in DOMAIN s : Promised(s)[i] \in Nat
  BY <1>2
<1>4. Total(DOMAIN s, Promised(s)) \in Nat
  BY <1>1, <1>3, TotalType
<1> QED BY <1>1, <1>2, <1>4

\* A schedule added at the end adds what it promises.
LEMMA PromisedAppended ==
  ASSUME NEW s \in Seq(Schedule), NEW e \in Schedule
  PROVE  Total(DOMAIN Append(s, e), Promised(Append(s, e)))
           = Total(DOMAIN s, Promised(s)) + e.remaining * e.amount_per_round
<1> DEFINE a == Append(s, e)
           n == Len(s) + 1
<1>1. /\ a \in Seq(Schedule) /\ Len(a) = n /\ a[n] = e
      /\ \A i \in 1..Len(s) : a[i] = s[i]
  BY AppendProperties
<1>2. /\ Len(s) \in Nat /\ DOMAIN s = 1..Len(s)
      /\ \A i \in DOMAIN s : Promised(s)[i] = s[i].remaining * s[i].amount_per_round
      /\ Total(DOMAIN s, Promised(s)) \in Nat
  BY PromisedType
<1> HIDE DEF a
<1>3. /\ DOMAIN a = 1..n /\ IsFiniteSet(DOMAIN a)
      /\ \A i \in DOMAIN a : /\ Promised(a)[i] = a[i].remaining * a[i].amount_per_round
                             /\ Promised(a)[i] \in Nat
  BY <1>1, PromisedType
<1>4. n \in DOMAIN a /\ DOMAIN a \ {n} = 1..Len(s)
  BY <1>2, <1>3
<1>5. Total(DOMAIN a, Promised(a)) = Promised(a)[n] + Total(DOMAIN a \ {n}, Promised(a))
  BY <1>3, <1>4, TotalStep
<1>6. \A i \in DOMAIN s : Promised(a)[i] = Promised(s)[i]
  BY <1>1, <1>2, <1>3, <1>4
<1>7. Total(DOMAIN s, Promised(a)) = Total(DOMAIN s, Promised(s))
  BY <1>6, TotalSame
<1>8. Promised(a)[n] = e.remaining * e.amount_per_round /\ Promised(a)[n] \in Nat
  BY <1>1, <1>3, <1>4
<1>9. Total(DOMAIN a, Promised(a)) = Promised(a)[n] + Total(DOMAIN s, Promised(s))
  BY <1>2, <1>4, <1>5, <1>7
<1>10. Total(DOMAIN a, Promised(a)) = Total(DOMAIN s, Promised(s)) + Promised(a)[n]
  BY <1>2, <1>8, <1>9
<1> QED BY <1>8, <1>10 DEF a

\* A schedule taken out takes out what it promises.
LEMMA PromisedRemoved ==
  ASSUME NEW s \in Seq(Schedule), NEW i \in DOMAIN s
  PROVE  Total(DOMAIN s, Promised(s))
           = Promised(s)[i] + Total(DOMAIN RemoveAt(s, i), Promised(RemoveAt(s, i)))
<1> DEFINE a == RemoveAt(s, i)
           n == Len(s)
<1>1. n \in Nat /\ DOMAIN s = 1..n /\ \A j \in 1..n : Promised(s)[j] \in Nat
  BY PromisedType
<1>2. /\ a \in Seq(Schedule) /\ Len(a) = n - 1
      /\ \A j \in 1..(n - 1) : a[j] = IF j < i THEN s[j] ELSE s[j + 1]
  BY <1>1, RemoveAtFacts
<1>3. \A j \in 1..n : Promised(s)[j] = s[j].remaining * s[j].amount_per_round
  BY <1>1, PromisedType
<1> HIDE DEF a, n
<1>4. DOMAIN a = 1..(n - 1) /\ \A j \in DOMAIN a : Promised(a)[j] = a[j].remaining * a[j].amount_per_round
  BY <1>2, PromisedType
<1>5. \A j \in 1..(n - 1) : Promised(a)[j] = IF j < i THEN Promised(s)[j] ELSE Promised(s)[j + 1]
  <2> SUFFICES ASSUME NEW j \in 1..(n - 1)
               PROVE  Promised(a)[j] = IF j < i THEN Promised(s)[j] ELSE Promised(s)[j + 1]
    OBVIOUS
  <2>1. j \in 1..n /\ j + 1 \in 1..n
    BY <1>1
  <2> QED BY <1>2, <1>3, <1>4, <2>1
<1>6. i \in 1..n
  BY <1>1
<1>7. Total(1..n, Promised(s)) = Promised(s)[i] + Total(1..(n - 1), Promised(a))
  <2> DEFINE f == Promised(s)
             g == Promised(a)
  <2>1. n \in Nat /\ OneOut(n, i, f, g)
    BY <1>1, <1>5 DEF OneOut
  <2> HIDE DEF f, g
  <2>2. Total(1..n, f) = f[i] + Total(1..(n - 1), g)
    BY <1>6, <2>1, TotalRemoveAt
  <2> QED BY <2>2 DEF f, g
<1> QED BY <1>1, <1>4, <1>7 DEF a

\* A schedule with a round less keeps its amount.
LEMMA ScheduleLess ==
  ASSUME NEW r \in Schedule, ~(r.remaining <= 1)
  PROVE  /\ [r EXCEPT !.remaining = r.remaining - 1] \in Schedule
         /\ [r EXCEPT !.remaining = r.remaining - 1].remaining = r.remaining - 1
         /\ [r EXCEPT !.remaining = r.remaining - 1].amount_per_round = r.amount_per_round
<1>1. r.remaining - 1 \in Nat \ {0}
  BY DEF Schedule
<1> QED BY <1>1 DEF Schedule

\* A round less is the amount of one round less, unless there was none.
LEMMA PromisedSpent ==
  ASSUME NEW s \in Seq(Schedule), s # <<>>
  PROVE  /\ s[1].amount_per_round \in Nat /\ s[1].remaining \in Nat
         /\ Total(DOMAIN s, Promised(s))
              = (IF s[1].remaining = 0 THEN 0 ELSE s[1].amount_per_round)
                + Total(DOMAIN OneRoundLess(s), Promised(OneRoundLess(s)))
<1>1. Len(s) \in Nat \ {0} /\ DOMAIN s = 1..Len(s)
  BY EmptySeq, LenProperties
<1>2. 1 \in DOMAIN s /\ IsFiniteSet(DOMAIN s)
  BY <1>1, FS_Interval
<1>3. /\ s[1] \in Schedule /\ Promised(s)[1] = s[1].remaining * s[1].amount_per_round
      /\ \A j \in DOMAIN s : Promised(s)[j] \in Nat
  BY <1>2, PromisedType
<1>4. s[1].remaining \in Nat /\ s[1].amount_per_round \in Nat
  BY <1>3 DEF Schedule
<1>5. CASE s[1].remaining <= 1
  <2>1. s[1].remaining \in {0, 1}
    BY <1>4, <1>5
  <2>2. Promised(s)[1] = IF s[1].remaining = 0 THEN 0 ELSE s[1].amount_per_round
    <3>1. \A n \in Nat : 0 * n = 0 /\ 1 * n = n
      OBVIOUS
    <3> QED BY <1>3, <1>4, <2>1, <3>1
  <2>3. OneRoundLess(s) = RemoveAt(s, 1)
    BY <1>5 DEF OneRoundLess
  <2>4. Total(DOMAIN s, Promised(s))
          = Promised(s)[1] + Total(DOMAIN RemoveAt(s, 1), Promised(RemoveAt(s, 1)))
    BY <1>2, PromisedRemoved
  <2> QED BY <1>4, <2>2, <2>3, <2>4
<1>6. CASE ~(s[1].remaining <= 1)
  <2> DEFINE r == [s[1] EXCEPT !.remaining = s[1].remaining - 1]
             a == [s EXCEPT ![1] = r]
             p == s[1].remaining
             n == s[1].amount_per_round
  <2>1. r \in Schedule /\ r.remaining = p - 1 /\ r.amount_per_round = n
    BY <1>3, <1>4, <1>6, ScheduleLess
  <2>2. OneRoundLess(s) = a
    BY <1>6 DEF OneRoundLess
  <2> HIDE DEF r
  <2>3. a \in Seq(Schedule)
    BY <1>1, <2>1, ExceptSeq
  <2>4. DOMAIN a = DOMAIN s /\ a[1] = r /\ \A j \in DOMAIN s \ {1} : a[j] = s[j]
    BY <1>1, <1>2
  <2> HIDE DEF a
  <2>5. \A j \in DOMAIN s : /\ Promised(a)[j] = a[j].remaining * a[j].amount_per_round
                            /\ Promised(a)[j] \in Nat
    BY <2>3, <2>4, PromisedType
  <2>6. \A j \in DOMAIN s : Promised(s)[j] = s[j].remaining * s[j].amount_per_round
    BY PromisedType
  <2>7. \A j \in DOMAIN s \ {1} : Promised(s)[j] = Promised(a)[j]
    BY <2>4, <2>5, <2>6
  <2>8. Total(DOMAIN s, Promised(a)) = Total(DOMAIN s, Promised(s)) - Promised(s)[1] + Promised(a)[1]
    <3> DEFINE f == Promised(s)
               g == Promised(a)
               S == DOMAIN s
    <3>1. /\ IsFiniteSet(S) /\ 1 \in S /\ \A y \in S : f[y] \in Nat /\ g[y] \in Nat
          /\ \A y \in S \ {1} : f[y] = g[y]
      BY <1>2, <1>3, <2>5, <2>7
    <3> HIDE DEF f, g, S
    <3>2. Total(S, g) = Total(S, f) - f[1] + g[1]
      BY <3>1, TotalUpdate
    <3> QED BY <3>2 DEF f, g, S
  <2>9. Promised(a)[1] = (p - 1) * n
    BY <1>2, <2>1, <2>4, <2>5
  <2>10. p \in Nat /\ n \in Nat /\ Promised(s)[1] = p * n
    BY <1>3, <1>4
  <2> HIDE DEF p, n
  <2>11. (p - 1) * n = p * n - n
    BY <2>10
  <2>12. Total(DOMAIN s, Promised(s)) \in Nat
    BY PromisedType
  <2>13. Total(DOMAIN s, Promised(a)) = Total(DOMAIN s, Promised(s)) - n
    BY <2>8, <2>9, <2>10, <2>11, <2>12
  <2>14. Total(DOMAIN s, Promised(s)) = n + Total(DOMAIN s, Promised(a))
    BY <2>10, <2>12, <2>13
  <2>15. s[1].remaining # 0
    BY <1>6
  <2> QED BY <1>4, <2>2, <2>4, <2>14, <2>15 DEF n
<1> QED BY <1>5, <1>6

\* The sums are of naturals.
LEMMA MoneyTypes ==
  ASSUME RewardTypes
  PROVE  /\ \A r : Total(Voters, PointsOf(votingPoints, r)) \in Nat
         /\ \A d \in Distribution : Total(Voters, ClaimsOf(votingPoints, d)) \in Nat
         /\ Total(Voters, CreditOf(credits)) \in Nat
         /\ Total(DOMAIN roundSchedules, Promised(roundSchedules)) \in Nat
<1>1. \A r : Total(Voters, PointsOf(votingPoints, r)) \in Nat
  BY PointsSum, TotalType, MobRuleAssumption
<1>2. \A d \in Distribution : Total(Voters, ClaimsOf(votingPoints, d)) \in Nat
  BY ClaimsSum, TotalType, MobRuleAssumption
<1>3. Total(Voters, CreditOf(credits)) \in Nat
  BY CreditSum, TotalType, MobRuleAssumption
<1>4. Total(DOMAIN roundSchedules, Promised(roundSchedules)) \in Nat
  BY PromisedType DEF RewardTypes
<1> QED BY <1>1, <1>2, <1>3, <1>4

\* Only what voters are credited counts of their records.
LEMMA CreditSame ==
  ASSUME CreditExact, \A v \in Voters : credits'[v].credit = credits[v].credit,
         pot'.credit = pot.credit
  PROVE  CreditExact'
<1> DEFINE f == CreditOf(credits)
           g == CreditOf(credits')
<1>1. \A v \in Voters : f[v] = g[v]
  BY DEF CreditOf
<1> HIDE DEF f, g
<1>2. Total(Voters, f) = Total(Voters, g)
  BY <1>1, TotalSame
<1> QED BY <1>2 DEF CreditExact, f, g

\* Voting, cleaning and everything that leaves the rewards alone.
LEMMA MoneySame ==
  ASSUME MoneyInv, UNCHANGED rewardVars,
         \A v \in Voters : credits'[v].credit = credits[v].credit
  PROVE  MoneyInv'
<1>1. CreditExact'
  BY CreditSame DEF MoneyInv, rewardVars
<1>2. PointsExact' /\ RoundCovered' /\ PayoutAccounted' /\ FundsExact'
  BY DEF MoneyInv, rewardVars, PointsExact, RoundCovered, PayoutAccounted, Owed, FundsExact, PointsRound
<1> QED BY <1>1, <1>2 DEF MoneyInv

\* do_claim_votes adds the same points to the voter and to the sum.
LEMMA MoneyClaimVotes ==
  ASSUME RewardTypes, MoneyInv, NEW v \in Voters, NEW cs \in SUBSET Cases,
         do_claim_votes(v, cs), RewardTypes'
  PROVE  MoneyInv'
<1>1. PICK points \in 0..Cardinality(cs) :
           /\ credits'[v] = [credits[v] EXCEPT !.cleaned = @ + Cardinality(cs),
                                               !.correct = @ + points]
           /\ \A w \in Voters \ {v} : credits'[w] = credits[w]
           /\ votingPoints' = Insert(votingPoints, <<PointsRound, v>>,
                                     Get(votingPoints, <<PointsRound, v>>) + points)
           /\ accumulatedPoints' = accumulatedPoints + points
  BY ClaimEffect
<1>2. /\ UNCHANGED <<payoutDistribution, roundSchedules, pot, paid, unbacked>>
      /\ PointsRound' = PointsRound
  BY DEF do_claim_votes, PointsRound
<1>3. points \in Nat /\ accumulatedPoints \in Nat
  BY CasesFinite DEF RewardTypes
<1>4. CreditExact'
  <2>1. credits[v] \in Credit
    BY DEF RewardTypes
  <2>2. credits'[v].credit = credits[v].credit
    BY <1>1, <2>1 DEF Credit
  <2> QED BY <1>1, <1>2, <2>2, CreditSame DEF MoneyInv
<1>5. PayoutAccounted' /\ FundsExact'
  BY <1>2 DEF MoneyInv, PayoutAccounted, Owed, FundsExact
<1> DEFINE q == PointsRound
           f == PointsOf(votingPoints, q)
           g == PointsOf(votingPoints', q)
<1>6. /\ g[v] = Get(votingPoints, <<q, v>>) + points
      /\ \A w \in Voters \ {v} : f[w] = g[w]
      /\ \A r : r # q => PointsOf(votingPoints', r) = PointsOf(votingPoints, r)
  <2> DEFINE k == Get(votingPoints, <<q, v>>) + points
             m == votingPoints'
  <2>1. m = Insert(votingPoints, <<q, v>>, k)
    BY <1>1
  <2> HIDE DEF k, m, q
  <2>2. /\ PointsOf(m, q)[v] = k
        /\ \A w \in Voters \ {v} : PointsOf(m, q)[w] = PointsOf(votingPoints, q)[w]
        /\ \A r : r # q => PointsOf(m, r) = PointsOf(votingPoints, r)
    BY <2>1 DEF PointsOf, Insert, Get
  <2> QED BY <2>2 DEF k, m
<1>7. \A w \in Voters : f[w] \in Nat
  BY PointsSum
<1>8. f[v] = Get(votingPoints, <<q, v>>)
  BY DEF PointsOf
<1>9. g[v] = f[v] + points /\ \A w \in Voters : g[w] \in Nat
  BY <1>3, <1>6, <1>7, <1>8
<1>10. PointsExact'
  <2>1. Total(Voters, f) = accumulatedPoints
    BY DEF MoneyInv, PointsExact
  <2> HIDE DEF f, g
  <2>2. Total(Voters, g) = Total(Voters, f) - f[v] + g[v]
    <3>1. IsFiniteSet(Voters)
      BY MobRuleAssumption
    <3> QED BY <1>6, <1>7, <1>9, <3>1, TotalUpdate
  <2>3. f[v] \in Nat
    BY <1>7
  <2>4. Total(Voters, g) = accumulatedPoints + points
    BY <1>3, <1>9, <2>1, <2>2, <2>3
  <2> QED BY <1>1, <1>2, <2>4 DEF PointsExact, g
<1>11. RoundCovered'
  <2> SUFFICES ASSUME payoutDistribution # NoDistribution
               PROVE  /\ Total(Voters, PointsOf(votingPoints', payoutDistribution.round))
                           <= payoutDistribution.total_points
                      /\ Total(Voters, ClaimsOf(votingPoints', payoutDistribution))
                           <= payoutDistribution.remaining_balance
    BY <1>2 DEF RoundCovered
  <2> DEFINE d == payoutDistribution
             a == ClaimsOf(votingPoints, d)
             b == ClaimsOf(votingPoints', d)
  <2>1. payoutDistribution.round # PointsRound
    BY RoundTypes DEF RewardTypes
  <2>2. PointsOf(votingPoints', d.round) = PointsOf(votingPoints, d.round)
    BY <1>6, <2>1
  <2>3. \A w \in Voters : a[w] = b[w]
    BY <2>2, ClaimsDepend
  <2>4. Total(Voters, a) = Total(Voters, b)
    <3> HIDE DEF a, b
    <3> QED BY <2>3, TotalSame
  <2> QED BY <2>2, <2>4 DEF MoneyInv, RoundCovered
<1> QED BY <1>4, <1>5, <1>10, <1>11 DEF MoneyInv

\* schedule_payout_rounds holds what it promises.
LEMMA MoneySchedule ==
  ASSUME RewardTypes, MoneyInv, NEW s \in Schedules, schedule_payout_rounds(s)
  PROVE  MoneyInv'
<1> DEFINE n == s.amount_per_round * s.remaining
<1>1. s \in Schedule /\ s.amount_per_round \in Nat /\ s.remaining \in Nat
  BY MobRuleAssumption DEF Schedule
<1>2. n \in Nat /\ n = s.remaining * s.amount_per_round
  BY <1>1
<1>3. /\ pot.free >= n /\ pot' = [pot EXCEPT !.free = @ - n, !.payout = @ + n]
      /\ roundSchedules' = Append(roundSchedules, s)
      /\ UNCHANGED <<credits, votingPoints, accumulatedPoints, payoutDistribution, paid,
                     unbacked>>
  BY DEF schedule_payout_rounds, voterVars
<1> HIDE DEF n
<1>4. pot \in Pot /\ pot.free \in Nat /\ pot.payout \in Nat /\ pot.credit \in Nat
  BY PotTypes
<1>5. /\ pot'.free = pot.free - n /\ pot'.payout = pot.payout + n /\ pot'.credit = pot.credit
  <2>1. n <= pot.free
    BY <1>2, <1>3, <1>4
  <2>2. pot \in Pot /\ pot' = [pot EXCEPT !.free = @ - n, !.payout = @ + n]
    BY <1>3, <1>4
  <2> QED BY <1>2, <2>1, <2>2, PotHolds
<1>6. CreditExact' /\ PointsExact' /\ RoundCovered'
  BY <1>3, <1>5 DEF MoneyInv, CreditExact, PointsExact, RoundCovered, PointsRound
<1>7. FundsExact'
  <2>1. paid \in Nat
    BY DEF RewardTypes
  <2> QED BY <1>2, <1>3, <1>4, <1>5, <2>1 DEF MoneyInv, FundsExact
<1>8. PayoutAccounted'
  <2>1. Total(DOMAIN roundSchedules', Promised(roundSchedules'))
          = Total(DOMAIN roundSchedules, Promised(roundSchedules)) + n
    BY <1>1, <1>2, <1>3, PromisedAppended DEF RewardTypes
  <2>2. /\ payoutDistribution.remaining_balance \in Nat
        /\ Total(DOMAIN roundSchedules, Promised(roundSchedules)) \in Nat
    BY RoundTypes, MoneyTypes DEF RewardTypes
  <2>3. Owed' = Owed + n /\ Owed \in Nat /\ unbacked \in Nat
    BY <1>2, <1>3, <2>1, <2>2 DEF Owed, RewardTypes
  <2>4. pot.payout <= Owed /\ Owed <= pot.payout + unbacked
    BY DEF MoneyInv, PayoutAccounted
  <2> QED BY <1>2, <1>3, <1>4, <1>5, <2>3, <2>4 DEF PayoutAccounted
<1> QED BY <1>6, <1>7, <1>8 DEF MoneyInv

\* remove_payout_schedule releases what it promised, or all that is held.
LEMMA MoneyRemove ==
  ASSUME RewardTypes, MoneyInv, NEW i \in DOMAIN roundSchedules,
         remove_payout_schedule(i)
  PROVE  MoneyInv'
<1> DEFINE s == roundSchedules[i]
           n == s.amount_per_round * s.remaining
           P == Total(DOMAIN roundSchedules, Promised(roundSchedules))
           Q == Total(DOMAIN RemoveAt(roundSchedules, i), Promised(RemoveAt(roundSchedules, i)))
<1>1. roundSchedules \in Seq(Schedule) /\ paid \in Nat
  BY DEF RewardTypes
<1>2. s \in Schedule /\ Promised(roundSchedules)[i] = s.remaining * s.amount_per_round
  BY <1>1, PromisedType
<1>3. n \in Nat /\ Promised(roundSchedules)[i] = n
  BY <1>2 DEF Schedule
<1>4. P = n + Q
  BY <1>1, <1>3, PromisedRemoved
<1>5. RemoveAt(roundSchedules, i) \in Seq(Schedule)
  BY <1>1, RemoveAtFacts, LenProperties
<1>6. P \in Nat /\ Q \in Nat
  BY <1>1, <1>5, PromisedType
<1>7. pot \in Pot /\ pot.free \in Nat /\ pot.payout \in Nat /\ pot.credit \in Nat
  BY PotTypes
<1>8. pot.payout <= Owed /\ Owed <= pot.payout + unbacked
      /\ Owed = payoutDistribution.remaining_balance + P
  BY DEF MoneyInv, PayoutAccounted, Owed
<1>9. payoutDistribution.remaining_balance \in Nat /\ unbacked \in Nat
  BY RoundTypes DEF RewardTypes
<1>10. /\ roundSchedules' = RemoveAt(roundSchedules, i)
       /\ pot' = [pot EXCEPT !.free = @ + Released(pot.payout, n),
                             !.payout = @ - Released(pot.payout, n)]
       /\ UNCHANGED <<credits, votingPoints, accumulatedPoints, payoutDistribution, paid,
                      unbacked>>
  BY DEF remove_payout_schedule, voterVars
<1> DEFINE r == Released(pot.payout, n)
<1> HIDE DEF n, P, Q, s
<1>11. r \in Nat /\ r <= pot.payout /\ r <= n /\ (r = n \/ r = pot.payout)
  BY <1>3, <1>7, MinOfTwo DEF Released
<1>13. pot' = [pot EXCEPT !.free = @ + r, !.payout = @ - r]
  BY <1>10
<1> HIDE DEF r
<1>14. /\ pot'.free = pot.free + r /\ pot'.payout = pot.payout - r /\ pot'.credit = pot.credit
  BY <1>7, <1>11, <1>13, PotReleases
<1>15. CreditExact' /\ PointsExact' /\ RoundCovered'
  BY <1>10, <1>14 DEF MoneyInv, CreditExact, PointsExact, RoundCovered, PointsRound
<1>16. FundsExact'
  BY <1>1, <1>7, <1>10, <1>11, <1>14 DEF MoneyInv, FundsExact
<1>17. PayoutAccounted'
  <2>1. Owed' = payoutDistribution.remaining_balance + Q
    BY <1>10 DEF Owed, Q
  <2>2. Owed' = Owed - n /\ Owed' \in Nat
    BY <1>3, <1>4, <1>6, <1>8, <1>9, <2>1
  <2>3. pot'.payout <= Owed' /\ Owed' <= pot'.payout + unbacked
    BY <1>3, <1>7, <1>8, <1>9, <1>11, <1>14, <2>2
  <2> QED BY <1>10, <2>3 DEF PayoutAccounted
<1> QED BY <1>15, <1>16, <1>17 DEF MoneyInv

\* start_payout_round: the leftover goes back to the free balance, the amount
\* of one round passes from the first schedule to the round (or comes from
\* nowhere, if the schedule has none left), and the points accumulated so far
\* become those of the round.
LEMMA MoneyStartRound ==
  ASSUME RewardTypes, MoneyInv, start_payout_round, RewardTypes'
  PROVE  MoneyInv'
<1> DEFINE d == payoutDistribution
           e == payoutDistribution'
           rem == payoutDistribution.remaining_balance
           s == roundSchedules
           amount == s[1].amount_per_round
           held == IF s[1].remaining = 0 THEN 0 ELSE amount
           P == Total(DOMAIN s, Promised(s))
           Q == Total(DOMAIN OneRoundLess(s), Promised(OneRoundLess(s)))
<1>1. s \in Seq(Schedule) /\ s # <<>> /\ paid \in Nat /\ accumulatedPoints \in Nat
  BY DEF RewardTypes, start_payout_round
<1>2. Head(s) = s[1] /\ amount \in Nat
  BY <1>1, HeadSchedule
<1>3. /\ pot' = [pot EXCEPT !.free = @ + Leftover(d), !.payout = @ - Leftover(d)]
      /\ accumulatedPoints' = 0 /\ accumulatedPoints > 0
      /\ UNCHANGED <<credits, votingPoints, paid>>
  BY DEF start_payout_round, voterVars
<1>20. unbacked' = unbacked + (amount - held) /\ unbacked \in Nat
  BY <1>2 DEF start_payout_round, RewardTypes
<1>4. /\ e = [round |-> PointsRound, initial_balance |-> amount,
              remaining_balance |-> amount,
              total_points |-> accumulatedPoints, age |-> 0]
      /\ roundSchedules' = IF s[1].remaining <= 1 THEN Tail(s)
                           ELSE [s EXCEPT ![1].remaining = @ - 1]
  BY <1>2 DEF start_payout_round, PointsRound
<1>5. roundSchedules' = OneRoundLess(s)
  BY <1>1, <1>4, OneRoundLessType
<1>6. P = held + Q /\ held \in Nat
  BY <1>1, <1>2, PromisedSpent
<1>7. P \in Nat /\ Q \in Nat
  BY <1>1, OneRoundLessType, PromisedType
<1>8. pot \in Pot /\ pot.free \in Nat /\ pot.payout \in Nat /\ pot.credit \in Nat
  BY PotTypes
<1>9. rem \in Nat /\ PointsRound \in Nat
  BY RoundTypes DEF RewardTypes
<1>10. pot.payout <= rem + P /\ rem + P <= pot.payout + unbacked
  BY DEF MoneyInv, PayoutAccounted, Owed
<1>11. /\ e.round = PointsRound /\ e.initial_balance = amount
       /\ e.remaining_balance = amount /\ e.total_points = accumulatedPoints
  BY <1>4
<1>12. e \in Distribution
  BY <1>1, <1>2, <1>3, <1>4, <1>9 DEF Distribution
<1> DEFINE r == Leftover(d)
<1> HIDE DEF P, Q, amount, held
<1>13. r \in Nat /\ r <= pot.payout /\ r <= rem /\ (r = rem \/ r = pot.payout)
  BY <1>8, <1>9, MinOfTwo DEF Leftover, Released
<1>14. pot'.free = pot.free + r /\ pot'.payout = pot.payout - r /\ pot'.credit = pot.credit
  <2>1. pot' = [pot EXCEPT !.free = @ + r, !.payout = @ - r]
    BY <1>3
  <2> HIDE DEF r
  <2> QED BY <1>8, <1>13, <2>1, PotReleases
<1> HIDE DEF r
<1>15. CreditExact'
  BY <1>3, <1>14 DEF MoneyInv, CreditExact
<1>16. FundsExact'
  BY <1>1, <1>3, <1>8, <1>13, <1>14 DEF MoneyInv, FundsExact
<1>17. PayoutAccounted'
  <2>1. Owed' = amount + Q
    BY <1>5, <1>11 DEF Owed, Q
  <2>2. held = amount \/ held = 0
    BY DEF held
  <2>3. amount \in Nat /\ held \in Nat /\ held <= amount
    BY <1>2, <1>6, <2>2 DEF amount
  <2> HIDE DEF rem
  <2>4. pot'.payout <= Owed' /\ Owed' <= pot'.payout + unbacked'
    BY <1>6, <1>7, <1>8, <1>9, <1>10, <1>13, <1>14, <1>20, <2>1, <2>3
  <2> QED BY <2>4 DEF PayoutAccounted
<1>18. PointsExact'
  <2>1. PointsRound' = PointsRound + 1
    BY <1>11 DEF PointsRound
  <2>2. \A v \in Voters : <<PointsRound + 1, v>> \notin DOMAIN votingPoints
    <3>1. DOMAIN votingPoints \subseteq (0..PointsRound) \X Voters
      BY DEF RewardTypes, IsPartialFunction
    <3>2. \A v \in Voters : <<PointsRound + 1, v>> \notin (0..PointsRound) \X Voters
      BY <1>9
    <3> QED BY <3>1, <3>2
  <2>3. \A v \in Voters : PointsOf(votingPoints, PointsRound + 1)[v] = 0
    BY <2>2 DEF PointsOf, Get
  <2>4. Total(Voters, PointsOf(votingPoints, PointsRound + 1)) = 0
    BY <2>3, TotalZero
  <2> QED BY <1>3, <2>1, <2>4 DEF PointsExact
<1>19. RoundCovered'
  <2>1. Total(Voters, PointsOf(votingPoints, e.round)) = e.total_points
    BY <1>11 DEF MoneyInv, PointsExact
  <2>2. e.total_points \in Nat
    BY <1>1, <1>11
  <2>3. Total(Voters, PointsOf(votingPoints, e.round)) <= e.total_points
    BY <2>1, <2>2
  <2>4. Total(Voters, ClaimsOf(votingPoints, e)) <= e.initial_balance
    BY <1>12, <2>3, SharesCovered
  <2> QED BY <1>3, <1>11, <2>3, <2>4 DEF RoundCovered
<1> QED BY <1>15, <1>16, <1>17, <1>18, <1>19 DEF MoneyInv

\* The round changes only in what is left and in its age.
LEMMA DistributionUpdate ==
  ASSUME NEW d \in Distribution, NEW n, NEW a, NEW e,
         \/ e = [d EXCEPT !.remaining_balance = n]
         \/ e = [d EXCEPT !.age = a]
  PROVE  /\ e.round = d.round /\ e.total_points = d.total_points
         /\ e.initial_balance = d.initial_balance
         /\ e = [d EXCEPT !.remaining_balance = n] => e.remaining_balance = n
         /\ e = [d EXCEPT !.age = a] => e.remaining_balance = d.remaining_balance
BY DEF Distribution

\* claim_credit: what is released leaves the round and the hold alike, since
\* the round covers all claims; the points are gone, paid in full or not.
LEMMA MoneyClaimCredit ==
  ASSUME RewardTypes, MoneyInv, NEW v \in Voters, claim_credit(v), RewardTypes'
  PROVE  MoneyInv'
<1> DEFINE d == payoutDistribution
           e == payoutDistribution'
           rem == d.remaining_balance
           f == ClaimsOf(votingPoints, d)
           g == ClaimsOf(votingPoints', e)
           n == f[v]
           P == Total(DOMAIN roundSchedules, Promised(roundSchedules))
           x == PointsOf(votingPoints, d.round)
           y == PointsOf(votingPoints', d.round)
<1>1. d \in Distribution /\ d # NoDistribution
  BY ClaimCreditEffect DEF claim_credit
<1>2. rem \in Nat /\ d.round \in Int /\ d.round < PointsRound /\ PointsRound \in Nat
  BY RoundTypes DEF RewardTypes
<1>3. /\ \A w \in Voters : f[w] \in Nat /\ x[w] \in Nat
      /\ Total(Voters, f) \in Nat /\ Total(Voters, x) \in Nat /\ P \in Nat
  BY <1>1, ClaimsSum, PointsSum, MoneyTypes
<1>4. /\ Total(Voters, x) <= d.total_points /\ Total(Voters, f) <= rem
      /\ pot.payout <= rem + P /\ rem + P <= pot.payout + unbacked
  BY <1>1 DEF MoneyInv, RoundCovered, PayoutAccounted, Owed
<1>5. n = Claimable(Get(votingPoints, <<d.round, v>>), d)
  BY DEF ClaimsOf
<1>6. PICK released \in Nat :
              /\ released = Released(pot.payout,
                   Claimable(Get(votingPoints, <<payoutDistribution.round, v>>),
                             payoutDistribution))
              /\ released <= pot.payout
              /\ payoutDistribution' = [payoutDistribution EXCEPT !.remaining_balance =
                   IF @ >= released THEN @ - released ELSE 0]
              /\ pot' = [pot EXCEPT !.payout = @ - released, !.credit = @ + released]
              /\ credits' = [credits EXCEPT ![v] =
                   [credits[v] EXCEPT !.credit = credits[v].credit + released]]
  BY ClaimCreditEffect
<1>7. pot \in Pot /\ pot.free \in Nat /\ pot.payout \in Nat /\ pot.credit \in Nat
  BY PotTypes
<1>8. n \in Nat /\ n <= rem
  <2>1. n \in Nat
    BY <1>3
  <2>2. n <= Total(Voters, f)
    <3> HIDE DEF f
    <3> QED BY <1>3, TotalBound, MobRuleAssumption
  <2> HIDE DEF f, n, P, rem
  <2> QED BY <1>2, <1>3, <1>4, <1>7, <2>1, <2>2
<1>9. released <= n /\ released <= rem /\ released <= pot.payout
  <2>1. released = Released(pot.payout, n)
    BY <1>5, <1>6
  <2> HIDE DEF n, rem
  <2>2. released <= n /\ released <= pot.payout
    BY <1>7, <1>8, <2>1, MinOfTwo DEF Released
  <2> QED BY <1>2, <1>8, <2>2
<1>10. /\ votingPoints' = Without(votingPoints, <<d.round, v>>)
       /\ UNCHANGED <<accumulatedPoints, roundSchedules, paid, unbacked>>
  BY DEF claim_credit, PointsTaken
<1>11. /\ e.round = d.round /\ e.total_points = d.total_points
       /\ e.initial_balance = d.initial_balance /\ e.remaining_balance = rem - released
  <2> DEFINE k == IF rem >= released THEN rem - released ELSE 0
  <2>1. e = [d EXCEPT !.remaining_balance = k]
    BY <1>6
  <2>2. k = rem - released
    BY <1>2, <1>9
  <2> HIDE DEF k, e, d
  <2> QED BY <1>1, <2>1, <2>2, DistributionUpdate
<1>12. /\ pot'.free = pot.free /\ pot'.payout = pot.payout - released
       /\ pot'.credit = pot.credit + released
  <2>1. pot' = [pot EXCEPT !.payout = @ - released, !.credit = @ + released]
    BY <1>6
  <2> QED BY <1>7, <1>9, <2>1, PotCredits, Zenon
<1>13. FundsExact'
  <2>1. paid \in Nat
    BY DEF RewardTypes
  <2> QED BY <1>7, <1>9, <1>10, <1>12, <2>1 DEF MoneyInv, FundsExact
<1>14. PayoutAccounted'
  <2>1. unbacked \in Nat
    BY DEF RewardTypes
  <2>2. /\ pot'.payout <= (rem - released) + P
        /\ (rem - released) + P <= pot'.payout + unbacked
    <3> HIDE DEF n, P, rem
    <3> QED BY <1>2, <1>3, <1>4, <1>7, <1>9, <1>12, <2>1
  <2> HIDE DEF rem, d, e
  <2>3. Owed' = (rem - released) + P
    BY <1>10, <1>11 DEF Owed, e
  <2> QED BY <1>10, <2>2, <2>3 DEF PayoutAccounted
<1>15. CreditExact'
  <2> DEFINE a == CreditOf(credits)
             b == CreditOf(credits')
  <2>1. credits \in [Voters -> Credit] /\ credits[v] \in Credit /\ credits[v].credit \in Nat
    BY DEF RewardTypes, Credit
  <2>2. \A w \in Voters : a[w] \in Nat
    BY CreditSum
  <2>3. credits' = [credits EXCEPT ![v] =
                      [credits[v] EXCEPT !.credit = credits[v].credit + released]]
    BY <1>6
  <2>4. /\ credits'[v].credit = credits[v].credit + released
        /\ \A w \in Voters \ {v} : credits'[w] = credits[w]
    <3>1. credits'[v] = [credits[v] EXCEPT !.credit = credits[v].credit + released]
      BY <2>1, <2>3
    <3>2. \A w \in Voters \ {v} : credits'[w] = credits[w]
      BY <2>1, <2>3
    <3>3. credits'[v].credit = credits[v].credit + released
      BY <2>1, <3>1 DEF Credit
    <3> QED BY <3>2, <3>3
  <2>5. b[v] = a[v] + released /\ \A w \in Voters \ {v} : a[w] = b[w]
    BY <2>4 DEF CreditOf
  <2>6. \A w \in Voters : a[w] \in Nat /\ b[w] \in Nat
    BY <2>2, <2>5
  <2>7. pot.credit = Total(Voters, a)
    BY DEF MoneyInv, CreditExact
  <2> HIDE DEF a, b
  <2>8. Total(Voters, b) = Total(Voters, a) - a[v] + b[v]
    <3>1. IsFiniteSet(Voters)
      BY MobRuleAssumption
    <3> QED BY <2>5, <2>6, <3>1, TotalUpdate
  <2>9. a[v] \in Nat
    BY <2>2
  <2>10. pot'.credit = Total(Voters, b)
    BY <1>7, <1>12, <2>5, <2>7, <2>8, <2>9
  <2> QED BY <2>10 DEF CreditExact, b
<1>16. /\ y[v] = 0 /\ \A w \in Voters \ {v} : y[w] = x[w]
       /\ \A q : q # d.round => PointsOf(votingPoints', q) = PointsOf(votingPoints, q)
  <2> DEFINE r == d.round
             m == votingPoints'
  <2>1. m = Without(votingPoints, <<r, v>>)
    BY <1>10
  <2> HIDE DEF m, r
  <2>2. /\ PointsOf(m, r)[v] = 0
        /\ \A w \in Voters \ {v} : PointsOf(m, r)[w] = PointsOf(votingPoints, r)[w]
        /\ \A q : q # r => PointsOf(m, q) = PointsOf(votingPoints, q)
    BY <2>1 DEF PointsOf, Without, Get
  <2> QED BY <2>2 DEF m, r
<1>17. PointsExact'
  <2>1. PointsRound' = PointsRound /\ PointsRound # d.round
    BY <1>2, <1>11 DEF PointsRound
  <2> QED BY <1>10, <1>16, <2>1 DEF MoneyInv, PointsExact
<1>18. Total(Voters, y) <= e.total_points
  <2>1. \A w \in Voters : y[w] \in Nat
    BY <1>3, <1>16
  <2>2. \A w \in Voters \ {v} : x[w] = y[w]
    BY <1>16
  <2>3. x[v] \in Nat /\ y[v] = 0
    BY <1>3, <1>16
  <2>4. d.total_points \in Nat
    BY <1>1 DEF Distribution
  <2> HIDE DEF x, y
  <2>5. Total(Voters, y) = Total(Voters, x) - x[v] + y[v]
    BY <1>3, <2>1, <2>2, TotalUpdate, MobRuleAssumption
  <2> QED BY <1>3, <1>4, <1>11, <2>3, <2>4, <2>5
<1>19. Total(Voters, g) <= rem - released
  <2>1. \A w \in Voters \ {v} : f[w] = g[w]
    BY <1>11, <1>16, ClaimsDepend
  <2>2. g[v] = 0
    <3>1. g[v] = Claimable(Get(votingPoints', <<e.round, v>>), e)
      BY DEF ClaimsOf
    <3>2. Get(votingPoints', <<e.round, v>>) = 0
      BY <1>11, <1>16 DEF PointsOf
    <3>3. e.total_points \in Nat \ {0} /\ e.initial_balance \in Nat /\ Accuracy \in Nat \ {0}
      BY <1>1, <1>11, MobRuleAssumption DEF Distribution
    <3>4. Claimable(0, e) = 0
      <4> HIDE DEF e
      <4>1. 0 * Accuracy = 0 /\ 0 \div e.total_points = 0 /\ 0 * e.initial_balance = 0
            /\ 0 \div Accuracy = 0
        BY <3>3
      <4> QED BY <4>1 DEF Claimable
    <3> QED BY <3>1, <3>2, <3>4
  <2>3. \A w \in Voters : f[w] \in Nat /\ g[w] \in Nat
    BY <1>3, <2>1, <2>2
  <2>4. n = f[v]
    OBVIOUS
  <2> HIDE DEF f, g, n, rem
  <2>5. Total(Voters, g) = Total(Voters, f) - f[v] + g[v]
    BY <2>1, <2>3, TotalUpdate, MobRuleAssumption
  <2> QED BY <1>2, <1>3, <1>4, <1>8, <1>9, <2>2, <2>4, <2>5
<1>20. RoundCovered'
  <2> HIDE DEF n, rem, d, f, x
  <2> QED BY <1>11, <1>18, <1>19 DEF RoundCovered, e
<1> QED BY <1>13, <1>14, <1>15, <1>17, <1>20 DEF MoneyInv

\* payout_rewards pays a voter's whole credit.
LEMMA MoneyPayout ==
  ASSUME RewardTypes, MoneyInv, NEW v \in Voters, payout_rewards(v)
  PROVE  MoneyInv'
<1> DEFINE n == credits[v].credit
           a == CreditOf(credits)
           b == CreditOf(credits')
<1>1. credits \in [Voters -> Credit] /\ credits[v] \in Credit /\ n \in Nat /\ paid \in Nat
  BY DEF RewardTypes, Credit
<1>2. pot \in Pot /\ pot.free \in Nat /\ pot.payout \in Nat /\ pot.credit \in Nat
  BY PotTypes
<1>3. /\ pot.credit >= n /\ pot' = [pot EXCEPT !.credit = @ - n]
      /\ paid' = paid + n
      /\ credits' = [credits EXCEPT ![v] = [credits[v] EXCEPT !.credit = 0]]
      /\ UNCHANGED <<votingPoints, accumulatedPoints, payoutDistribution, roundSchedules,
                     unbacked>>
  BY DEF payout_rewards
<1>4. /\ credits'[v].credit = 0 /\ \A w \in Voters \ {v} : credits'[w] = credits[w]
  <2>1. credits'[v] = [credits[v] EXCEPT !.credit = 0]
    BY <1>1, <1>3
  <2>2. credits'[v].credit = 0
    BY <1>1, <2>1 DEF Credit
  <2> QED BY <1>1, <1>3, <2>2
<1>5. \A w \in Voters : a[w] \in Nat
  BY CreditSum
<1>6. a[v] = n /\ b[v] = 0 /\ \A w \in Voters \ {v} : a[w] = b[w]
  BY <1>4 DEF CreditOf
<1>7. \A w \in Voters : a[w] \in Nat /\ b[w] \in Nat
  BY <1>5, <1>6
<1> HIDE DEF n
<1>8. pot'.free = pot.free /\ pot'.payout = pot.payout /\ pot'.credit = pot.credit - n
  <2>1. pot \in Pot /\ pot' = [pot EXCEPT !.credit = @ - n]
    BY <1>2, <1>3
  <2>2. n \in Nat /\ n <= pot.credit
    BY <1>1, <1>2, <1>3
  <2> QED BY <2>1, <2>2, PotPays
<1>9. FundsExact'
  BY <1>1, <1>2, <1>3, <1>8 DEF MoneyInv, FundsExact
<1>10. PayoutAccounted' /\ PointsExact' /\ RoundCovered'
  BY <1>3, <1>8 DEF MoneyInv, PayoutAccounted, Owed, PointsExact, RoundCovered, PointsRound
<1>11. CreditExact'
  <2>1. pot.credit = Total(Voters, a)
    BY DEF MoneyInv, CreditExact
  <2> HIDE DEF a, b
  <2>2. Total(Voters, b) = Total(Voters, a) - a[v] + b[v]
    <3>1. IsFiniteSet(Voters) /\ \A w \in Voters \ {v} : a[w] = b[w]
      BY <1>6, MobRuleAssumption
    <3> QED BY <1>7, <3>1, TotalUpdate
  <2>3. pot'.credit = Total(Voters, b)
    BY <1>1, <1>2, <1>6, <1>8, <2>1, <2>2
  <2> QED BY <2>3 DEF CreditExact, b
<1> QED BY <1>9, <1>10, <1>11 DEF MoneyInv

\* clean_points drops points of rounds that are over.
LEMMA MoneyCleanPoints ==
  ASSUME RewardTypes, MoneyInv, NEW v \in Voters, NEW r \in Int, clean_points(r, v)
  PROVE  MoneyInv'
<1> DEFINE d == payoutDistribution
           a == ClaimsOf(votingPoints, d)
           b == ClaimsOf(votingPoints', d)
           m == votingPoints'
<1>1. /\ r < d.round /\ m = Without(votingPoints, <<r, v>>)
      /\ UNCHANGED <<credits, accumulatedPoints, payoutDistribution, roundSchedules,
                     pot, paid, unbacked>>
  BY DEF clean_points, voterVars
<1>2. d.round \in Int /\ d.round < PointsRound /\ PointsRound \in Nat
  BY RoundTypes DEF RewardTypes
<1>3. d.round # r /\ PointsRound # r
  BY <1>1, <1>2
<1>4. \A q : q # r => PointsOf(m, q) = PointsOf(votingPoints, q)
  <2> HIDE DEF m
  <2> QED BY <1>1 DEF PointsOf, Without, Get
<1>5. PointsOf(m, d.round) = PointsOf(votingPoints, d.round)
  BY <1>3, <1>4
<1>6. \A w \in Voters : a[w] = b[w]
  BY <1>5, ClaimsDepend
<1>7. Total(Voters, a) = Total(Voters, b)
  <2> HIDE DEF a, b
  <2> QED BY <1>6, TotalSame
<1>8. RoundCovered'
  BY <1>1, <1>5, <1>7 DEF MoneyInv, RoundCovered
<1>9. PointsExact'
  BY <1>1, <1>3, <1>4 DEF MoneyInv, PointsExact, PointsRound
<1>10. PayoutAccounted' /\ CreditExact' /\ FundsExact'
  BY <1>1 DEF MoneyInv, PayoutAccounted, Owed, CreditExact, FundsExact
<1> QED BY <1>8, <1>9, <1>10 DEF MoneyInv

\* Time only makes the round older.
LEMMA MoneyTick ==
  ASSUME RewardTypes, MoneyInv, tick
  PROVE  MoneyInv'
<1> DEFINE d == payoutDistribution
           e == payoutDistribution'
           f == ClaimsOf(votingPoints, d)
           g == ClaimsOf(votingPoints, e)
<1>1. /\ UNCHANGED <<credits, votingPoints, accumulatedPoints, roundSchedules, pot, paid,
                     unbacked>>
      /\ e = IF d = NoDistribution THEN NoDistribution
             ELSE [d EXCEPT !.age = Older(@, PeriodHorizon)]
  BY DEF tick
<1>2. CASE d = NoDistribution
  <2>1. UNCHANGED rewardVars /\ UNCHANGED credits
    BY <1>1, <1>2 DEF rewardVars
  <2> QED BY <2>1, MoneySame
<1>3. CASE d # NoDistribution
  <2>1. d \in Distribution
    BY <1>3, RoundTypes DEF RewardTypes
  <2>2. e = [d EXCEPT !.age = Older(d.age, PeriodHorizon)]
    BY <1>1, <1>3
  <2>3. /\ e.round = d.round /\ e.total_points = d.total_points
        /\ e.initial_balance = d.initial_balance
        /\ e.remaining_balance = d.remaining_balance
    <3> HIDE DEF d, e
    <3> QED BY <2>1, <2>2, DistributionUpdate
  <2>4. PointsRound' = PointsRound
    BY <2>3 DEF PointsRound
  <2>5. \A w \in Voters : f[w] = g[w]
    BY <2>3, ClaimsDepend
  <2>6. Total(Voters, f) = Total(Voters, g)
    <3> HIDE DEF f, g
    <3> QED BY <2>5, TotalSame
  <2>7. PointsExact' /\ CreditExact' /\ FundsExact'
    BY <1>1, <2>4 DEF MoneyInv, PointsExact, CreditExact, FundsExact
  <2>8. PayoutAccounted'
    BY <1>1, <2>3 DEF MoneyInv, PayoutAccounted, Owed
  <2>9. RoundCovered'
    BY <1>1, <1>3, <2>3, <2>6 DEF MoneyInv, RoundCovered
  <2> QED BY <2>7, <2>8, <2>9 DEF MoneyInv
<1> QED BY <1>2, <1>3

\* Every step keeps the sums.
LEMMA MoneyStep == RewardTypes /\ MoneyInv /\ [Next]_mobVars => MoneyInv'
<1> SUFFICES ASSUME RewardTypes, MoneyInv, [Next]_mobVars PROVE MoneyInv'
  OBVIOUS
<1>1. RewardTypes'
  BY RewardStep
<1>2. UNCHANGED <<credits, rewardVars>> => MoneyInv'
  BY MoneySame
<1>3. ASSUME NEW v \in Voters, NEW c, NEW j, vote(v, c, j)
      PROVE  MoneyInv'
  <2>1. credits[v] \in Credit
    BY DEF RewardTypes
  <2>2. [credits[v] EXCEPT !.voted = @ + 1].credit = credits[v].credit
    BY <2>1 DEF Credit
  <2>3. \A w \in Voters : credits'[w].credit = credits[w].credit
    BY <1>3, <2>2, VoteEffect
  <2>4. UNCHANGED rewardVars
    BY <1>3 DEF vote
  <2> QED BY <2>3, <2>4, MoneySame
<1>4. ASSUME NEW v \in Voters, NEW c, clean_vote_inner(c, v)
      PROVE  MoneyInv'
  <2>1. credits[v] \in Credit
    BY DEF RewardTypes
  <2>2. PICK points \in 0..1 :
           /\ credits'[v] = [credits[v] EXCEPT !.cleaned = @ + 1, !.correct = @ + points]
           /\ \A w \in Voters \ {v} : credits'[w] = credits[w]
    BY <1>4, CleanEffect
  <2>3. credits'[v].credit = credits[v].credit
    BY <2>1, <2>2 DEF Credit
  <2>4. \A w \in Voters : credits'[w].credit = credits[w].credit
    BY <2>2, <2>3
  <2>5. UNCHANGED rewardVars
    BY <1>4 DEF clean_vote_inner
  <2> QED BY <2>4, <2>5, MoneySame
<1>5. CASE UNCHANGED mobVars
  BY <1>2, <1>5 DEF mobVars, voterVars
<1>6. CASE Voting
  <2>1. \A c : touch_case(c) \/ force_ripen_case(c) \/ close_case(c) \/ reap_case(c)
               => UNCHANGED <<credits, rewardVars>>
    BY DEF touch_case, force_ripen_case, close_case, reap_case, voterVars
  <2>2. \A c, j : intervene(c, j) => UNCHANGED <<credits, rewardVars>>
    BY DEF intervene, voterVars
  <2>3. judge_statement => UNCHANGED <<credits, rewardVars>>
    BY DEF judge_statement, voterVars
  <2> QED BY <1>2, <1>3, <1>6, <2>1, <2>2, <2>3 DEF Voting
<1>7. CASE Cleaning
  <2>1. \A c \in Cases : {c} \in SUBSET Cases
    OBVIOUS
  <2>2. \A v : clear_voting_penalty(v) => UNCHANGED <<credits, rewardVars>>
    BY DEF clear_voting_penalty
  <2>3. \A v \in Voters, cs \in SUBSET Cases : do_claim_votes(v, cs) => MoneyInv'
    BY <1>1, MoneyClaimVotes
  <2> QED BY <1>2, <1>4, <1>7, <2>1, <2>2, <2>3
          DEF Cleaning, claim_votes, claim_vote, clean_vote, clean_vote_signed
<1>8. CASE Paying
  <2>1. 0..MaxRounds \subseteq Int
    OBVIOUS
  <2> QED BY <1>1, <1>8, <2>1, MoneySchedule, MoneyRemove, MoneyStartRound, MoneyClaimCredit,
             MoneyPayout, MoneyCleanPoints DEF Paying
<1>9. CASE do_on_poll \/ \E n \in ActiveCounts : people_change(n)
  BY <1>2, <1>9 DEF do_on_poll, people_change, voterVars
<1> QED BY <1>5, <1>6, <1>7, <1>8, <1>9, MoneyTick DEF Next

\* What a round was started with covers every claim of points against it,
\* rounding included, for any numbers of voters, rounds and schedules.
THEOREM PointsCoveredCorrect == Spec => []PointsCovered
<1>1. RewardTypes /\ MoneyInv => PointsCovered
  BY MoneyInvImplies
<1> QED BY RewardInit, RewardStep, MoneyInit, MoneyStep, <1>1, PTL DEF Spec

\* The two holds of the pot are what is still promised and credited, up to the
\* rounds that empty schedules started without holding their funds: exactly so,
\* and then every claim is paid in full, as long as there was no such round.
THEOREM HoldsAccountedCorrect == Spec => []HoldsAccounted
<1>1. RewardTypes /\ MoneyInv => HoldsAccounted
  BY MoneyInvImplies
<1> QED BY RewardInit, RewardStep, MoneyInit, MoneyStep, <1>1, PTL DEF Spec
==============================================================================
