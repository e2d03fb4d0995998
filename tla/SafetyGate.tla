----------------------------- MODULE SafetyGate -----------------------------
(***************************************************************************)
(* The two consumers of the launch detector's figures: the gate in front   *)
(* of trade proposals, UltraEarlyIntelligenceEngine                        *)
(* (src/ultra_early/engine.py), and OpportunityEngine                      *)
(* (src/launch/opportunity_engine.py).  Neither is told when a figure      *)
(* changes: they read when they are called, and what they concluded        *)
(* stays.  Their methods never await.  Confidences are in hundredths, the  *)
(* factors of a confidence in thousandths, scores in hundredths.           *)
(***************************************************************************)
EXTENDS Launch

CONSTANTS
  MinPool,           \* 500: min_pool_usd of the rapid check
  MinLiquidity,      \* 1000: min_liquidity_usd of OpportunityEngine
  DispersedHolders,  \* 5: more holders than this count as dispersed
  Evidence           \* inputs of assess_discovery: subset of BOOLEAN^3

ASSUME GateAssumption ==
  /\ MinPool \in Nat \ {0}
  /\ MinLiquidity \in Nat /\ DispersedHolders \in Nat
  /\ Evidence \subseteq BOOLEAN \X BOOLEAN \X BOOLEAN

VARIABLES
  assessment,   \* assessments[key], or NoAssessment
  prioritized   \* prioritized_opportunities has an entry for the token

gateVars == <<assessment, prioritized>>
vars == <<detectorVars, gateVars>>

NoAssessment ==
  [known |-> FALSE, discovery |-> 0, security |-> FALSE,
   liquidity |-> FALSE, eligible |-> FALSE]

Init ==
  /\ DetectorInit
  /\ assessment = NoAssessment
  /\ prioritized = FALSE

----------------------------------------------------------------------------
Min2(a, b) == IF a < b THEN a ELSE b

\* round(..., 2) of the mean of three factors; exact halves go up here, and by
\* the float in the code.
Mean(a, b, c) == (a + b + c + 15) \div 30

\* Three factors of the event: a plausible transaction hash, a factory or a
\* verified source, a plausible address.
DiscoveryConfidence(txHash, factory, address) ==
  Mean(IF txHash THEN 900 ELSE 300,
       IF factory THEN 950 ELSE 500,
       IF address THEN 1000 ELSE 0)

AssessDiscovery(txHash, factory, address) ==
  /\ assessment' =
       [NoAssessment EXCEPT
          !.known = TRUE,
          !.discovery = DiscoveryConfidence(txHash, factory, address)]
  /\ UNCHANGED <<detectorVars, prioritized>>

\* Mutant: the liquidity of the launch is read, not the current one.
CurrentLiquidity_Initial == IF metrics.registered THEN metrics.initial ELSE 0

\* current_liq of the rapid check.
CurrentLiquidity == IF metrics.registered THEN metrics.liquidity ELSE 0

LiquidityPasses == CurrentLiquidity >= MinPool

InvestmentConfidence(securityPasses) ==
  LET holders == Cardinality(metrics.buyers) IN
  Mean(IF securityPasses THEN 900 ELSE 0,
       IF LiquidityPasses THEN Min2(CurrentLiquidity \div 10, 1000) ELSE 100,
       IF holders > DispersedHolders THEN Min2(10 * holders, 1000) ELSE 200)

\* An assessment that the check makes itself, for want of a discovery.
AssessmentNow ==
  IF assessment.known THEN assessment
  ELSE [NoAssessment EXCEPT !.known = TRUE, !.discovery = 50]

\* The gate opens on both confidences and no reason for rejection.
Eligible(discovery, investment, securityPasses, liquidityPasses) ==
  discovery >= 50 /\ investment >= 40 /\ securityPasses /\ liquidityPasses

\* run_rapid_security_and_liquidity_checks.  securityPasses is the caller's
\* security_override_pass; without one the check passes.
RapidChecks(securityPasses) ==
  LET investment == InvestmentConfidence(securityPasses)
      old == AssessmentNow IN
  /\ assessment' =
       [old EXCEPT
          !.security = securityPasses,
          !.liquidity = LiquidityPasses,
          !.eligible = Eligible(old.discovery, investment, securityPasses,
                                LiquidityPasses)]
  /\ UNCHANGED <<detectorVars, prioritized>>

\* can_generate_trade_proposal.
CanGenerateTradeProposal == assessment.known /\ assessment.eligible

----------------------------------------------------------------------------
\* The reasons for rejection.  contract_risk_score has no writer: it is 0.
Rejected ==
  \/ ~metrics.registered
  \/ metrics.liquidity < MinLiquidity
  \/ 10 * metrics.bot[1] > 8 * metrics.bot[2]

MilestonePoints ==
  500 * Cardinality({t \in MilestoneType \ {"SIGNIFICANT_LIQUIDITY_INCREASE"} :
                       Recorded(t, history)})

\* Liquidity, velocity, milestones and the ratio of buys to sales.
PriorityScore ==
  Min2((3 * metrics.liquidity) \div 50, 3000)
  + Min2((100 * metrics.buys) \div metrics.minutes, 3000)
  + MilestonePoints
  + (IF Total(metrics) = 0 THEN 666
     ELSE Min2((2000 * metrics.buys) \div (3 * Max2(metrics.sells, 1)), 2000))

\* evaluate_opportunity: a rejection does not take the entry back.
EvaluateOpportunity ==
  /\ prioritized' = (prioritized \/ (~Rejected /\ PriorityScore >= 2500))
  /\ UNCHANGED <<detectorVars, assessment>>

Next ==
  \/ DetectorNext /\ UNCHANGED gateVars
  \/ \E e \in Evidence : AssessDiscovery(e[1], e[2], e[3])
  \/ \E securityPasses \in BOOLEAN : RapidChecks(securityPasses)
  \/ EvaluateOpportunity

Spec == Init /\ [][Next]_vars

----------------------------------------------------------------------------
\* The types of the variables.
TypeOK ==
  /\ DetectorTypeOK
  /\ assessment \in [known : BOOLEAN, discovery : 0..100,
                     security : BOOLEAN, liquidity : BOOLEAN,
                     eligible : BOOLEAN]
  /\ prioritized \in BOOLEAN

\* Only a check opens the gate for trade proposals, and a check leaves it open
\* only if security passes and the detector knows a pool filled to MinPool at
\* that moment: an earlier verdict does not outlive the check that contradicts
\* it.  A discovery of the token anew closes the gate, whatever its evidence.
\* (Between two checks the gate stays as it is: liquidity may be gone.)
GateFollowsLastCheck ==
  [][/\ ~CanGenerateTradeProposal /\ CanGenerateTradeProposal'
          => \E passes \in BOOLEAN : RapidChecks(passes)
     /\ \A passes \in BOOLEAN :
          RapidChecks(passes) /\ CanGenerateTradeProposal'
            => passes /\ metrics.registered /\ metrics.liquidity >= MinPool
     /\ (\E e \in Evidence : AssessDiscovery(e[1], e[2], e[3]))
          => ~CanGenerateTradeProposal']_vars
=============================================================================
