-------------------------------- MODULE Market --------------------------------
(***************************************************************************)
(* What MarketIntelligenceManager (src/market_data/manager.py) keeps of    *)
(* one token: recorded prices (price_engine.py), pools and the last        *)
(* analysis of them (liquidity_engine.py), the supply and its valuation    *)
(* (valuation_engine.py), and MarketWorkflow.process                       *)
(* (src/workflows/market.py), which feeds them from an event.  Between a   *)
(* change of the state and the next one of the same part nothing awaits:   *)
(* an event is one step.  The trades of an event are in Workflows.         *)
(* Prices and amounts are integers, ratios are compared multiplied out; a  *)
(* recorded price is rounded to multiples of Grain.                        *)
(***************************************************************************)
EXTENDS Integers, Sequences, SequencesExt, FiniteSetsExt, Maps

CONSTANTS
  PoolId, Provider,    \* pools, and the wallets that provide liquidity
  MarketEvents,        \* inputs: see MarketEvent
  Breakdowns,          \* inputs of set_supply_breakdown
  MinReliable,         \* 500: min_liquidity_usd of the price engine
  Grain,               \* 1e-8 dollars, in the unit of the prices
  MaxMarketEvents      \* bound on the calls

ASSUME MarketAssumption ==
  /\ \A s \in Breakdowns :
       /\ s \in [total : Nat, circulating : Nat, burned : Nat, locked : Nat]
       /\ s.circulating + s.locked + s.burned <= s.total
  /\ Grain \in Nat \ {0}
  /\ \A e \in MarketEvents :
       /\ e.evaluable \in BOOLEAN
       /\ IsFiniteSet(e.observations)
       /\ \A o \in e.observations : o.price \in Int
       /\ e.pool = <<>> \/ (e.pool.id \in PoolId /\ e.pool.liquidity \in Nat)
       /\ e.supply = <<>> \/ e.supply.amount \in Nat
  /\ MaxMarketEvents \in Nat

VARIABLES
  pools,       \* [pool -> liquidity and lp_distribution], pools as seen
  analysed,    \* the last analysis: total liquidity, NotAnalysed before it
  raised,      \* risk events of the last evaluation of an event
  unread,      \* a pool was replaced that nothing analysed since (history)
  prices,      \* price_history: price, is_reliable and provenance
  tokens,      \* the SupplyBreakdown
  valuation,   \* the last valuation
  overdrawn,   \* unlocked or burned beyond what there was (history)
  marketCalls  \* calls so far

marketVars ==
  <<pools, analysed, raised, unread, prices, tokens, valuation, overdrawn,
    marketCalls>>

NotAnalysed == -1
None == <<>>

----------------------------------------------------------------------------
\* Observations with a positive price that are not stale.
Valid(obs) == {o \in obs : ~o.stale /\ o.price > 0}

\* The i-th price when they are sorted.
Ranked(obs, i) ==
  CHOOSE p \in {o.price : o \in obs} :
    /\ Cardinality({o \in obs : o.price < p}) < i
    /\ Cardinality({o \in obs : o.price <= p}) >= i

\* Twice the median.
Median2(obs) ==
  LET mid == Cardinality(obs) \div 2
  IN  IF Cardinality(obs) % 2 = 1 THEN 2 * Ranked(obs, mid + 1)
      ELSE Ranked(obs, mid) + Ranked(obs, mid + 1)

\* More than a quarter away from the median.
Outlier(o, obs) ==
  LET d == 2 * o.price - Median2(obs)
  IN  4 * (IF d < 0 THEN -d ELSE d) > Median2(obs)

Cheapest(obs) == Min({o.price : o \in obs})
Dearest(obs) == Max({o.price : o \in obs})

\* Mutant: outliers are judged by the first price instead of the median.
Accepted_First(obs) ==
  LET first == Cheapest(obs)
      near == {o \in obs : 4 * (o.price - first) <= first}
  IN  IF Cardinality(obs) < 3 \/ near = {} THEN obs ELSE near

\* Contradictory observations are left out when there are three or more, but
\* never all of them.
Accepted(obs) ==
  LET near == {o \in obs : ~Outlier(o, obs)}
  IN  IF Cardinality(obs) < 3 \/ near = {} THEN obs ELSE near

Abnormal(p, history) ==
  /\ history # <<>> /\ Last(history).price > 0
  /\ LET d == p - Last(history).price
     IN  2 * (IF d < 0 THEN -d ELSE d) >= Last(history).price

\* The confidence of a reconciled price in thousandths: sources, liquidity,
\* agreement and, without a time of the last trade, stability.
PriceConfidence(obs, p, history) ==
  LET deepest == Max({o.liquidity : o \in obs})
      spread == (4000 * (Dearest(obs) - Cheapest(obs))) \div Cheapest(obs)
  IN  (3 * Min({1000, (1000 * Cardinality(obs)) \div 3})
       + 3 * (IF deepest > 0 THEN Min({1000, deepest \div 10}) ELSE 100)
       + 2 * Max({0, 1000 - spread})
       + 2 * (IF Abnormal(p, history) THEN 400 ELSE 1000)) \div 10

\* round(price, 8), either way where two multiples are as near.
Rounded(p) ==
  {q \in {Grain * (p \div Grain), Grain * (p \div Grain + 1)} :
     2 * q <= 2 * p + Grain /\ 2 * p <= 2 * q + Grain}

\* Whether a price is recorded as reliable, judged before it is rounded.
Reliable(taken, p, history) ==
  /\ PriceConfidence(taken, p, history) >= 400
  /\ Max({o.liquidity : o \in taken}) >= MinReliable
  /\ ~Abnormal(p, history)

\* reconcile_price: the weights of the mean depend on ages and logarithms of
\* liquidity, so any price between the accepted ones; a price of nothing
\* valid is zero and is not recorded.
Reconciled(obs, history) ==
  IF Valid(obs) = {} THEN {[price |-> 0, history |-> history]}
  ELSE LET taken == Accepted(Valid(obs)) IN
       UNION {{[price |-> q,
                history |->
                  Append(history, [price |-> q, provenance |-> obs,
                                   reliable |-> Reliable(taken, p, history)])] :
                 q \in Rounded(p)} : p \in Cheapest(taken)..Dearest(taken)}

----------------------------------------------------------------------------
TotalLiquidity(ps) == MapThenSumSet(LAMBDA k : ps[k].liquidity, DOMAIN ps)

\* calculate_lp_concentration: the three largest providers, all pools taken
\* together, in hundredths of the total.
TopProviders(ps) ==
  LET share(w) == MapThenSumSet(LAMBDA k : ps[k].lp[w] * ps[k].liquidity,
                                DOMAIN ps)
      three == {S \in SUBSET Provider : Cardinality(S) <= 3}
  IN  IF TotalLiquidity(ps) = 0 THEN 0
      ELSE Max({MapThenSumSet(share, S) : S \in three})
             \div TotalLiquidity(ps)

\* estimate_executable_depth at 5 % impact, about 1.299 % of the liquidity.
Drains(value, ps) == value > 0 /\ 100000 * value > 1299 * TotalLiquidity(ps)

RiskType == {"SHARP_LIQUIDITY_DROP", "HIGH_LP_CONCENTRATION", "DRAIN_RISK"}

\* The risk events of analyze_liquidity; a drop is measured from the last
\* analysis, whoever asked for it.
Risks(ps, last, price, largest) ==
  {x \in RiskType :
     CASE x = "SHARP_LIQUIDITY_DROP" ->
            last > 0 /\ 100 * TotalLiquidity(ps) <= 80 * last
       [] x = "HIGH_LP_CONCENTRATION" -> TopProviders(ps) >= 70
       [] x = "DRAIN_RISK" -> Drains(largest * price, ps)}

----------------------------------------------------------------------------
\* The default of supply_store.get.
DefaultBreakdown ==
  [total |-> 100, circulating |-> 100, burned |-> 0, locked |-> 0]

\* calculate_valuation; the confidence in hundredths.
Valuation(s, price) ==
  [cap |-> s.circulating * price, fdv |-> s.total * price,
   confidence |->
     IF price = 0 THEN 0
     ELSE 100 - (IF s.circulating = s.total /\ s.locked = 0 THEN 15 ELSE 0)
              - (IF s.locked = 0 THEN 15 ELSE 0)]

\* Mutant: without max(0, ...).
Less_Unclamped(a, b) == a - b

Less(a, b) == IF a < b THEN 0 ELSE a - b

\* Mutant: a release is taken from the locked tokens and minted anew.
AfterSupplyEvent_Minted(s, kind, n) ==
  CASE kind = "MINT" -> [s EXCEPT !.total = @ + n, !.circulating = @ + n]
    [] kind = "BURN" -> [s EXCEPT !.burned = @ + n,
                                  !.circulating = Less(@, n)]
    [] kind \in {"UNLOCK", "TREASURY_RELEASE"} ->
         [s EXCEPT !.circulating = @ + n]
    [] OTHER -> s

\* record_supply_event: a burn leaves the total alone, a migration all.
AfterSupplyEvent(s, kind, n) ==
  CASE kind = "MINT" -> [s EXCEPT !.total = @ + n, !.circulating = @ + n]
    [] kind = "BURN" -> [s EXCEPT !.burned = @ + n,
                                  !.circulating = Less(@, n)]
    [] kind \in {"UNLOCK", "TREASURY_RELEASE"} ->
         [s EXCEPT !.locked = Less(@, n), !.circulating = @ + n]
    [] OTHER -> s

Overdraft(s, kind, n) ==
  CASE kind = "BURN" -> Less(n, s.circulating)
    [] kind \in {"UNLOCK", "TREASURY_RELEASE"} -> Less(n, s.locked)
    [] OTHER -> 0

MarketInit ==
  /\ pools = <<>> /\ analysed = NotAnalysed /\ raised = {} /\ unread = FALSE
  /\ prices = <<>>
  /\ tokens = DefaultBreakdown /\ valuation = None /\ overdrawn = 0
  /\ marketCalls = 0

\* Mutant: the pool is updated before the prices of the event are ingested.
PoolsAtPrice_Updated(e) ==
  IF e.pool = None THEN pools ELSE Put(pools, e.pool.id, e.pool)

\* The pools that the analysis for a new price reads: those before the event.
PoolsAtPrice(e) == pools

\* The pool of an event is replaced and evaluated at the price of the payload.
\* That price is taken as it came: text, or a balance of the largest holder
\* that is no number, raises between the two and ends the workflow.
PoolPart(e, before) ==
  LET now == Put(pools, e.pool.id, e.pool) IN
  IF e.pool = None
  THEN UNCHANGED pools /\ analysed' = before /\ raised' = {}
  ELSE /\ pools' = now
       /\ IF e.evaluable
          THEN /\ analysed' = TotalLiquidity(now)
               /\ raised' = Risks(now, before, e.price, e.largest)
          ELSE analysed' = before /\ raised' = {}

\* The supply event of a payload; there is none if the pool ended the workflow.
SupplyPart(e) ==
  IF e.pool # None /\ ~e.evaluable THEN None ELSE e.supply

\* MarketWorkflow.process: the prices of the event first, with an analysis
\* whose risks nobody reads; then its pool; then its supply event, valued at
\* no price.
MarketEvent(e) ==
  \E r \in Reconciled(e.observations, prices) :
    LET priced == e.observations # {}
        s == SupplyPart(e) IN
    /\ marketCalls < MaxMarketEvents
    /\ prices' = r.history
    /\ PoolPart(e, IF priced THEN TotalLiquidity(PoolsAtPrice(e))
                   ELSE analysed)
    /\ unread' = IF e.pool # None THEN ~e.evaluable ELSE unread /\ ~priced
    /\ tokens' = IF s = None THEN tokens
                 ELSE AfterSupplyEvent(tokens, s.kind, s.amount)
    /\ overdrawn' = IF s = None THEN overdrawn
                    ELSE overdrawn + Overdraft(tokens, s.kind, s.amount)
    /\ valuation' = CASE s # None -> Valuation(tokens', 0)
                      [] s = None /\ priced -> Valuation(tokens, r.price)
                      [] OTHER -> valuation
    /\ marketCalls' = marketCalls + 1

\* get_full_token_intelligence without observations: the last recorded price,
\* reliable or not, and an analysis that enters the history.
FullIntelligence ==
  LET price == IF prices = <<>> THEN 0 ELSE Last(prices).price IN
  /\ analysed' = TotalLiquidity(pools)
  /\ valuation' = Valuation(tokens, price)
  /\ raised' = {} /\ unread' = FALSE
  /\ UNCHANGED <<pools, prices, tokens, overdrawn, marketCalls>>

SetSupplyBreakdown(s) ==
  /\ marketCalls < MaxMarketEvents
  /\ tokens' = s /\ overdrawn' = 0
  /\ marketCalls' = marketCalls + 1
  /\ raised' = {}
  /\ UNCHANGED <<pools, analysed, unread, prices, valuation>>

MarketNext ==
  \/ \E e \in MarketEvents : MarketEvent(e)
  \/ FullIntelligence
  \/ \E s \in Breakdowns : SetSupplyBreakdown(s)

----------------------------------------------------------------------------
\* The types of the variables.
MarketTypeOK ==
  /\ DOMAIN pools \subseteq PoolId
  /\ analysed \in {NotAnalysed} \cup Nat
  /\ raised \subseteq RiskType /\ unread \in BOOLEAN
  /\ \A i \in 1..Len(prices) : prices[i].price \in Nat
  /\ tokens \in [total : Nat, circulating : Nat, burned : Nat, locked : Nat]
  /\ overdrawn \in Nat /\ marketCalls \in 0..MaxMarketEvents

\* An event that takes a fifth or more of the liquidity that the pools held
\* raises SHARP_LIQUIDITY_DROP, also when prices came with it, or other
\* analyses whose risks nobody reads came before it; but neither the event
\* whose evaluation raises, nor the next one if nothing was analysed between.
DropRaised ==
  [][TotalLiquidity(pools) > 0 /\ ~unread /\ ~unread'
     /\ 100 * TotalLiquidity(pools') <= 80 * TotalLiquidity(pools)
       => "SHARP_LIQUIDITY_DROP" \in raised']_marketVars

\* A recorded price with three or more valid sources, all but one of them
\* within a quarter of each other, stays within a quarter of the range of
\* these, whatever the other one says, but for the rounding: half a grain,
\* which for a price near a grain is all of it.
OneBadSource ==
  \A i \in 1..Len(prices) : \A bad \in Valid(prices[i].provenance) :
    LET good == Valid(prices[i].provenance) \ {bad} IN
    Cardinality(good) >= 2
    /\ 4 * (Dearest(good) - Cheapest(good)) <= Cheapest(good)
      => /\ 4 * prices[i].price <= 5 * Dearest(good) + 2 * Grain
         /\ 4 * prices[i].price + 2 * Grain >= 3 * Cheapest(good)

\* Circulating, locked and burned tokens together stay within the total, but
\* for what events burned or released beyond what there was.
SupplyAccounted ==
  tokens.circulating + tokens.locked + tokens.burned
    <= tokens.total + overdrawn
=============================================================================
