------------------------------- MODULE Launch -------------------------------
(***************************************************************************)
(* NewLaunchDetector (src/launch/detector.py) for one token: its launch    *)
(* metrics and its milestones.  record_swap computes all its milestones    *)
(* first and then records them one by one, each followed by the await of   *)
(* publisher.publish, so calls overlap.  Time stamps come from the caller  *)
(* and need not be in order; they are counted in minutes.  A ratio is kept *)
(* as numerator and denominator; FallsShort names the products of a float  *)
(* ratio that come out just below a whole number.  With a publisher that   *)
(* is not connected nothing awaits, which is the case of no overlap.       *)
(***************************************************************************)
EXTENDS Integers, Sequences, FiniteSets

CONSTANTS
  Wallet,            \* buyers
  Call,              \* tasks that call the detector
  Depth,             \* liquidity in US dollars
  Minute,            \* time stamps
  HolderMilestone,   \* 100: unique buyers of FIRST_100_WALLETS
  RapidVelocity,     \* 20: buys per minute
  RapidTotal,        \* 15: transactions
  FallsShort,        \* <<n, d, k>> for which float n / d times k < n * k / d
  MaxCalls,          \* bound on the swaps and updates of liquidity
  MaxLaunches        \* bound on the registrations

ASSUME LaunchAssumption ==
  /\ Depth \subseteq Nat /\ 0 \in Depth
  /\ Minute \subseteq Nat /\ 0 \in Minute
  /\ IsFiniteSet(Wallet) /\ IsFiniteSet(Call)
  /\ HolderMilestone \in Nat \ {0}
  /\ RapidVelocity \in Nat /\ RapidTotal \in Nat
  /\ MaxCalls \in Nat /\ MaxLaunches \in Nat

\* A float product can cross a whole number only from that number itself.
ASSUME FloatAssumption ==
  \A t \in FallsShort :
    /\ t \in Nat \X Nat \X Nat
    /\ \E whole \in 1..(t[1] * t[3]) : t[1] * t[3] = whole * t[2]

VARIABLES
  metrics,    \* metrics_store[key], or Unregistered
  history,    \* milestones_history[key]
  recording,  \* per task: the milestones record_swap has still to record
  launches,   \* registrations so far
  calls,      \* swaps and updates of liquidity so far
  bots,       \* history: swaps by bots since the registration
  lost        \* history: of these, products that fell short

detectorVars ==
  <<metrics, history, recording, launches, calls, bots, lost>>

\* bot: bot_transaction_ratio as numerator and denominator; minutes: the
\* divisor of buy_velocity_per_min.
Unregistered ==
  [registered |-> FALSE, start |-> 0, initial |-> 0, liquidity |-> 0,
   buyers |-> {}, buys |-> 0, sells |-> 0, bot |-> <<0, 1>>, minutes |-> 1]

Registered(ts) ==
  [Unregistered EXCEPT !.registered = TRUE, !.start = ts]

MilestoneType ==
  {"FIRST_BUY", "FIRST_100_WALLETS", "SIGNIFICANT_LIQUIDITY_INCREASE",
   "WHALE_ENTRY", "RAPID_VOLUME_ACCELERATION"}

\* A milestone with the registration it belongs to.
Milestone(type, launch) == [type |-> type, launch |-> launch]

\* Not in a call.
NotRecording == [busy |-> FALSE, left |-> <<>>]

DetectorInit ==
  /\ metrics = Unregistered
  /\ history = <<>>
  /\ recording = [c \in Call |-> NotRecording]
  /\ launches = 0 /\ calls = 0 /\ bots = 0 /\ lost = 0

----------------------------------------------------------------------------
Max2(a, b) == IF a > b THEN a ELSE b
Total(m) == m.buys + m.sells

\* What register_launch leaves when the call itself registers the token.
FreshLaunch == ~metrics.registered
MetricsAt(ts) == IF FreshLaunch THEN Registered(ts) ELSE metrics
HistoryNow == IF FreshLaunch THEN <<>> ELSE history
LaunchNow == IF FreshLaunch THEN launches + 1 ELSE launches
MayRegister == FreshLaunch => launches < MaxLaunches

\* Record the first milestone and await its publication, or return.
StartRecording(c, milestones) ==
  IF milestones = <<>>
  THEN history' = HistoryNow /\ UNCHANGED recording
  ELSE /\ history' = Append(HistoryNow, Head(milestones))
       /\ recording' = [recording EXCEPT
                          ![c] = [busy |-> TRUE, left |-> Tail(milestones)]]

\* register_launch, called by itself: also for a token that has metrics.
RegisterLaunch(ts) ==
  /\ launches < MaxLaunches
  /\ metrics' = Registered(ts)
  /\ history' = <<>>
  /\ launches' = launches + 1
  /\ bots' = 0 /\ lost' = 0
  /\ UNCHANGED <<recording, calls>>

\* 1.5 times the previous liquidity, the default threshold.
SignificantIncrease(prev, usd) == prev > 0 /\ 2 * usd >= 3 * prev

UpdateLiquidity(c, usd, ts) ==
  LET m == MetricsAt(ts)
      first == m.initial = 0 /\ usd > 0
      milestones ==
        IF ~first /\ SignificantIncrease(m.liquidity, usd)
        THEN <<Milestone("SIGNIFICANT_LIQUIDITY_INCREASE", LaunchNow)>>
        ELSE <<>> IN
  /\ ~recording[c].busy
  /\ calls < MaxCalls
  /\ MayRegister
  /\ metrics' = [m EXCEPT !.liquidity = usd,
                          !.initial = IF first THEN usd ELSE @]
  /\ StartRecording(c, milestones)
  /\ launches' = LaunchNow
  /\ calls' = calls + 1
  /\ bots' = IF FreshLaunch THEN 0 ELSE bots
  /\ lost' = IF FreshLaunch THEN 0 ELSE lost

\* The swaps by bots so far are recovered by truncating a float product.
Short(m) == <<m.bot[1], m.bot[2], Total(m) - 1>> \in FallsShort

Recovered(m) ==
  ((m.bot[1] * (Total(m) - 1)) \div m.bot[2]) - (IF Short(m) THEN 1 ELSE 0)

\* Mutant: the swap itself is not counted.
BotRatio_OneShort(m, isBot) ==
  IF isBot THEN <<Recovered(m), Total(m)>> ELSE m.bot

\* bot_transaction_ratio: only a swap by a bot recomputes it, from the old
\* ratio and the new total.
BotRatio(m, isBot) ==
  IF isBot THEN <<Recovered(m) + 1, Total(m)>> ELSE m.bot

\* Mutant: a time stamp before the launch is taken as it is.
LaunchMinutes_Raw(start, ts) == ts - start

\* The divisor of the velocity; a time stamp may lie before the launch.
LaunchMinutes(start, ts) == Max2(ts - start, 1)

\* A purchase or a sale by wallet w is counted.
WithSwap(old, w, isBuy) ==
  IF isBuy
  THEN [old EXCEPT !.buys = @ + 1, !.buyers = @ \cup {w}]
  ELSE [old EXCEPT !.sells = @ + 1]

\* The figures after a swap at ts by wallet w.
AfterSwap(old, w, isBuy, isBot, ts) ==
  LET counted == WithSwap(old, w, isBuy) IN
  [counted EXCEPT !.minutes = LaunchMinutes(old.start, ts),
                  !.bot = BotRatio(counted, isBot)]

Recorded(type, milestones) ==
  \E i \in DOMAIN milestones : milestones[i].type = type

\* Mutant: the first buy comes last.
BuyMilestones_FirstLast(m, isWhale) ==
  (IF isWhale THEN <<"WHALE_ENTRY">> ELSE <<>>)
  \o (IF m.buys = 1 THEN <<"FIRST_BUY">> ELSE <<>>)

\* The milestones of a swap, in the order record_swap appends them.
BuyMilestones(m, isWhale) ==
  (IF m.buys = 1 THEN <<"FIRST_BUY">> ELSE <<>>)
  \o (IF Cardinality(m.buyers) = HolderMilestone
      THEN <<"FIRST_100_WALLETS">> ELSE <<>>)
  \o (IF isWhale THEN <<"WHALE_ENTRY">> ELSE <<>>)

\* Mutant: the history is not looked at.
RapidMilestone_Always(m) ==
  IF m.buys > RapidVelocity * m.minutes /\ Total(m) >= RapidTotal
  THEN <<"RAPID_VOLUME_ACCELERATION">> ELSE <<>>

RapidMilestone(m) ==
  IF /\ m.buys > RapidVelocity * m.minutes
     /\ Total(m) >= RapidTotal
     /\ ~Recorded("RAPID_VOLUME_ACCELERATION", HistoryNow)
  THEN <<"RAPID_VOLUME_ACCELERATION">> ELSE <<>>

SwapMilestones(m, isBuy, isWhale) ==
  LET types == (IF isBuy THEN BuyMilestones(m, isWhale) ELSE <<>>)
               \o RapidMilestone(m) IN
  [i \in DOMAIN types |-> Milestone(types[i], LaunchNow)]

RecordSwap(c, w, isBuy, isWhale, isBot, ts) ==
  LET old == MetricsAt(ts)
      m == AfterSwap(old, w, isBuy, isBot, ts)
      short == isBot /\ Short(WithSwap(old, w, isBuy)) IN
  /\ ~recording[c].busy
  /\ calls < MaxCalls
  /\ MayRegister
  /\ metrics' = m
  /\ StartRecording(c, SwapMilestones(m, isBuy, isWhale))
  /\ launches' = LaunchNow
  /\ calls' = calls + 1
  /\ bots' = (IF FreshLaunch THEN 0 ELSE bots) + (IF isBot THEN 1 ELSE 0)
  /\ lost' = (IF FreshLaunch THEN 0 ELSE lost) + (IF short THEN 1 ELSE 0)

\* publish returns or raises (the exception is logged); the next milestone is
\* recorded, into whatever list is in milestones_history by now.
PublishEnds(c) ==
  /\ recording[c].busy
  /\ IF recording[c].left = <<>>
     THEN /\ recording' = [recording EXCEPT ![c] = NotRecording]
          /\ UNCHANGED history
     ELSE /\ history' = Append(history, Head(recording[c].left))
          /\ recording' = [recording EXCEPT ![c].left = Tail(@)]
  /\ UNCHANGED <<metrics, launches, calls, bots, lost>>

\* A sale has no whale milestone and does not look at the wallet.
Swap(c) ==
  \E w \in Wallet, isBuy, isWhale, isBot \in BOOLEAN, ts \in Minute :
    /\ ~isBuy => ~isWhale /\ w = CHOOSE x \in Wallet : TRUE
    /\ RecordSwap(c, w, isBuy, isWhale, isBot, ts)

DetectorNext ==
  \/ \E ts \in Minute : RegisterLaunch(ts)
  \/ \E c \in Call :
       \/ \E usd \in Depth, ts \in Minute : UpdateLiquidity(c, usd, ts)
       \/ Swap(c)
       \/ PublishEnds(c)

DetectorSpec == DetectorInit /\ [][DetectorNext]_detectorVars

----------------------------------------------------------------------------
MilestoneRecord == [type : MilestoneType, launch : 0..MaxLaunches]

\* The types of the detector's variables.
DetectorTypeOK ==
  /\ metrics \in [registered : BOOLEAN, start : Nat, initial : Depth,
                  liquidity : Depth, buyers : SUBSET Wallet,
                  buys : 0..MaxCalls, sells : 0..MaxCalls,
                  bot : Nat \X Nat, minutes : Nat]
  /\ history \in Seq(MilestoneRecord)
  /\ recording \in [Call -> [busy : BOOLEAN, left : Seq(MilestoneRecord)]]
  /\ launches \in 0..MaxLaunches
  /\ calls \in 0..MaxCalls
  /\ bots \in 0..MaxCalls /\ lost \in 0..bots

OfThisLaunch(i) == history[i].launch = launches

\* However calls overlap, the list of a launch shows its first buy once, and
\* ahead of every other milestone that a swap of this launch gave.
FirstBuyLeads ==
  \A i \in DOMAIN history :
    (OfThisLaunch(i) /\ history[i].type # "SIGNIFICANT_LIQUIDITY_INCREASE")
      => \E j \in 1..i :
           /\ history[j] = Milestone("FIRST_BUY", launches)
           /\ \A k \in DOMAIN history : history[k] = history[j] => k = j

\* RAPID_VOLUME_ACCELERATION is meant to come once per launch.  The test reads
\* the history, which the await of an earlier milestone delays, so calls that
\* overlap may repeat it, but never more often than there are tasks.
RapidOnlyByOverlap ==
  Cardinality({i \in DOMAIN history :
                 history[i] = Milestone("RAPID_VOLUME_ACCELERATION",
                                        launches)})
    <= Cardinality(Call)

\* bot_transaction_ratio is a share.  It may exceed the share of the swaps that
\* bots made (a swap by a person leaves it as it is), and it falls short of it
\* by no more than one swap for every product that float truncation made one
\* too small: an error is neither amplified nor made by anything else, and
\* after a first swap by a bot the ratio is never 0 again.
BotsLostByRoundingOnly ==
  LET n == metrics.bot[1]
      d == metrics.bot[2] IN
  /\ n <= d
  /\ (bots - lost) * d <= n * Total(metrics)
  /\ bots > 0 => n > 0
=============================================================================
