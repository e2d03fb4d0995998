------------------------------ MODULE TradeFlow ------------------------------
(***************************************************************************)
(* What one instance makes of the transactions of one token: decoding      *)
(* (src/intelligence/transaction_monitor.py), trade detection              *)
(* (buy_sell_detector.py), flow (flow_engine.py) and trade volume          *)
(* (src/market_data/volume_engine.py), as operators on records.  A tick of *)
(* the clock is five minutes; the retention of a day and more is not       *)
(* reached.  Ratios are compared multiplied out or counted in hundredths.  *)
(*                                                                         *)
(* A transaction: sender, receiver, calls (the actions that its topics and *)
(* its input show), field (its action field), assets ("token", "native"),  *)
(* empty (its native asset has no amount), value (its native value), usd,  *)
(* says and hint (the direction in its metadata, or "none"), marks (what   *)
(* the metadata say of its sender: "contract", "new"), contract (the       *)
(* address of a contract, or NoOne), at, naive (its timestamp is text      *)
(* without a zone: comparing it with the time of a worker raises) and      *)
(* sound (its numbers can be read).                                        *)
(***************************************************************************)
EXTENDS Integers, Sequences, SequencesExt, FiniteSetsExt, TLC

CONSTANTS
  Treasury,      \* treasury_addresses and multisigs
  WhaleTrade,    \* whale_threshold_usd of the detector and the volume engine
  RetailTrade    \* retail_threshold_usd

NoOne == "no one"        \* no receiver, no contract
Unknown == "0xunknown"   \* the sender that nobody names
TokenContract == "token contract"

UsdOf(s, Test(_)) ==
  FoldLeft(LAMBDA acc, t : acc + (IF Test(t) THEN t.usd ELSE 0), 0, s)
Volume(s) == UsdOf(s, LAMBDA t : TRUE)

----------------------------------------------------------------------------
\* decode: the first of these that a transaction shows.
Precedence ==
  <<"SWAP", "LIQUIDITY_ADD", "LIQUIDITY_REMOVE", "APPROVAL", "MINT", "BURN",
    "STAKING", "GOVERNANCE", "CONTRACT_ADMIN", "BRIDGE">>

Action(tx) ==
  LET shown == {k \in DOMAIN Precedence : Precedence[k] \in tx.calls} IN
  IF {tx.sender, tx.receiver} \cap Treasury # {} THEN "TREASURY"
  ELSE IF shown # {} THEN Precedence[Min(shown)]
  ELSE tx.field

Assets(tx) ==
  IF tx.assets = {} /\ tx.value > 0 THEN {"native"} ELSE tx.assets

\* detect: anything that moves the token is a trade, as is every swap.
IsTrade(tx) == Action(tx) = "SWAP" \/ "token" \in Assets(tx)

Direction(tx) ==
  IF "token" \notin Assets(tx) THEN "UNKNOWN"
  ELSE IF tx.says # "none" THEN tx.says
  ELSE IF tx.receiver = tx.sender THEN "BUY"
  ELSE IF tx.receiver = TokenContract \/ tx.hint = "SELL" THEN "SELL"
  ELSE "BUY"

\* The detected trade, at the price of the market if no token moved; one token
\* costs one dollar.  A wallet with a known funding source is new, and smart
\* money on top of it.  No caller names a developer.
Trade(tx, smart, funded, price) ==
  LET usd == IF "token" \in Assets(tx) THEN tx.usd ELSE 0
      new == tx.sender \in DOMAIN funded
      class == (IF usd >= WhaleTrade THEN {"WHALE"} ELSE {})
               \cup (IF usd < WhaleTrade /\ usd <= RetailTrade
                     THEN {"RETAIL"} ELSE {})
               \cup (IF smart \/ new THEN {"SMART_MONEY"} ELSE {})
               \cup (IF "contract" \in tx.marks \/ tx.contract = tx.sender
                     THEN {"CONTRACT"} ELSE {})
               \cup (IF new \/ "new" \in tx.marks THEN {"NEW_WALLET"} ELSE {})
  IN  [trader |-> tx.sender, direction |-> Direction(tx), usd |-> usd,
       price |-> IF usd > 0 THEN 1 ELSE price, at |-> tx.at,
       naive |-> tx.naive,
       class |-> IF class = {} THEN {"RETAIL"} ELSE class]

----------------------------------------------------------------------------
\* record_decoded_transaction: transfers that carry a native asset or any
\* value, and operations on liquidity with another asset, of which only the
\* removals are ever read.  One without a zone is kept, and from then on the
\* eviction that ends every call raises.
Recorded(flow, tx) ==
  LET native == "native" \in Assets(tx)
      transfer == Action(tx) = "TRANSFER" /\ (native \/ tx.usd > 0)
      liquidity == /\ Action(tx) \in {"LIQUIDITY_ADD", "LIQUIDITY_REMOVE"}
                   /\ "token" \in Assets(tx)
  IN
  [flow EXCEPT
     !.transfers = IF transfer
                   THEN Append(@, [from |-> tx.sender, to |-> tx.receiver,
                                   native |-> native, at |-> tx.at])
                   ELSE @,
     !.removals = IF liquidity /\ Action(tx) = "LIQUIDITY_REMOVE"
                  THEN @ \cup {[by |-> tx.sender, at |-> tx.at]} ELSE @,
     !.blind = @ \/ (tx.naive /\ (transfer \/ liquidity))]

\* The trades among which one without a zone makes their eviction raise.
Evictable(trades) == \A t \in ToSet(trades) : ~t.naive

\* The last native transfer to a wallet.
FundingLinks(flow, w) ==
  LET to == SelectSeq(flow.transfers, LAMBDA t : t.to = w /\ t.native)
  IN  IF to = <<>> THEN {} ELSE {Last(to)}

SequenceType ==
  {"wallet_funding_purchase", "staged_accumulation",
   "liquidity_withdrawal_distribution"}

\* _detect_sequences: the wallets of each kind of sequence, {} if none.  Half
\* an hour is six ticks.
Sequences(flow, trades, now) ==
  LET bought == {t \in ToSet(trades) : t.direction = "BUY"}
      soldBy == {t.trader : t \in {u \in ToSet(trades) : u.direction = "SELL"}}
      fundedBy(s) == {t.trader : t \in {b \in bought :
                        \E f \in FundingLinks(flow, b.trader) : f.from = s}}
      sources == {f.from : f \in ToSet(flow.transfers)}
  IN  [wallet_funding_purchase |->
         {t.trader : t \in {b \in bought :
            \E f \in FundingLinks(flow, b.trader) : b.at - f.at \in 0..6}},
       staged_accumulation |->
         UNION {fundedBy(s) : s \in {x \in sources :
                                       Cardinality(fundedBy(x)) >= 2}},
       liquidity_withdrawal_distribution |->
         IF \E r \in flow.removals : now - r.at <= 6 THEN soldBy ELSE {}]

\* calculate_flow_metrics over the last five minutes.
FlowMetrics(flow, now) ==
  LET trades == SelectSeq(flow.trades, LAMBDA t : t.at \in (now - 1)..now)
      seqs == Sequences(flow, trades, now)
      coordinated == UNION {seqs[x] : x \in SequenceType}
      Buys(t) == t.direction = "BUY"
      Sells(t) == t.direction = "SELL"
      Whale(t) == "WHALE" \in t.class
      Smart(t) == "SMART_MONEY" \in t.class \/ t.trader \in coordinated
      buy == UsdOf(trades, Buys)
      sell == UsdOf(trades, Sells)
      whales == UsdOf(trades, LAMBDA t : Buys(t) /\ Whale(t))
                  - UsdOf(trades, LAMBDA t : Sells(t) /\ Whale(t))
      smart == UsdOf(trades, LAMBDA t : Buys(t) /\ Smart(t))
                 - UsdOf(trades, LAMBDA t : Sells(t) /\ Smart(t))
  IN  [sequences |-> {x \in SequenceType : seqs[x] # {}},
       status |->
         IF 4 * (buy - sell) > buy + sell /\ (whales > 0 \/ smart > 0)
         THEN "ACCUMULATION"
         ELSE IF 4 * (buy - sell) < -(buy + sell)
                   /\ (whales < 0 \/ smart < 0)
         THEN "DISTRIBUTION"
         ELSE "NEUTRAL"]

----------------------------------------------------------------------------
\* _detect_wash_trading: the pairs of opposite trades of one trader, of
\* nearly one amount, within five minutes.
WashPairs(v) ==
  {p \in (DOMAIN v) \X (DOMAIN v) :
     LET a == v[p[1]] b == v[p[2]] IN
     /\ p[1] < p[2] /\ b.at - a.at <= 1
     /\ a.trader = b.trader /\ a.buy # b.buy
     /\ 100 * Min({a.usd, b.usd}) > 85 * Max({a.usd, b.usd})}

WashVolume(v) ==
  MapThenSumSet(LAMBDA p : v[p[1]].usd + v[p[2]].usd, WashPairs(v))

WashScore(v) ==
  IF Volume(v) = 0 THEN 0 ELSE Min({100, (100 * WashVolume(v)) \div Volume(v)})

\* _detect_repetitive_trades
Repetitive(v) ==
  IF Len(v) < 5 THEN 0
  ELSE LET same(n) == Cardinality({k \in DOMAIN v : v[k].usd = n})
       IN  (100 * Max({same(n) : n \in {t.usd : t \in ToSet(v)}})) \div Len(v)

\* analyze_volume; a burst is five minutes at ten times the rate of the day
\* by three traders or less.
VolumeAnalysis(v, now) ==
  LET raw == Volume(v)
      recent == SelectSeq(v, LAMBDA t : now - t.at <= 1)
      suspicious == Min({raw, WashVolume(v) + (raw * Repetitive(v)) \div 200})
      Deals(w) == Cardinality({k \in DOMAIN v : v[k].trader = w})
  IN  [wash |-> WashScore(v), organic |-> Max({0, raw - suspicious}),
       suspects |-> {w \in {t.trader : t \in ToSet(v)} :
                       Deals(w) >= 2 /\ WashScore(v) > 20},
       burst |-> \/ WashScore(v) > 40
                 \/ /\ 288 * Volume(recent) > 10 * raw
                    /\ Cardinality({t.trader : t \in ToSet(recent)}) <= 3]
=============================================================================
