---------------------------- MODULE WalletProfile ----------------------------
(***************************************************************************)
(* The profile of a wallet (src/intelligence/wallet/): what WalletProfiler *)
(* records of a transaction and a trade, WalletScoringEngine's smoothing,  *)
(* the labels of WalletReputationEngine, the relations that                *)
(* WalletClusteringEngine finds between profiles and the edges of          *)
(* WalletGraphEngine, as operators.  One token, so one position; the       *)
(* formula of the raw score, real arithmetic over the position, is a       *)
(* constant operator: with one position its decay is a common factor of    *)
(* every weighted mean, and cancels.                                       *)
(***************************************************************************)
EXTENDS TradeFlow, Maps

CONSTANTS
  Exchange,       \* addresses with the name of an exchange in them
  RawScore(_),    \* raw_overall of a position
  MinTrades,      \* min_trades_threshold: 5
  BotVelocity,    \* bot_velocity_threshold: 50
  BotHours,       \* 18: active hours of a bot,
  BotTxs,         \* 100: and its transactions
  WhaleVolume,    \* whale_volume_threshold: 100000
  MakerSwaps,     \* 30: swaps of a market maker
  SmartScore      \* smart_money_score_threshold: 75

\* No position yet, no current holding cycle.
Never == -1

NoPosition ==
  [trades |-> 0, bought |-> 0, sold |-> 0, balance |-> 0, price |-> 0,
   since |-> Never, last |-> Never, held |-> <<>>]

\* create_profile; active_hours is its sum, txs, and the hours with any.
NewProfile ==
  [txs |-> 0, hours |-> {}, swaps |-> 0, transfers |-> 0, liquidity |-> 0,
   deployed |-> 0, funder |-> {}, parties |-> <<>>, position |-> NoPosition,
   times |-> <<>>, cycles |-> <<>>, labels |-> {}]

\* Mutant: the kind of a transaction is counted, not the transaction.
Counted_ByKind(p, tx) ==
  CASE Action(tx) = "SWAP" -> [p EXCEPT !.swaps = @ + 1, !.txs = @ + 1]
    [] Action(tx) = "TRANSFER" ->
         [p EXCEPT !.transfers = @ + 1, !.txs = @ + 1]
    [] OTHER -> p

\* The counters of record_transaction; an hour is twelve ticks.
Counted(p, tx) ==
  LET q == [p EXCEPT !.txs = @ + 1,
                     !.hours = @ \cup {(tx.at \div 12) % 24}] IN
  CASE Action(tx) = "SWAP" -> [q EXCEPT !.swaps = @ + 1]
    [] Action(tx) = "TRANSFER" -> [q EXCEPT !.transfers = @ + 1]
    [] Action(tx) \in {"LIQUIDITY_ADD", "LIQUIDITY_REMOVE"} ->
         [q EXCEPT !.liquidity = @ + 1]
    [] \/ Action(tx) = "CONTRACT_ADMIN"
       \/ /\ Action(tx) \notin {"SWAP", "TRANSFER", "LIQUIDITY_ADD",
                               "LIQUIDITY_REMOVE"}
          /\ tx.receiver = NoOne /\ tx.contract # NoOne ->
         [q EXCEPT !.deployed = @ + 1]
    [] OTHER -> q

\* The other side of a transaction of wallet w.
Counterparty(w, tx) ==
  (IF tx.sender # w THEN {tx.sender} ELSE {tx.receiver} \ {w, NoOne})
    \ {Unknown}

\* Its native assets have an amount.
Inflow(tx) ==
  IF tx.assets = {} THEN tx.value > 0 ELSE "native" \in tx.assets /\ ~tx.empty

\* _refresh_behavioral_metrics: the lengths of the holding cycles, the current
\* one with what it has lasted by now.
Refreshed(p, now) ==
  LET pos == p.position IN
  [p EXCEPT !.cycles = IF pos.since = Never THEN pos.held
                       ELSE Append(pos.held, now - pos.since)]

\* record_transaction: the first native inflow is the funding source.  Where
\* the last contact with the other side has a zone and this one has none, or
\* the reverse, their comparison raises, and the rest is left out: wallet.py
\* logs it and goes on.
AfterTransaction(p, w, tx, now) ==
  LET q == Counted(p, tx)
      known(c) == IF c \in DOMAIN p.parties THEN p.parties[c]
                  ELSE [count |-> 0, usd |-> 0, naive |-> tx.naive]
      seen == [c \in Counterparty(w, tx) |->
                 [known(c) EXCEPT !.count = @ + 1, !.usd = @ + tx.usd]]
      r == [q EXCEPT
              !.funder = IF @ = {} /\ tx.receiver = w /\ Inflow(tx)
                         THEN {[by |-> tx.sender, naive |-> tx.naive]} ELSE @,
              !.parties = Over(seen, @)]
  IN  IF \E c \in DOMAIN seen : seen[c].naive # tx.naive THEN r
      ELSE Refreshed(r, now)

\* Mutant: a sale of more than the profile knows of leaves a debt.
Left_Signed(position, t) == position.balance - t.usd

\* The balance after a sale.
Left(position, t) == Max({0, position.balance - t.usd})

\* record_trade of a trade with a zone: one token costs one dollar; a holding
\* cycle ends when the balance does; what is left is valued at the price of
\* the market, or of the trade.
AfterTrade(p, t, price, now) ==
  LET old == p.position
      base == [old EXCEPT !.trades = @ + 1, !.last = t.at,
                          !.price = IF price > 0 THEN price ELSE t.price]
      left == Left(old, t)
  IN  Refreshed([p EXCEPT
         !.times = Append(@, t.at),
         !.position =
           CASE t.direction = "BUY" ->
                  [base EXCEPT !.bought = @ + t.usd, !.balance = @ + t.usd,
                               !.since = IF @ = Never THEN t.at ELSE @]
             [] t.direction = "SELL" ->
                  [base EXCEPT !.sold = @ + t.usd, !.balance = left,
                     !.held = IF left = 0 /\ old.since # Never
                              THEN Append(@, t.at - old.since) ELSE @,
                     !.since = IF left = 0 THEN Never ELSE @]
             [] OTHER -> base], now)

----------------------------------------------------------------------------
\* calculate_and_update_score: 50 without trades, and drawn to it below
\* MinTrades.
Score(p) ==
  LET n == p.position.trades IN
  IF n = 0 THEN 50
  ELSE IF n >= MinTrades THEN RawScore(p.position)
  ELSE (RawScore(p.position) * n + 50 * (MinTrades - n)) \div MinTrades

PartyVolume(parties) ==
  MapThenSumSet(LAMBDA c : parties[c].usd, DOMAIN parties)

TotalTime(cycles) == FoldLeft(+, 0, cycles)

IsMarketMaker(p) ==
  LET pos == p.position
      both == pos.bought + pos.sold
      apart == Max({pos.bought, pos.sold}) - Min({pos.bought, pos.sold})
  IN  /\ p.swaps >= MakerSwaps
      /\ TotalTime(p.cycles) \in 1..(12 * Len(p.cycles) - 1)   \* one hour
      /\ 10 * both > WhaleVolume /\ 5 * apart <= both

\* evaluate_reputation.  INSIDER_CANDIDATE needs an early entry score, which
\* the wallet workflow has no launch times for.
Labels(p) ==
  LET found ==
        (IF \/ Len(p.times) >= BotVelocity
            \/ /\ Cardinality(p.hours) >= BotHours
               /\ p.swaps + p.transfers + p.liquidity >= BotTxs
         THEN {"BOT"} ELSE {})
        \cup (IF p.deployed > 0 THEN {"DEVELOPER"} ELSE {})
        \cup (IF DOMAIN p.parties \cap Exchange # {} THEN {"EXCHANGE"} ELSE {})
        \cup (IF p.liquidity > 10 /\ p.swaps = 0
                   /\ PartyVolume(p.parties) > 5 * WhaleVolume
              THEN {"TREASURY"} ELSE {})
        \cup (IF p.liquidity > 0 THEN {"LIQUIDITY_PROVIDER"} ELSE {})
        \cup (IF IsMarketMaker(p) THEN {"MARKET_MAKER"} ELSE {})
        \cup (IF PartyVolume(p.parties) >= WhaleVolume
                   \/ 2 * p.position.balance >= WhaleVolume
              THEN {"WHALE"} ELSE {})
        \cup (IF Score(p) >= SmartScore /\ p.position.trades >= MinTrades
              THEN {"SMART_MONEY"} ELSE {})
  IN  IF found = {} THEN {"RETAIL"} ELSE found

----------------------------------------------------------------------------
\* add_relationship: an edge of the same kind is replaced, whatever its
\* confidence was; confidences are in hundredths.
WithEdges(g, edges) == Over(edges, g)

\* The edges of a profile: who funded it, and whom it dealt with.
ProfileEdges(w, p) ==
  Over([e \in {<<f.by, w, "FUNDED">> : f \in p.funder} |-> 99],
       [e \in {<<w, c, "COUNTERPARTY">> : c \in DOMAIN p.parties} |->
          IF p.parties[e[2]].count >= 5 THEN 80 ELSE 50])

\* The pairs whose last trades may be a minute apart: a tick is five of them.
Close(ps) ==
  LET LastOf(w) == ps[w].position.last
      traded == {w \in DOMAIN ps : LastOf(w) # Never}
  IN  {p \in kSubset(2, traded) : \A a, b \in p : LastOf(a) - LastOf(b) <= 1}

\* detect_relationships, the synchronized trades, the only relation that the
\* workflow turns into edges, where some gives each close pair its confidence:
\* 85 within ten seconds, 70 within a minute, or 0.  Which end is the source is
\* left to the order of the database.
CoTraders(some) ==
  [e \in {<<p, "CO_TRADER">> : p \in {x \in DOMAIN some : some[x] > 0}} |->
     some[e[1]]]

\* detect_relationships compares the times at which one source funded two
\* wallets,
FundingClash(ps) ==
  \E a, b \in DOMAIN ps : \E f \in ps[a].funder, g \in ps[b].funder :
    f.by = g.by /\ f.by # Unknown /\ f.naive # g.naive

\* and analyze_token_manipulation the time of a funding with that of a first
\* buy, which always has a zone.
ChainClash(ps) ==
  \E a \in DOMAIN ps :
    ps[a].position.since # Never /\ \E f \in ps[a].funder : f.naive
=============================================================================
