------------------------------- MODULE Holders -------------------------------
(***************************************************************************)
(* The holders of one token: HolderTracker                                 *)
(* (src/intelligence/holder/tracker.py), the categories of                 *)
(* distribution.py and the evaluation of section_eight_holder.py that      *)
(* reads both, one after the other, over the same wallet states.  Nothing  *)
(* awaits.  Amounts and times are small integers; the time of an event and *)
(* the time of an evaluation are the caller's, in any order.               *)
(***************************************************************************)
EXTENDS Integers, Sequences, SequencesExt, FiniteSetsExt, Maps

CONSTANTS
  Address,         \* wallets that can hold the token
  Markable,        \* those somebody may mark as technical
  Zero,            \* any of ZERO_ADDRESSES
  InitialSupply,   \* initial_total_supply
  Transfers,       \* inputs: records of kind, from, to and amount
  Named,           \* [Address -> category]: the address sets of the categorizer
  WhalePercent,    \* whale_threshold_pct
  Window,          \* window_hours
  MaxTransfers,    \* bound on the event log
  MaxReports,      \* bound on the snapshots
  MaxTime          \* bound on the time stamps

TechnicalCategory ==
  {"BURN", "POOL", "EXCHANGE", "BRIDGE", "STAKING", "TREASURY"}
EconomicCategory == {"DEVELOPER", "INSIDER", "SMART_MONEY", "WHALE", "RETAIL"}

ASSUME HoldersAssumption ==
  /\ Zero \notin Address /\ Markable \subseteq Address
  /\ MaxReports \in Nat /\ MaxTime \in Nat
  /\ InitialSupply \in Nat /\ WhalePercent \in Nat /\ Window \in Nat
  /\ Transfers \subseteq
       [kind : {"TRANSFER", "MINT", "BURN"}, from : Address \cup {Zero},
        to : Address \cup {Zero}, amount : Nat]
  /\ Named \in [Address -> TechnicalCategory \cup
                             (EconomicCategory \ {"WHALE"})]

VARIABLES
  book,        \* balances, wallet_first_seen and wallet_zero_since
  supply,      \* total_supply
  uncovered,   \* what could not be deducted from a sender (history)
  marked,      \* technical_accounts
  log,         \* event_log, with the time of each event
  snapshots,   \* what the snapshots say of the holders
  report,      \* the last evaluation
  seen         \* whom an evaluation has found with tokens (history)

holderVars ==
  <<book, supply, uncovered, marked, log, snapshots, report, seen>>

Held == -1   \* no entry in wallet_zero_since

\* early and overruled are history: the technical wallets that nobody marked
\* and no evaluation had seen before, and the marked ones that are economic to
\* the categorizer.
NoReport ==
  [economic |-> 0, classified |-> 0, churn |-> 0, early |-> {},
   overruled |-> {}]

HoldersInit ==
  /\ book = <<>>
  /\ supply = InitialSupply
  /\ uncovered = 0
  /\ marked = {}
  /\ log = <<>>
  /\ snapshots = <<>>
  /\ report = NoReport
  /\ seen = {}

----------------------------------------------------------------------------
\* Mutant: a wallet that holds again keeps the time of its first exit.
Add_KeepsExit(b, a, n, at) ==
  IF a = Zero THEN b
  ELSE LET old == IF a \in DOMAIN b THEN b[a]
                  ELSE [balance |-> 0, first |-> at, last |-> at,
                        zero |-> Held, technical |-> FALSE]
       IN  Put(b, a, [old EXCEPT !.balance = @ + n, !.last = at])

\* _add_balance.
Add(b, a, n, at) ==
  IF a = Zero THEN b
  ELSE LET old == IF a \in DOMAIN b THEN b[a]
                  ELSE [balance |-> 0, first |-> at, last |-> at,
                        zero |-> Held, technical |-> FALSE]
       IN  Put(b, a, [old EXCEPT
                        !.balance = @ + n, !.last = at,
                        !.zero = IF old.balance + n > 0 THEN Held ELSE @])

\* What a deduction takes: nothing from a stranger, at most the balance.
Deductible(b, a, n) ==
  IF a \notin DOMAIN b THEN 0
  ELSE IF b[a].balance < n THEN b[a].balance ELSE n

\* _deduct_balance.
Deduct(b, a, n, at) ==
  IF a \notin DOMAIN b THEN b
  ELSE LET left == b[a].balance - Deductible(b, a, n) IN
       [b EXCEPT ![a].balance = left, ![a].last = at,
                 ![a].zero = IF left = 0 /\ @ = Held THEN at ELSE @]

IsMint(e) == e.kind = "MINT" \/ e.from = Zero
IsBurn(e) == ~IsMint(e) /\ (e.kind = "BURN" \/ e.to = Zero)

\* The balances after an event.
Booked(b, e) ==
  CASE IsMint(e) -> Add(b, e.to, e.amount, e.at)
    [] IsBurn(e) -> Deduct(b, e.from, e.amount, e.at)
    [] OTHER -> Add(Deduct(b, e.from, e.amount, e.at), e.to, e.amount, e.at)

\* Mutant: any burn lowers the supply, by what the sender still held.
SupplyAfter_Held(s, e) ==
  CASE IsMint(e) -> s
    [] IsBurn(e) -> s - Deductible(book, e.from, e.amount)
    [] OTHER -> s

\* The supply after an event: only a burn to a zero address lowers it.
SupplyAfter(s, e) ==
  CASE IsMint(e) -> s + e.amount
    [] IsBurn(e) /\ e.to = Zero -> IF s < e.amount THEN 0 ELSE s - e.amount
    [] OTHER -> s

\* process_event of an event of this token.
ProcessTransfer(t, at) ==
  LET e == [kind |-> t.kind, from |-> t.from, to |-> t.to,
            amount |-> t.amount, at |-> at] IN
  /\ Len(log) < MaxTransfers
  /\ log' = Append(log, e)
  /\ book' = Booked(book, e)
  /\ supply' = SupplyAfter(supply, e)
  /\ uncovered' = IF IsMint(e) THEN uncovered
                  ELSE uncovered + e.amount
                         - Deductible(book, e.from, e.amount)
  /\ UNCHANGED <<marked, snapshots, report, seen>>

\* mark_technical_account.
MarkTechnical(a) ==
  /\ a \notin marked
  /\ marked' = marked \cup {a}
  /\ book' = IF a \in DOMAIN book THEN [book EXCEPT ![a].technical = TRUE]
             ELSE book
  /\ UNCHANGED <<supply, uncovered, log, snapshots, report, seen>>

----------------------------------------------------------------------------
Holding(b) == {a \in DOMAIN b : b[a].balance > 0}

Amount(b, S) == MapThenSumSet(LAMBDA a : b[a].balance, S)

\* calculate_current_metrics: the share of the ten per cent, at least one,
\* with the largest balances; of all holders when they are fewer than ten.
TopShare(b) ==
  LET n == Cardinality(Holding(b))
      k == IF n >= 10 THEN (n + 9) \div 10 ELSE n
      order == SetToSortSeq(Holding(b),
                            LAMBDA a, c : b[a].balance > b[c].balance)
      top == ToSet(SubSeq(order, 1, k))
  IN  IF n = 0 THEN 0 ELSE (100 * Amount(b, top)) \div Amount(b, Holding(b))

\* take_snapshot.
Snapshot ==
  LET technical == {a \in Holding(book) : a \in marked \/ book[a].technical}
  IN  [holders |-> Cardinality(Holding(book)),
       economic |-> Cardinality(Holding(book) \ technical),
       technical |-> Amount(book, technical), top |-> TopShare(book)]

NewHolders(cutoff) ==
  {a \in Holding(book) : book[a].first >= cutoff}

\* Mutant: an exit at the very beginning of the window is missed.
Exits_Strict(cutoff) ==
  {a \in DOMAIN book : book[a].zero # Held /\ book[a].zero > cutoff}

Exits(cutoff) ==
  {a \in DOMAIN book : book[a].zero # Held /\ book[a].zero >= cutoff}

\* calculate_velocity_and_retention; the rates are left to the reader of it.
Velocity(shots, now) ==
  LET cutoff == now - Window
      early == {a \in DOMAIN book : book[a].first < cutoff}
      moved == SelectSeq(log, LAMBDA e : e.at >= cutoff)
  IN  [new |-> Cardinality(NewHolders(cutoff)),
       exits |-> Cardinality(Exits(cutoff)),
       net |-> Cardinality(NewHolders(cutoff)) - Cardinality(Exits(cutoff)),
       early |-> Cardinality(early),
       retained |-> Cardinality(early \cap Holding(book)),
       shift |-> IF Len(shots) < 2 THEN 0
                 ELSE Last(shots).top - Head(shots).top,
       volume |-> FoldLeft(LAMBDA acc, e : acc + e.amount, 0, moved)]

\* categorize_address, for the addresses the analyzer asks about: it passes
\* no labels, and the states never say is_contract.
Category(a) ==
  IF Named[a] # "RETAIL" THEN Named[a]
  ELSE IF supply > 0 /\ 100 * book[a].balance >= WhalePercent * supply
       THEN "WHALE" ELSE "RETAIL"

Economic == {a \in Holding(book) : Category(a) \in EconomicCategory}

\* Mutant: the analyzer keeps its categories to itself.
Classified_Local == book

\* analyze_distribution writes what it finds into the wallet states; the
\* state of an empty wallet keeps what it said.
Classified ==
  [a \in DOMAIN book |->
     IF a \in Holding(book)
     THEN [book[a] EXCEPT !.technical = Category(a) \in TechnicalCategory]
     ELSE book[a]]

\* The churn of evaluate_quality, from new holders and exits.
Churn(v) ==
  IF v.new > 0 THEN IF v.exits >= v.new THEN 100
                    ELSE (100 * v.exits) \div v.new
  ELSE IF v.exits > 0 THEN 50 ELSE 0

\* evaluate_token_holder_and_liquidity_quality: the snapshot and the figures
\* of the window first, the categories after them.
Evaluate(now) ==
  LET shots == Append(snapshots, Snapshot)
      technical == Holding(book) \ Economic IN
  /\ Len(snapshots) < MaxReports
  /\ snapshots' = shots
  /\ book' = Classified
  /\ report' = [economic |-> Snapshot.economic,
                classified |-> Cardinality(Economic),
                churn |-> Churn(Velocity(shots, now)),
                early |-> technical \ (seen \cup marked),
                overruled |-> Economic \cap marked]
  /\ seen' = seen \cup Holding(book)
  /\ UNCHANGED <<supply, uncovered, marked, log>>

HoldersNext ==
  \/ \E t \in Transfers, at \in 0..MaxTime : ProcessTransfer(t, at)
  \/ \E a \in Markable : MarkTechnical(a)
  \/ \E now \in 0..MaxTime : Evaluate(now)

----------------------------------------------------------------------------
\* The types of the variables.
HoldersTypeOK ==
  /\ DOMAIN book \subseteq Address
  /\ \A a \in DOMAIN book :
       book[a] \in [balance : Nat, first : 0..MaxTime, last : 0..MaxTime,
                    zero : {Held} \cup (0..MaxTime), technical : BOOLEAN]
  /\ supply \in Nat /\ uncovered \in Nat
  /\ marked \subseteq Address
  /\ Len(snapshots) \in 0..MaxReports
  /\ seen \subseteq DOMAIN book

\* What the wallets hold together is covered by what was minted and not
\* burned, and by what senders moved that the tracker had not seen them get:
\* neither a burn, nor a mint, nor a transfer of a wallet to itself creates
\* tokens in the books.
HeldIsCovered ==
  Amount(book, DOMAIN book) <= supply - InitialSupply + uncovered

\* An event of the log brought tokens to a.
EverHeld(a) == \E i \in 1..Len(log) : log[i].to = a /\ log[i].amount > 0
                 /\ ~IsBurn(log[i])

\* An entry of wallet_zero_since is an empty wallet, and an empty wallet that
\* ever held the token has one, through exits and re-entries in any order.
ExitsAreEmptyWallets ==
  \A a \in DOMAIN book :
    /\ book[a].zero # Held => book[a].balance = 0
    /\ book[a].balance = 0 /\ EverHeld(a) => book[a].zero # Held

\* The books of the tracker: balances, supply and exits together (tracker.py
\* 85-150 of src/intelligence/holder).
HolderBooks == HeldIsCovered /\ ExitsAreEmptyWallets

\* The first n events of the log are those from before a time.
IsPast(n, time) == \A i \in 1..Len(log) : i <= n <=> log[i].at < time

\* The holders as the first n events left them.
HoldersAfter(n) == Holding(FoldLeft(Booked, <<>>, SubSeq(log, 1, n)))

\* The net growth of a window never exceeds the change of the number of
\* holders over it, whatever left, came back or was seen for a moment only.
\* Events carry the caller's times: this holds as long as no event from before
\* the window is processed after one from within it.
NetGrowthNotOverstated ==
  \A now \in 0..MaxTime, n \in 0..Len(log) :
    IsPast(n, now - Window)
      => Velocity(snapshots, now).net
           <= Cardinality(Holding(book)) - Cardinality(HoldersAfter(n))

\* The snapshot of a report is taken before the categories are written, and
\* so lags behind them; but it counts a technical wallet as economic in one
\* report only, the first that finds it with tokens, and besides it differs
\* only over accounts marked by hand that the categorizer takes for economic.
SnapshotLagsOnce ==
  report.economic + Cardinality(report.overruled)
    = report.classified + Cardinality(report.early)
=============================================================================
