# A TLA+ development for money_bot

money_bot listens for notifications of a trading application, puts them on a
Kafka topic in one canonical form, and runs a set of analysis workflows on
every event of that topic. This directory holds TLA+ models of that code, the
TLC configurations that check them on small instances, and proofs that TLAPS
checks. Paths below are relative to the repository; `src/core.py` is the file
`src/core.py` of the repository.

## 1. Inventory

### 1.1 The ingestion service (the process that `main.py` starts)

| Component | State it keeps | Operations | Talks to |
|---|---|---|---|
| Core listener, `src/core.py` | adapters, their tasks, the deduplicator | `start`, `handle_notification`, `stop` | all below; called by adapters |
| Webhook adapter, `src/adapters/webhook.py` | the uvicorn server | `POST /webhooks/fomo`, `/health`, `start`, `stop` | callback `handle_notification` |
| Deduplicator, `src/deduplicator.py` | a Redis client, a `LocalTTLCache` | `compute_fingerprint`, `is_duplicate_and_store` | Redis |
| Publisher, `src/publisher.py` | `redis`, `kafka` | `connect`, `disconnect`, `publish_raw`, `publish` | Redis, Kafka |
| Health monitor, `src/monitor.py` | statuses, counters, its task | loop with self-recovery, `check_quarantine`, `start`, `stop` | the publisher's two clients |
| Entry point, `main.py` | - | signal handling, start, stop | the listener |

All of it is coroutines on one event loop. What makes it hard: between any two
awaits of a request, the monitor may stop the producer or close the Redis
client that request is about to use; two requests with one fingerprint run side
by side; Redis may execute a command and lose the answer; deduplication state is
spread over Redis and a cache that dies with the process; a record accepted by
the producer is not on the broker yet; SIGTERM arrives anywhere.

Correct means: at most one canonical event per deduplication entry; no admitted
notification disappears without one of the known reasons; raw record before
answer; a request ends, or it is known where it may wait for ever; the
connections are healed; an orderly stop forfeits no admission.

### 1.2 The consuming side

| Component | State it keeps | Operations | Talks to |
|---|---|---|---|
| `DurableConsumer`, `src/bus/consumer.py` | consumer, dead-letter producer, `_running` | `start`, the consume loop with retries, `route_to_dlq`, `stop` | Kafka group, dead-letter topic |
| `WorkflowRouter`, `src/workflows/router.py` | the list of workflows | `route_event` (fan-out and gather) | workflows |
| `EventProducer`, `src/bus/producer.py` | a producer | `start`, `stop`, `publish_event` | used by a scratch script only |
| Storage, `src/storage/` | Postgres tables of events and identities; stubs | `append`, `upsert_entity`, `get_entity`, `dispatch_event` | Postgres |

`main.py` does not start this side; the classes are made to be run as further
instances in one consumer group. Hard: rebalances with a message in hand,
commits that fail after the handler succeeded, the loop's own death, crashes
between the hand-over of a dead letter and its delivery.

Correct means: the group's offset moves forward over settled messages only, a
commit never overtakes a workflow, a bad message does not block the partition,
nothing committed is lost.

### 1.3 The workflows and the engines behind them

| Component | State it keeps | What could go wrong |
|---|---|---|
| `workflows/discovery.py`, `risk.py` (and the logging stubs security, social, narrative) | identities in Postgres | get-then-upsert of two events for one token |
| `workflows/intelligence.py`, with `intelligence/transaction_monitor.py`, `buy_sell_detector.py`, `flow_engine.py` | trade and funding history, funded wallets | derived events are published to the topic the workflow consumes; windows and eviction |
| `workflows/wallet.py` with `intelligence/wallet/profiler.py`, `graph.py`, `clustering.py` | wallet profiles in Postgres, the graph | load-modify-save across awaits; alerts that come back as events |
| `workflows/market.py`, `market_data/manager.py` and the four engines | pools, prices, trades, supply | trades counted twice through derived events; supply bookkeeping |
| `discovery/manager.py` | `known_tokens`, `pools`, `deployment_metadata` | check, await the database, then act: duplicate discovery and analysis |
| `launch/detector.py`, `launch/opportunity_engine.py` | launch metrics, milestones, prioritised opportunities | milestones raised twice; stale priorities |
| `ultra_early/engine.py` | one assessment per token | a stale clearance of the safety gate |
| `crosschain/tracker.py` | groups, representations, map from token to group | double counting after a relink, figures overwritten by a bridge event |
| `intelligence/holder/tracker.py` | balances, supply, event log | balances and supply drift apart |
| `security/` (scan, ownership, honeypot, rug detection) | lists of the last reports | a bad finding that makes a verdict milder |
| `parser/` | none | order of stages and where an error ends |

The engines never await; what is hard about them is what a long sequence of
legal calls leaves behind. The workflows do await, several instances of the
worker run them side by side on one database, and what they publish comes back
to them.

The other scoring code (`intelligence/social`, `intelligence/project`,
`intelligence/research`, `intelligence/probability`, most of
`intelligence/wallet` and the statistics of `intelligence/holder`) computes
weighted sums of floating-point features: TLC has no real numbers and there is
no interleaving in it. `adapters/chains/` converts formats.

`PROJECT.json` lists every component with its sources and status, and under
`hazards` the places where the code is hard to test.

## 2. Plan

Most important behaviour first. Steps 1 to 12 are done.

1. `DedupWindow`, `LocalTTLCache`: the deduplication cache against its abstract
   specification.
2. `Ingestion`: the whole ingestion service with faults.
3. `SettledLog`, `EventBus`: consumer group and router.
4. `IngestionProofs`: types, the inductive invariant and the two main safety
   properties of `Ingestion`.
5. `OperationalStore`, `Discovery`, `DiscoveryProofs`:
   `TokenDiscoveryManager` around the awaits of the database.
6. `Launch`, `SafetyGate`, `LaunchProofs`: milestones and figures of a launch;
   the safety gate and the opportunity engine composed with the detector whose
   figures they read.
7. `TradeFlow`, `WalletProfile`, `Workflows`: the workflows that keep state,
   with the events they derive and publish to the topic they consume, on
   several instances with one store of profiles.
8. `Holders`: balances, exits and supply against the event log, and the
   categories of the evaluation.
9. `CrossChain`: groups and representations; figures without double counting.
10. `Market`: pools, prices and supply, and the order of the manager's calls;
    `Security`: the verdict of an assessment; `Engines`: the four of them.
11. `WorkflowsProofs`, `EnginesProofs`.
12. `LocalTTLCacheProofs`, `EventBusProofs`, `SumProofs`, and the invariants
    that the earlier proof modules had left to TLC: every safety property and
    every refinement that a passing run checks is now a theorem.
13. Models still worth having: the pipeline of `parser/`, and the fields that
    enter a fingerprint.

All modules avoid RECURSIVE operators so that the proofs stay open. The project
keeps to few runs; further modules join the run `engines` or replace one.

## 3. What is modelled

### 3.1 `LocalTTLCache`, an implementation of `DedupWindow`

`cache` is the `OrderedDict` as a sequence of items `[key, expiry]`;
`Cleanup`, `Live`, `DropExpired`, `MakeRoom` and `Insert` are the statements of
`check_and_set` in their order, and `CheckAndSet(k)` is one call. The call
never awaits, so it is one action; it reads the clock twice, and the clock may
advance by one between the readings. `now` never runs backwards, which
`time.time()` does not promise: a clock that is set back is outside the model.

`DedupWindow` knows no cache, only the history of admissions: a key is a
duplicate exactly if it is one of the last `MaxSize` admissions and was
admitted at most `TTL` ago. The refinement maps `now`, `log` and `verdict` to
themselves.

### 3.2 `Ingestion`

One action per stretch of code between two awaits:

| Code | Actions |
|---|---|
| webhook endpoint, up to the first await | `Receive` |
| `publish_raw` | `SendRaw`, `SendRawFails`, `AwaitMetadata` |
| `is_duplicate_and_store`: Redis executes SET NX / its answer arrives | `RedisSets` / `RedisAnswersDuplicate`, `RedisAnswersNew` |
| the SET raises: fallback or bypass | `FallbackFindsDuplicate`, `FallbackAdmits`, `BypassAdmits` |
| `check_quarantine`, right after a new verdict | `Quarantine`, `GoOn` (parts of the above) |
| `publish` | `SendCanonical`, `SendCanonicalFails`, `AwaitMetadata` |
| `connect` up to the ping; the answer of the ping and the assignment of the new producer | `Ping` |
| the awaited `start()` of that producer | `KafkaStarts`, `KafkaStartFails` |
| `disconnect` | `CloseKafka`, `Flushed`, `CloseRedis` |
| the monitor's loop | `Wake`, `CheckRedis`, `CheckKafka` |
| `main`, signal, `stop`, second `stop` | `StartProcess`, `Sigterm`, `Stop`, `Exit` |
| Redis, Kafka, the producer's sender (not in this repository) | `RedisGoesDown`, `KafkaGoesDown`, `Deliver`, `GiveUp`, `Expire`, ... |

`mon` is the await at which the coroutine running connect, disconnect or the
monitor loop stands; there is only one at a time. `kafka` is the state of the
object in `publisher.kafka`: none, starting (assigned, its `start()` in
progress), unstarted (its `start()` failed or was cancelled), started, stopped.
A `send` first waits for the metadata of its topic (`AwaitMetadata`). While
`start()` or `stop()` is in progress somebody may still fetch them ("metadata");
on a producer whose `start()` failed, or whose client is closed, nobody ever
will, and the request stays in its `send` ("hung"), the new producer of a later
recovery notwithstanding. `sharedClient` says whether deduplicator and publisher
hold the same Redis client: only `start()` injects it, so after the first
recovery they differ and closing the publisher's client no longer cuts requests
off.

`stop()` cancels the monitor at whatever await it stands (`CancelMonitor`). A
`start()` in progress leaves an unstarted producer; a flush in progress is not
waited for again, because `kafka.stop()` returns at once on a producer that is
closing, and the records still in its buffer go down with the process.

Abstractions. A notification is its fingerprint. Parsing and telemetry are
data; the branch that publishes the payload as it came after a parse error has
the same control flow. Redis keeps its keys in memory (docker-compose.yml gives
it no volume), so an outage loses any subset of them. Expiry and eviction of an
entry are one action, `Expire`; their exact conditions are the subject of
`LocalTTLCache`. `dedup_enabled` is taken to be true, its default. The producer
is not idempotent and the broker may store a record twice on its own retry:
such broker-side copies are not counted. `check_version` on a *stopped*
producer's client may or may not be answered (`KafkaAnswers`). SIGTERM while
`start()` still connects ends the process as a crash does.

Two kinds of adapter. With `Adapter = "webhook"`, uvicorn (pinned in
requirements.txt) replaces main's signal handlers while it serves, stops
accepting, waits for the requests in progress and then returns, so `Stop` waits
for them. With `Adapter = "direct"`, a further `IngestionAdapter` that calls
the callback in tasks of its own with its own dictionary: quarantine sees every
field, main's signal handler stays in place, and the process may end while the
first `stop()` still flushes (`Exit`). The repository has only the webhook; the
second value is what `IngestionAdapter` allows.

Ghost variables `admitted`, `closed`, `forfeited` and `answered` count events
per fingerprint. `interrupted` remembers that `stop()` cancelled a flush; it
stands for the client that the cancelled flush never closed.

### 3.3 `EventBus`, an implementation of `SettledLog`

One partition, several instances. `con[c].pc` is the await at which the loop of
instance `c` stands, `pos` its fetch position, `cur` and `tries` the message in
hand and `retry_count`, `left` the workflow tasks not finished. `Poll`,
`RouteRaises`, `FanOut`, `WorkflowEnds`, `Gathered`, `CommitReturns`,
`CommitRaises`, `DlqSend`, `DlqSendRaises`, `DlqCommitReturns` and
`DlqCommitRaises` are the branches of `_consume_loop` with `route_event` as its
handler; `LoopEnds` is its outer `except` with `finally`. `StartHalfway` is
`start()` failing between its two awaits. `Join`, `Rebalance`, the fate of a
commit by a former owner, and the dead-letter producer's buffer are Kafka as
this code uses it.

A workflow is an opaque task that ends: `_safe_execute_workflow` makes no
difference between return and exception. A message whose bytes are no JSON
fails in the deserialiser, inside the iterator; that path is not modelled.
`max_retries` is 3 in the code and 1 in the run: a retry differs from the next
one only in its number. Delays between retries are left out.

`SettledLog` says what a group that checkpoints promises: messages are settled
in order, and the offset moves forward over settled messages. `settled` is
mapped to the messages on which every workflow has run to an end or that were
handed to the dead-letter producer.

### 3.4 `Discovery` over `OperationalStore`

`OperationalStore` is the table behind `PostgresStore`: `upsert_entity` is one
transaction of two statements, a SELECT and then an UPDATE or an INSERT
(`Writes`, which the primary key rejects as `Raises` when another transaction
has inserted in between), and `get_entity` answers with the base class,
whatever class was stored (`GetEntity`).

`Discovery` is `TokenDiscoveryManager`. An event is a number, and `known`,
`metadata` and `pools` are the manager's three dictionaries. `call[c]` is a
task in `process_event`:

| Code | Actions |
|---|---|
| from the call to `get_entity` | `ProcessEvent` |
| `get_entity` answers or raises; the metadata | `StoreAnswers` |
| a constructor before or after the metadata are stored raises | `DeploymentRaises`, `RecordRaises` |
| the statements of `upsert_entity` | `UpsertSelect`, `UpsertCommits`, `UpsertRaises` |
| after the store: record, pool, analysis tasks | `Remember` |
| `float()` or `PoolRecord` raises, the token already known | `PoolRaises` |
| the analysis | `AnalysisEnds`, `Gathered` |
| Postgres, the process | `DbGoesDown`, `DbComesBack`, `Restart` |

Payloads are untyped: `flaw` says which of the three constructors, or a
conversion on the way to it, does not take the fields of an event. The caller
gets the exception, and what was stored before it stays: `RecordRaises` leaves
metadata of a token that is not known, `PoolRaises` a known token without its
pool and its analysis. `rejected` is the history of the first kind.

A call for a token that is known, an event without a token address and the
three kinds of event that only log change nothing and have no action. A
failure of the store between the write and its acknowledgement is left out:
the row would be there and the task would go on as it does after any error.

What the model makes plain: the `isinstance` test of `manager.py:69` never
succeeds (lemma `NeverFound`), so after a restart every token is discovered and
analysed once more; the pool of a `PAIR_CREATED` event is dropped when the
token is known; a payload with one bad field keeps its token out of
`known_tokens`, or, when the field is one of the pool, makes it known for good
without a pool and without an analysis. No line of the repository promises
otherwise.

### 3.5 `Launch` and `SafetyGate`

`Launch` is `NewLaunchDetector` for one token; tokens share nothing but the
tasks. `record_swap` and `update_liquidity` change the figures and compute all
milestones of the call in one step, then record and publish them one by one:
`StartRecording` appends the first, each `PublishEnds` the next, into whatever
list is in `milestones_history` by then. A registration in between replaces
that list, so a late milestone may land in the list of the next launch; the
field `launch` of a milestone remembers where it comes from. `bots` counts what
the code does not keep, the swaps by bots. Figures no reader tells apart
(volume, ages, time to liquidity) are left out.

`SafetyGate` adds the two readers of those figures. `RapidChecks` and
`AssessDiscovery` are the methods of `UltraEarlyIntelligenceEngine`,
`CanGenerateTradeProposal` is its gate, `EvaluateOpportunity` is
`OpportunityEngine`. None of them awaits. Confidences and scores are integers
in hundredths. `require_security_pass` is taken to be true, its default.

A ratio is kept as numerator and denominator, and `int(ratio * n)` of
`detector.py:170` truncates a float: the product of n/d and k can come out just
below a whole number, and is then one too small. `FallsShort` names the triples
for which that happens. Its one assumption is what IEEE arithmetic guarantees: a
rounding error crosses a whole number only from that number itself, so `n * k`
is a multiple of `d` (`FloatAssumption`). Python first falls short at a total of
22 swaps (15/22 times 22); totals that big are out of a run's reach, so the run
declares a small one, 1/2 times 2, to fall short, and the theorem holds for any
set of them. `lost` counts the short products of a launch.

What the model makes plain: `FIRST_100_WALLETS` is raised by every further buy
while the buyers are a hundred; an entry of `prioritized_opportunities` is
never withdrawn; `contract_risk_score` has no writer, so that check never
rejects; a token of which no discovery was assessed passes the gate, since the
check assumes a discovery confidence of exactly the minimum; six to nineteen
holders score less than five. No line of the repository says otherwise.

### 3.6 `TradeFlow`, `WalletProfile` and `Workflows`

`TradeFlow` has as operators what one instance makes of a transaction: decoding
(`Action`, `Assets`), trade detection (`IsTrade`, `Direction`, `Trade`), the
flow engine (`Recorded`, `Sequences`, `FlowMetrics`) and the volume engine
(`WashPairs` to `VolumeAnalysis`). `WalletProfile` has what happens to a
profile: `AfterTransaction` and `AfterTrade` are `record_transaction` and
`record_trade`, `Labels` is `evaluate_reputation`, `ProfileEdges` and
`CoTraders` are the edges the workflow adds.

`Workflows` runs them. `topic` is a bag of events, `mem[i]` the engines in the
memory of instance `i`, `store` the table of profiles, and `hand[i]` the event
an instance works on with the profile it has loaded.

| Code | Actions |
|---|---|
| `MarketWorkflow`, `IntelligenceWorkflow` and `WalletWorkflow` up to the await of `load_all_profiles` | `Take` |
| the answer of `load_all_profiles`, co-traders, up to `upsert_entity` | `Relate` |
| `upsert_entity` answers or fails; the alert | `Save` |
| the task ends, saved or not | `Ended`, part of `Relate` and `Save`; in `Take` when `RaisesEarly` |
| the process dies; time passes | `Crash`, `Tick` |

`router.py:53-55` starts the three workflows as tasks of one loop. The memory
that the first two change is touched by no other task of the instance, and an
instance handles one event at a time, so that they are one step with the load
of the profile; whether they end before or after the wallet workflow makes no
difference to anybody. Any pending event may
be next: messages have no key, so that their order across partitions says
nothing. An event that is handled and not committed stays pending.

Exceptions. A payload that cannot be decoded (`sound`) is logged and the task
goes on without it. A time may be text without a zone (`naive`), and comparing
it with one that has a zone raises: in the flow engine, which keeps the entry
and raises on every later call of that instance (`blind`); in `record_trade`,
which ends the task before the save (`RaisesEarly`); in the comparison of
contacts inside `record_transaction`, whose caller logs it; and, once such a
time is in a saved profile, in the search for co-traders and for manipulation,
over all profiles of the store (`FundingClash`, `ChainClash`).

Abstractions. One token, whose tokens cost one dollar each; a trade that moves
none has the price of the market, which is the last price of an event, an echo
included (`AfterPrice`; how several sources are reconciled is in `Market`). A
tick is five minutes, so that trades within a minute of each other are at most
a tick apart, and whether a close pair gets 85, 70 or no confidence is open. The
retention of a day is not reached. `RawScore` is a constant operator: the score
decays with the age of positions, and with the one position of this model the
decay is a common factor of every weighted mean and cancels. Active hours, for
the label `BOT`, are counted by the hour of the day. The class `DEVELOPER` is
left out because no caller names a developer. The sequence and flow events of
`intelligence.py:153-190` are handled by no workflow that keeps state and are
not queued. Whether the manipulation report recommends a downgrade is open.
The history variables `delivered`, `counts`, `excused` and `zoneless` are read
by no guard.

What the model makes plain: the alert of a followed wallet is an event about
this wallet, and so raises the next alert, without end (`wallet.py:266`; the
model cuts the chain at `MaxTasks`, and no property says that it ends). A trade
that comes back has no `is_buy` and is counted as a purchase
(`market.py:100-101`), so that a sale and its own echo are a wash pair: the run
`workflows_wash` shows it. Its price is ingested as a further observation
(`market.py:45-65`). One event whose time has no zone switches the flow engine
of an instance off until it restarts. Whatever moves the token is a trade, a
removal of liquidity too, and without other signs a purchase. A wallet that
swaps with itself for a native asset becomes its own funding source. Funding is
registered only from transfers that name a token (`intelligence.py:88-91`). A
crash or a failed publication after the upsert loses the alert of a changed
label, because the next task finds the new label. `load_all_profiles` takes the
saved version of the current wallet for the co-traders. `INSIDER_CANDIDATE` can
never be assigned: the workflow passes no launches. The comment of `graph.py:55`
speaks of the higher confidence; the code replaces it.

### 3.7 `Holders`, `CrossChain`, `Market`, `Security` and `Engines`

`Engines` composes four engines that share nothing; a behaviour exercises one.
`Market` is called by the workflows, the other three only by the tests of the
repository.

`Holders` is `HolderTracker` of one token. `book` holds what the code keeps in
`balances`, `wallet_first_seen` and `wallet_zero_since`; an entry's `zero` is
`Held` where `wallet_zero_since` has none.
`ProcessTransfer` is `process_event` (with `Add` and `Deduct`), `MarkTechnical`
is `mark_technical_account`, and `Evaluate` is
`evaluate_token_holder_and_liquidity_quality`: snapshot and window figures
first, categories after them, written back into the wallet states. `uncovered`
counts what senders moved beyond the balance the tracker knew. Events carry the
time the caller gives them (`tracker.py:93`), and evaluations likewise: neither
need come in order, and an event that arrives late changes what the window
figures say of the past. The evaluation disagrees with itself whenever a
technical account is found with tokens for the first time: the snapshot still
counts it, the categories no longer do. `SnapshotLagsOnce` says by how much and
that it is in one report per account. `HoldersAfter(n)`, which the growth
figures are compared with, replays the first n events of the log.

`CrossChain` is `CrossChainTracker`. `CreateGroup`, `LinkToken` and
`RecordBridge` are its three methods with the recalculation at their ends. A
second link moves the entry of the map and leaves the representation in the
first group; a bridge event overwrites the figures of its target with zero. Both
are in the model as in the code; `MappedIsRepresented` says how far the first
can go. "CROSS_ASSET" is a symbol that a caller may use as well. Volume is
aggregated as liquidity is and not repeated.

`Market` is the state of `MarketIntelligenceManager` for one token, and
`MarketEvent` the whole of `MarketWorkflow.process` but for the trades, which
`Workflows` has: prices with an analysis whose risks are dropped, then the pool
and its evaluation, then the supply event. `Reconciled` allows any price between
the accepted ones, since the weights of the mean depend on ages and logarithms.
What is recorded is that price rounded to eight decimals, either way at the half
(`Rounded`; `Grain` is 1e-8 dollars in the unit of the prices), while its
reliability is judged before it is rounded. `PoolPart` replaces the pool and
then evaluates it at the price of the payload, which `market.py:85` takes as it
came: text there, or a balance of the largest holder that is no number, raises
between the two (`evaluable`), the supply event of the payload is lost, and
`unread` remembers that nobody has analysed the new pool. `Ranked` is the i-th
price in order, found by counting the cheaper ones instead of sorting; which
observation of one price comes first makes no difference to the median.
`FullIntelligence` is `get_full_token_intelligence`, which every other workflow
calls and which adds to the history of analyses. What the model makes plain: a
drop is measured from the last analysis, so that two drops of less than a fifth
never raise, although the field speaks of 24 hours; a supply event leaves a
valuation at price zero; unreliable prices are recorded and are the next price's
reference, so that the check for abnormal moves delays a wrong price by one
observation; below a few 1e-8 dollars a recorded price is mostly rounding; a
drop that arrives with an event which cannot be evaluated is swallowed by the
next analysis.

`Security` is one call of `run_comprehensive_security_assessment`: `Permissions`
and `IsProxy` of the scan, `Fake`, `Governance` and `UpgradeRisk` of the
ownership analysis, `Honeypot` and `HoneypotRisk` of the simulations,
`Weighted`, `Blocks`, `Score` and `Level` of the rug detector. What byte code
and source say is an input. Behind a live owner the governance type is whatever
the metadata say (`ownership_system.py:172-174`), RENOUNCED included. What the
model makes plain: source code without a hint hides a proxy that the metadata
claims; a lock of less than half of the pool scores the same however soon it
ends, and an expired lock counts as one without an end.

`Maps` has the two operators on dictionaries that several modules share: the
assignment of an item (`Put`) and a dictionary updated with another (`Over`).

## 4. Runs

| Run | Question | Result |
|---|---|---|
| `local_cache` | does the cache implement the window | holds |
| `ingestion` | safety under all interleavings and faults | holds |
| `ingestion_live` | requests and shutdowns end but for one await, Kafka is healed, what an orderly end takes with it | holds |
| `ingestion_exactly_once` | `fomo_listener_context.md:1`: captured exactly once | violated |
| `ingestion_quarantine` | `monitor.py:31`: quarantined before the bus | violated |
| `ingestion_redis_outage` | `deduplicator.py:181`: Redis does not halt ingestion | violated |
| `event_bus` | safety and progress of the consumer group | holds |
| `discovery` | the manager's tables and the store, across awaits, outages and restarts | holds |
| `workflows` | overlapping load-modify-save, exceptions, and events that come back | holds |
| `workflows_wash` | `volume_engine.py:42-43`: a wash trader traded back and forth | violated |
| `engines` | long sequences of calls of the holder, cross-chain, market and security engines; milestones, figures and the gate of a launch under overlapping calls | holds |
| `event_bus_at_least_once` | `consumer.py:13-14`: at-least-once, dead-letter topic | violated |

The five violated properties state what a comment or document says; the
findings in `PROJECT.json` describe the counterexamples.

Properties of `Ingestion`:

- `AtMostOncePerEntry`: records of the canonical topic never outnumber the
  deduplication entries a fingerprint has or had. Two entries, one in Redis and
  one in the cache, can live at the same time; that is the price of the
  fall-back, and the property says it is the whole price.
- `AdmissionsAccounted`: each admission is held by a request, has become one
  record or is counted as forfeited. It fails if a path publishes twice, drops
  an admission silently or keeps two requests on one.
- `RawBeforeAnswer`, `AnswerNeedsAdmission`: what a 202 implies.
- `RequestsEnd`: every await of a request ends, with an answer or with the
  process, except a `send` on a producer that will never fetch metadata.
  `ShutdownEnds` has the same exception: uvicorn waits for such a request and
  has no timeout, so that the process of a service that once failed to recover
  may have to be killed.
- `KafkaOutageHealed` assumes that Redis never fails, which the run
  `ingestion_redis_outage` shows to be needed, and that the process stays up.
- `OrderlyExit`: an orderly end of the webhook service forfeits no admission,
  and takes unsent records with it only if `stop()` met the monitor in its
  flush. In that case records answered 202 are lost: the exception is part of
  the property because it is what the code does.

Properties of `EventBus`: `ImplementsSettledLog`, `CommittedIsRouted`, and
`NoPoisonPill`, which excludes the one way in which the partition does get
stuck: the loop of a group member has died (`consumer.py:81-84`, `41-43`) while
the member keeps the partition.

Properties of `Discovery`: `TablesAgree` relates dictionaries that are filled
on both sides of an await and may be left half filled by an exception;
`KnownIsStored` says that the swallowed exception of a losing insert hides
nothing as long as the database answers; `DiscoveriesOverlap` bounds the
duplicate records by the number of tasks; `DiscoverySurvivesOutage` is the
promise of the two `except` clauses, for events whose record can be made.

Properties of `Launch` and `SafetyGate`: `FirstBuyLeads` and
`RapidOnlyByOverlap` say what overlapping calls can and cannot do to the list
of milestones (the second is the exact extent of the race around
`detector.py:175`); `BotsLostByRoundingOnly` bounds the drift of a ratio that
is recomputed from itself by one swap per short product: an error is neither
amplified nor made by anything else. `GateFollowsLastCheck`: only a check opens
the gate, a check leaves it open only if security passes and the detector knows
a filled pool at that moment, and any discovery anew closes it. It says nothing
of the time after: `trade_eligible` is a verdict of the past.

Properties of `Workflows`. `UpdatesKept` is the exact extent of the lost update
of `wallet.py:86-262`: nothing that was decoded is missing from a profile
unless another task saved it between load and save, the database failed, or
times with and without a zone were compared, and nothing is in it twice.
`FindingsNeedAnInput`: derived trades alone make no finding. One of the deals of
a wash pair is a sale from outside, a trade of the flow and a funding go back to
an event from outside. The other deal of the pair may be the echo of the first,
which is what `SuspectsTradedBack` denies and its run refutes. `AlertsEnd`
bounds the alerts of a wallet nobody follows.

Properties of the engines. `HolderBooks` relates balances, supply and exits over
any log; `NetGrowthNotOverstated` compares the window figures with a replay of
the log, as far as no event from before the window is processed after one from
within it; `SnapshotLagsOnce` is about the order inside an evaluation: by how
much snapshot and categories of any report differ, and that a technical account
is counted wrongly in one report only. `MappedIsRepresented` and
`WrappedNotCounted` relate the map, the groups and their figures. `DropRaised`
says that no analysis in between swallows the alarm of a drop, except the drop
of an event whose evaluation raised; `OneBadSource` bounds what one wrong price
source can do, up to the rounding of the recorded price; `SupplyAccounted` is
the balance of the supply, with what was burned or released beyond the total
counted apart. `WorseIsNotSafer` compares the verdicts of an assessment and of
the same one with one more bad finding; what the metadata of a live owner say
is not a finding.

Bounds. `workflows`: two instances are the fewest that overlap; two events from
outside are the fewest of which one can meet the echo of the other, and three
tasks let both and a derived event be handled; one fault at any point is enough
for each kind of loss, one tick separates the times of two trades. The eight
events are a transfer that is funding with a token, with and without a zone in
its time, and without a token; a purchase that names a price; a sale of a
followed wallet, with and without a zone; a removal of liquidity, and one that
cannot be decoded. Instances are interchangeable, which makes the symmetry sound
(safety only). `workflows_wash` needs no fault.
`engines`: three transfers at three times, in any order, let a wallet leave and
come back inside and outside of a window of one unit and let an event arrive
late, between two reports; four links let a token go to a second and a third
group and meet a bridge; four market events let a drop follow a rise with an
analysis, or an evaluation that raised, between them, and a third price follow
two; a grain of four makes rounding move a price in both directions; each
security input stands on either side of a threshold. `discovery`: one token
suffices because tokens share only the tasks; two tasks are the fewest that
overlap; three events let both tasks discover and one of them do so again after
a restart, each with a payload that any of the constructors may refuse.
The launch detector and the gate are a further subject of the run `engines`, put
beside the four in `MC_Engines`, because they share nothing with them either:
two tasks and three calls let one call run inside the publication of another and
a third follow; two registrations let a milestone arrive in the wrong launch;
the thresholds are lowered (two buyers for a hundred, no minimum velocity) so
that they are met within three calls, and a product that falls short is declared
among the small ones. Tasks and buyers are interchangeable (safety only).
`ingestion`: two requests and three receipts let a duplicate meet a
request in any state and a later one meet what they left behind; one fault and
one expiry, at any point, reach both stores holding an entry at once. Requests
are interchangeable, which makes the symmetry sound (safety only). A single
fingerprint is enough because no action relates two: `redisKeys`, `local` and
the counters are per fingerprint and only the capacity of the cache connects
keys, which `LocalTTLCache` covers. `ingestion_live`: two faults let an outage
meet the recovery from another or a stop. `event_bus`: two messages are the
fewest for an order, two instances the fewest for a rebalance, two faults let a
refused commit meet a crash. `local_cache`: three keys and room for two make
evictions, six ticks with a time to live of two let an item expire twice.
`CHECK_DEADLOCK FALSE` is set because the bounded counters end a behaviour.

## 5. Fairness

`Ingestion!Fairness`: each request's coroutine, the coroutine of the monitor or
of stop, and the producer's sender go on when they can (a request in a `send`
that nobody answers cannot), because the event loop
runs every ready task; brokers come back and a stopped service is started again,
because docker-compose.yml says `restart: unless-stopped` for all of them. Weak
fairness of `Deliver \/ GiveUp` says only that a record does not stay in the
buffer for ever. No fault is ever required to happen.

`EventBus!Fairness`: each instance's loop goes on when it can (so a workflow
ends, which `router.py:55` has no timeout to ensure), the group assigns a free
partition, dead letters leave the buffer, a stopped instance is started again.
`Discovery!FairSpec`: a task goes on when it can, as the event loop runs every
ready task; a call of the database returns or raises, and an analysis task ends,
which nothing in `manager.py:173` enforces. `Workflows` and `Engines` state no
fairness and are checked for safety only. Strong fairness is used nowhere.

## 6. Proofs

Eight modules hold theorems. Between them they prove every invariant, every
action property without fairness and both refinements that a passing run
checks; the runs show them on a small instance, the theorems for every value of
the constants that satisfies the named assumption of the module.

| Module | Proves | Assumptions |
|---|---|---|
| `LocalTTLCacheProofs` | `TypeOK`, `RecentAdmissionsKept`, `ImplementsWindow` | `CacheAssumption` |
| `IngestionProofs` | `TypeOK`, `AdmissionsAccounted`, `AtMostOncePerEntry`, `RawBeforeAnswer`, `AnswerNeedsAdmission`; `OrderlyExit` with the webhook | `IngestionAssumption` |
| `EventBusProofs` | `TypeOK`, `CommittedIsRouted`, `ImplementsSettledLog` | `BusAssumption` |
| `DiscoveryProofs` | `TypeOK`, `TablesAgree`, `KnownIsStored`, `DiscoveriesOverlap` | `DiscoveryAssumption` |
| `LaunchProofs` | `TypeOK`, `FirstBuyLeads`, `RapidOnlyByOverlap`, `BotsLostByRoundingOnly`, `GateFollowsLastCheck` | `LaunchAssumption`, `FloatAssumption`, `GateAssumption` |
| `WorkflowsProofs` | `WorkflowsTypeOK`, `UpdatesKept`, `AlertsEnd`, `FindingsNeedAnInput` | `WorkflowsAssumption` |
| `EnginesProofs` | `EnginesTypeOK` and the properties of the four engines | the assumptions of `Holders`, `CrossChain`, `Market`, `Security` |
| `SumProofs` | lemmas about sums over finite sets | - |

The assumptions give the types of the inputs, the bounds are natural numbers,
and some sets are finite where something is counted: requests, tasks of
discovery and of launches, workflows, price observations. No proof uses how
large a bound is.

### 6.1 `LocalTTLCacheProofs`

`IInv` (`TailOfLog`) says how the cache and the history of admissions belong
together, counted from their ends: an unexpired item stands as far from the end
of the cache as its admission stands from the end of the history
(`ItemsAreAdmissions`), and an unexpired one of the last `MaxSize` admissions
has its item there (`AdmissionsAreItems`). Keys differ and expiries grow along
the cache (`InOrder`), so that `_cleanup`, which pops from the front while
items are expired, never leaves an expired one behind a live one. Every
conjunct is needed: eviction takes the front item, which is safe only because
of the order. The three theorems follow; for the refinement, a verdict of the
cache is the window's because a live item is a recent admission and the
converse.

### 6.2 `IngestionProofs`

`AtMostOncePerEntry` is not inductive: it compares records with entries, and
no step relates the two directly. They meet in `admitted`. `EntriesAccounted`
says that every admission opened an entry that is alive or counted in `closed`;
`AdmissionsAccounted` says that every admission is held, was sent or was
forfeited. Sent records are then at most the admissions and so at most the
entries. For `AdmissionsAccounted` to be inductive one must know that a request
that publishes holds an admission and that one that has not asked holds none:
`FreshInPlace`. `IInv` is the conjunction; TLC checked it on
the instance of the run `ingestion` before it was proved.

The proof follows the actions: `HoldingDelta` says how the set of holders
changes when one request moves, `Balance` does the arithmetic once, and
`AdmissionsRequest`, `AdmissionsEnd`, `AdmissionsRecords` and
`AdmissionsElsewhere` treat the actions by what they disturb.

`RawBeforeAnswer` is inductive: the requests past the raw record are counted
with the answers, so that a step only moves a request from one side to the
other. `AnswerNeedsAdmission` needs that a fingerprint with an entry was
admitted, which is `EntriesAccounted`, and that a request which waits for
Redis or publishes has such a fingerprint (`AskedWasAdmitted`).

`OrderlyExit` is proved for `Adapter = "webhook"`: uvicorn returns only after
the requests in progress, so a process that is closing has none
(`DrainedWhenClosing`), and its end forfeits nothing. That it takes no unsent
record either, outside the stated exception, is `StoppedIsDrained`: a producer
that does not run has nothing in its buffer unless it is being flushed or its
flush was cut short. With the direct adapter the property is false, since a task
may be in the middle of a request while `stop()` ends the process, and the run
that checks it uses the webhook too.

### 6.3 `EventBusProofs`

`IInv` speaks of three things. `LogInOrder`: everything below the committed
offset is handled, where handled means routed to all workflows or handed to
the dead-letter producer. `HandInOrder`: an instance has a message in hand only
after all before it, and is about to commit only one it has handled; while it
gathers, the workflows it no longer waits for have run. `OwnerInOrder`: the
owner of the partition is a member, stands at or behind the offset, and only
the message it works on, or died with, may be unhandled. The last part is what
a rebalance relies on: the next owner starts from the offset and not from where
the former one stood. A former owner whose commit arrives late commits a
message it has handled, after all before it, so that the offset stays in order.
With the invariant every step maps to `Settle`, `Commit` or a stutter of
`SettledLog`.

### 6.4 `DiscoveryProofs` and `LaunchProofs`

`TablesAgree` and `KnownIsStored` are not inductive: they need what a task
under way relies on (`CallOk`), that its metadata is in place and, without an
outage, that a row its SELECT saw, or that made its INSERT fail, stays. A task
that ends by an exception leaves either nothing, metadata of an event in
`rejected`, or a known token (`RefusedInv`). `DiscoveriesOverlap` counts the
records of a token together with the tasks that are on their way to add one
(`RecordsAndTasks`): a task is on its way only if it found the token unknown,
and then there were no records.

For the ratio n/d after b swaps of bots out of T, of which l products fell
short, `Covers` says n <= d and (b - l) * d <= n * T. A swap by a bot makes the
numerator the truncated product plus one (`RecoveredBounds`): at most T + 1
(`DivUpper`), at least b + 1 - l if the product is truncated exactly
(`DivLower`), and one less, with l one greater, if it falls short; then
`FloatAssumption` says that the product is a positive whole number, so that the
numerator stays positive. For the milestones the invariant adds what the tasks
have still to record: nothing in their lists is a first buy, and what belongs to
the current launch comes only after its first buy (`MayFollow`).
`RapidOnlyByOverlap` counts recorded and pending rapid milestones of the current
launch together (`RapidBounded`), and needs that such a milestone is the last of
its list. For `GateFollowsLastCheck`, `MinPool` must be positive: with zero the
gate would open for a token without figures. That a discovery closes the gate
follows from the assessment it puts in place of the old one, whatever its
evidence.

### 6.5 `WorkflowsProofs`

`UpdatesKept` and `AlertsEnd` need what a task in hand relies on (`HandOk`): it
is exactly one handling ahead of the saved profile, unless it is marked stale,
and never more than one ahead of what was handled. `UpdatedOk` shows that a
handling adds one transaction and one trade, where one was decoded, and
`EndedStep` what the end of a task for any set of reasons leaves. Updates that
end in a comparison of times are excused by "zone"; that this happens only after
an event without a zone (`ClashIsZoneless`) needs that a funding without a zone
in any profile comes from such an event (`Zoned`). For the alerts: the labels of
a saved profile are a function of the rest of it (`Labelled`, `LabelsStable`),
so that an alert that comes back, which changes nothing else, finds the labels
it left; and an event that is derived and names a wallet is an alert of a wallet
that has a profile (`EventOk`).

`FindingsNeedAnInput` speaks of findings, and findings are computed from what an
instance remembers. `MemOk` therefore relates the memory to the inputs that were
delivered since the start of the instance: each sale among the deals is the sale
of one of them (`SoldIn`), a trade of the flow and a funding are those of one of
them, and the analysis in memory is one of the deals in memory. That it is kept
depends on the events in the topic: a derived one never says "sell", and what
it shows is neither a swap nor a transfer of an asset (`EventOk`, `EchoOk`,
`AlertOk`, `InertShows`). A wash pair has two sides, so one of its deals is a
sale (`PairsFinite`); a suspect needs a wash score above 20, and so a wash pair
(`WashScoreBounds`). The last needs that volumes are natural numbers:
`VolumeIsSum` and `WashVolumeIsSum` turn the fold over the list and the sum over
the pairs into sums of `SumProofs`. Nothing more holds of the other deal of a
pair: it may be an echo, and then the finding is a false one.

The types follow from the same invariant: `TradeCounted` keeps the balance
between nothing and what was bought, `TransactionCounted` the counters below the
transactions, `AnalysisBounds` bounds the findings.

### 6.6 `EnginesProofs`

- `MappedTokensAreRepresented`, `WrappedTokensAreNotCounted`: `CrossInv` says
  that groups and map agree, that the groups with a token are at most one more
  than the moves of its entry, and that the figures of a group with a canonical
  token are up to date: a link recalculates its own group only, which suffices
  because it changes no other.
- `SupplyStaysAccounted`: each kind of event keeps the difference of both
  sides, or moves it into `overdrawn`.
- `BooksAreCovered`, `ExitsAreOfEmptyWallets`: `WalletsInv` relates balances,
  exits and those who ever held the token (`AddFacts`, `DeductFacts`,
  `EverAppended`); `BooksInv` adds the sum of the balances (`Covered`). A
  transfer changes one or two summands, and what could not be deducted from the
  sender is what `uncovered` grows by.
- `SnapshotsLagOnce`: the same invariant, with what an evaluation may rely on:
  the book flags as technical every technical account that an evaluation has
  seen, and besides only those marked by hand (`FlagsOk`). The snapshot
  counts by the flags and the categories by the categorizer (`SnapshotCounts`).
- `GrowthIsNotOverstated`: `LogInv` relates the book to the log, which need not
  be in the order of time. Its replay has the wallets, balances and times of
  the book, apart from the marks of technical accounts (`Like`); and for every
  prefix of the log that is exactly the events from before some time, whoever
  held after it is still in the book, was first seen before that time, and
  holds or stopped since (`Remembered`). The last part is an invariant over all
  prefixes and times because the window moves with the clock; where a late
  event leaves no such prefix the theorem says nothing.
- `PricesOutvoteOneSource`: no invariant is needed but that every recorded
  price is a rounding of one reconciled from its provenance; the rest is the
  median. With two good sources the median lies within their range or next to
  it, so that a price which is accepted is near it, and a mean of accepted
  prices too; rounding moves it by half a grain (`RoundedNear`).
- `DropNeverMissed`: `AnalysedIsCurrent`, that the last analysis measured the
  pools as they are, unless nobody ever saw one or the last one raised
  (`unread`). `FullIntelligence` and an uninterrupted `MarketEvent` both end
  with an analysis, which is why no drop falls between two.
- `WorseNeverSafer`: a statement about one verdict, for all inputs: each weight
  is positive, each rule asks for something bad (`WorseIsNoBetter`,
  `VerdictNoBetter`). `SecurityInv` says that the verdict in the state is the
  one of the assessed token.

`AnalysedIsCurrent` and `LogInv` are not properties of a run of their own; they
were checked with TLC on the instance of the run `engines` before they were
proved.

### 6.7 `SumProofs`

Sums and folds over data are computed by recursion in the community modules, and
the library states induction with a predicate as parameter, which the installed
provers cannot instantiate. `SumProofs` states induction about a set of numbers
or of sets instead (`NatInduct`, `SetInduct`), proved from a smallest
counterexample with the library's facts about well-founded relations. From it
follow that the recursion of `MapThenSumSet` has a solution and only one
(`SumExists`, `SumUnique`), that a sum may take any element first
(`SumRemove`), changes by what a summand changes (`SumChange`), grows with its
set, and is what `FoldLeft` computes from the last element down
(`SumFromLast`). The operators `@@`, `:>` and `SelectSeq` have no meaning for
the provers; the models use `Put` and `Over` of `Maps` where a proof depends on
the result.

### 6.8 What stays with TLC

Liveness: `RequestsEnd`, `ShutdownEnds`, `KafkaOutageHealed`, `NoPoisonPill` and
`DiscoverySurvivesOutage` rest on fairness and ENABLED, which are out of
TLAPS's reach here. The five violated properties are counterexamples, not
theorems. Termination of the code's own loops is not stated: each is one step of
a model.

## 7. What is not modelled

- The notification parser: text extraction by regular expressions in a fixed
  order of stages. The chain adapters: conversion of formats.
- `intelligence/social`, `intelligence/project`, `intelligence/research`,
  `intelligence/probability`: formulas over floating-point features, no state
  that another component reads.
- Of the wallet code: graph traversal, the clustering relations that the
  workflow does not turn into edges, cost basis and profits, the smart-money,
  whale, manipulation and probabilistic engines. Of the holder code: Gini
  coefficient, percentiles, similarity and health scores. Of the market code:
  logarithmic weights, depth curves, synchronized transactions. Of the security
  code: extraction from source and byte code, the risk flags.
- `workflows/discovery.py` (the same get and upsert as the discovery manager),
  `risk.py`, which only reads, and the workflows that only log.
- Of the ingestion service and the bus: the health endpoint and the
  notification-rate status, HTTP authentication and size limits, logging,
  metrics and telemetry values, `EventProducer`, a wall clock that is set back,
  and undecodable bytes on the bus.
