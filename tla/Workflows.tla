------------------------------ MODULE Workflows ------------------------------
(***************************************************************************)
(* The three workflows that keep state, on several instances of the worker *)
(* (src/workflows/market.py, intelligence.py, wallet.py), and what they    *)
(* publish to the topic they consume.  An instance handles one event at a  *)
(* time, and starts the workflows side by side (router.py): Market and     *)
(* Intelligence change the memory of the instance before the first answer  *)
(* of the database, so that they are one step with the load of the         *)
(* profile; the wallet workflow stands at the database twice more.  One    *)
(* token.  Any pending event may be next, as over partitions without a     *)
(* key; an event that is handled and not committed comes again.            *)
(*                                                                         *)
(* An event: kind (event_category), info (its payload has transaction      *)
(* details), wallet (or NoOne), token (it names the token), tx, trade (the *)
(* trade data of the payload: "none", or the side "buy", "sell" or         *)
(* "unsaid"), price (that of the payload, or 0) and smart.                 *)
(***************************************************************************)
EXTENDS WalletProfile

CONSTANTS
  Instance, Wallet,
  Inputs,        \* events from outside
  Followed,      \* wallets on the monitoring list
  MaxArrivals, MaxTasks, MaxFaults, MaxTime   \* bounds

DerivedKind == {"trade_intelligence", "wallet_alert"}

ASSUME WorkflowsAssumption ==
  \A e \in Inputs :
    /\ DOMAIN e = {"kind", "info", "wallet", "token", "tx", "trade", "price",
                   "smart"}
    /\ DOMAIN e.tx = {"sender", "receiver", "calls", "field", "assets", "empty",
                      "value", "usd", "says", "hint", "marks", "contract", "at",
                      "naive", "sound"}
    /\ e.tx.usd \in Nat
    /\ e.tx.naive \in BOOLEAN /\ e.tx.sound \in BOOLEAN
    /\ e.kind \notin DerivedKind
    /\ e.info \in BOOLEAN /\ e.token \in BOOLEAN
    /\ e.wallet \in Wallet \cup {NoOne}

VARIABLES
  topic,     \* bag of the pending events
  hand,      \* instance -> the event and the profile it works on
  mem,       \* instance -> its engines
  store,     \* wallet -> saved profile, of the wallets that have one
  now,       \* the clock
  arrivals, tasks, faults,
  delivered, \* history: instance -> inputs it handled since its start
  counts,    \* history: wallet -> tasks, transactions, trades and alerts
  excused,   \* history: wallet -> what lost an update of it: another task
             \* ("race"), "database", or a time without a "zone"
  zoneless   \* history: an event whose time has no zone was handled

workflowVars ==
  <<topic, hand, mem, store, now, arrivals, tasks, faults, delivered, counts,
    excused, zoneless>>

Idle == [pc |-> "idle"]
NewMemory ==
  [volume |-> <<>>, price |-> 0,
   flow |-> [transfers |-> <<>>, removals |-> {}, trades |-> <<>>,
             blind |-> FALSE],
   funded |-> <<>>, edges |-> <<>>, analysis |-> VolumeAnalysis(<<>>, 0),
   report |-> [sequences |-> {}, status |-> "NEUTRAL"]]

WorkflowsInit ==
  /\ topic = EmptyBag /\ store = <<>>
  /\ hand = [i \in Instance |-> Idle]
  /\ mem = [i \in Instance |-> NewMemory]
  /\ now = 0 /\ arrivals = 0 /\ tasks = 0 /\ faults = 0
  /\ delivered = [i \in Instance |-> {}]
  /\ counts = [w \in Wallet |-> [tasks |-> 0, txs |-> 0, trades |-> 0,
                                 alerts |-> 0]]
  /\ excused = [w \in Wallet |-> {}] /\ zoneless = FALSE

----------------------------------------------------------------------------
(* What the workflows publish.                                             *)

\* What decode makes of a payload without a transaction.
NoTx ==
  [sender |-> Unknown, receiver |-> NoOne, calls |-> {}, field |-> "TRANSFER",
   assets |-> {}, empty |-> FALSE, value |-> 0, usd |-> 0, says |-> "none",
   hint |-> "none", marks |-> {}, contract |-> NoOne, at |-> 0,
   naive |-> FALSE, sound |-> TRUE]

\* A detected trade: its payload has the trader, the amount and the price, and
\* no side.
Echo(t) ==
  [kind |-> "trade_intelligence", info |-> TRUE, wallet |-> NoOne,
   token |-> TRUE, trade |-> "unsaid", price |-> t.price, smart |-> FALSE,
   tx |-> [NoTx EXCEPT !.sender = t.trader, !.usd = t.usd, !.at = t.at]]

\* An alert names its wallet and neither a token nor a transaction.
Alert(w) ==
  [kind |-> "wallet_alert", info |-> FALSE, wallet |-> w, token |-> FALSE,
   trade |-> "none", price |-> 0, smart |-> FALSE, tx |-> NoTx]

Derived(e) == e.kind \in DerivedKind

----------------------------------------------------------------------------
(* MarketWorkflow: the price and the trade data of an event (its pools and *)
(* its supply are in Market).                                              *)

\* Mutant: a trade without a side is a sale.
IsBuy_DefaultSell(e) == e.trade = "buy"

IsBuy(e) == e.trade # "sell"

\* A price above 0 is the last of the history, reliable or not.
AfterPrice(m, e) ==
  IF e.token /\ e.price > 0 THEN [m EXCEPT !.price = e.price] ELSE m

AfterMarket(m, e) ==
  LET p == AfterPrice(m, e) IN
  IF ~e.token \/ e.trade = "none" THEN p
  ELSE LET v == Append(p.volume, [trader |-> e.tx.sender, buy |-> IsBuy(e),
                                  usd |-> e.tx.usd, at |-> now])
       IN  [p EXCEPT !.volume = v, !.analysis = VolumeAnalysis(v, now)]

----------------------------------------------------------------------------
(* IntelligenceWorkflow.                                                   *)

Decodes(e) ==
  /\ e.info \/ e.kind \in {"swap", "wallet", "transaction", "liquidity"}
  /\ e.tx.sound

\* Without a token of its own, an event is about the one among its assets.
HasToken(e) == e.token \/ "token" \in Assets(e.tx)

\* The trade that an event shows, if it shows one and the flow engine does not
\* raise before.
Detected(m, e) ==
  IF Decodes(e) /\ HasToken(e) /\ IsTrade(e.tx) /\ ~Recorded(m.flow, e.tx).blind
  THEN {Trade(e.tx, e.smart, m.funded, m.price)} ELSE {}

\* The flow engine keeps a trade before it raises.
WithTrades(flow, found) == [flow EXCEPT !.trades = @ \o SetToSeq(found)]

\* The trades that are published.
Published(m, e) ==
  {t \in Detected(m, e) : ~t.naive /\ Evictable(m.flow.trades)}

\* register_funding comes after the return of an event without a token.
Funded(m, tx) ==
  IF Action(tx) = "TRANSFER" /\ "native" \in Assets(tx) /\ tx.receiver # NoOne
  THEN Put(m.funded, tx.receiver, tx.sender) ELSE m.funded

AfterIntelligence(m, e) ==
  LET seen == Recorded(m.flow, e.tx) IN
  IF ~Decodes(e) THEN m
  ELSE IF ~HasToken(e) \/ seen.blind THEN [m EXCEPT !.flow = seen]
  ELSE LET q == [m EXCEPT !.funded = Funded(m, e.tx)]
           flow == WithTrades(seen, Detected(q, e))
       IN  [q EXCEPT !.flow = flow,
                     !.report = IF Published(m, e) = {} THEN @
                                ELSE FlowMetrics(flow, now)]

----------------------------------------------------------------------------
(* WalletWorkflow.                                                         *)

Loaded(w) == IF w \in DOMAIN store THEN store[w] ELSE NewProfile

\* What cannot be decoded is logged, and the task goes on without it.
ShowsTransaction(e) == e.info /\ e.tx.sound

ShowsTrade(e) == ShowsTransaction(e) /\ e.token /\ IsTrade(e.tx)

\* record_trade has times to compare, and raises out of the task without a zone.
RaisesEarly(e) == ShowsTrade(e) /\ e.tx.naive

\* The profile after the transaction and the trade of an event; the detector of
\* this workflow has no funding registered and no smart money.
Updated(m, e) ==
  LET w == e.wallet
      p == IF ShowsTransaction(e) THEN AfterTransaction(Loaded(w), w, e.tx, now)
           ELSE Loaded(w)
      q == IF ShowsTrade(e)
           THEN AfterTrade(p, Trade(e.tx, FALSE, <<>>, m.price), m.price, now)
           ELSE p
  IN  [q EXCEPT !.labels = Labels(q)]

\* Mutant: an alert is raised for every wallet that has labels.
LabelChange_Any(h) == h.profile.labels # {}

LabelChange(h) == h.old # h.profile.labels

----------------------------------------------------------------------------
(* Actions.                                                                *)

\* An event from outside waits for as long as it likes and enters the model
\* when it is taken, with the time at which it happened.
Pending ==
  BagToSet(topic)
  \cup (IF arrivals < MaxArrivals
        THEN {[e EXCEPT !.tx.at = t] : e \in Inputs, t \in 0..now}
        ELSE {})

One(test) == IF test THEN 1 ELSE 0

\* A task for a wallet has ended.
Counting(e, alert) ==
  [counts EXCEPT
     ![e.wallet] = [tasks |-> @.tasks + One(~Derived(e)),
                    txs |-> @.txs + One(ShowsTransaction(e)),
                    trades |-> @.trades + One(ShowsTrade(e)),
                    alerts |-> @.alerts + One(alert)]]

\* An instance takes an event.  With a fault it stays pending (it will be
\* handled, and not committed) or what is detected is not published.
Take(i, e) ==
  LET new == {e} \ BagToSet(topic)
      market == AfterMarket(mem[i], e)
      m == AfterIntelligence(market, e)
      p == Updated(m, e)
  IN
  /\ hand[i] = Idle /\ tasks < MaxTasks
  /\ tasks' = tasks + 1
  /\ arrivals' = arrivals + Cardinality(new)
  /\ \E fault \in {"none", "not committed", "not published"} :
       /\ IF fault = "none" THEN UNCHANGED faults
          ELSE faults < MaxFaults /\ faults' = faults + 1
       /\ topic' =
            (IF fault = "not committed" THEN topic (+) SetToBag(new)
             ELSE topic (-) SetToBag({e} \ new))
            (+) SetToBag(IF fault = "not published" THEN {}
                         ELSE {Echo(t) : t \in Published(market, e)})
  /\ \/ /\ e.wallet = NoOne
        /\ mem' = [mem EXCEPT ![i] = m]
        /\ UNCHANGED <<hand, counts, excused>>
     \/ /\ e.wallet # NoOne /\ RaisesEarly(e)
        /\ mem' = [mem EXCEPT ![i] = m]
        /\ counts' = Counting(e, FALSE)
        /\ excused' = [excused EXCEPT ![e.wallet] = @ \cup {"zone"}]
        /\ UNCHANGED hand
     \/ /\ e.wallet # NoOne /\ ~RaisesEarly(e)
        /\ mem' = [mem EXCEPT ![i] = [m EXCEPT
                     !.edges = WithEdges(@, ProfileEdges(e.wallet, p))]]
        /\ hand' = [hand EXCEPT ![i] =
                      [event |-> e, profile |-> p, pc |-> "relate",
                       old |-> Loaded(e.wallet).labels, stale |-> FALSE]]
        /\ UNCHANGED <<counts, excused>>
  /\ delivered' = IF Derived(e) THEN delivered
                  ELSE [delivered EXCEPT ![i] = @ \cup {e}]
  /\ zoneless' = (zoneless \/ e.tx.naive)
  /\ UNCHANGED <<store, now>>

\* The end of a task, whose profile is lost for some reasons, or saved: then
\* it outdates the copies in other hands.
Ended(i, lost, alert) ==
  LET h == hand[i]
      w == h.event.wallet
      saved == lost = {}
  IN
  /\ store' = IF saved THEN Put(store, w, h.profile) ELSE store
  /\ topic' = IF alert THEN topic (+) SetToBag({Alert(w)}) ELSE topic
  /\ excused' = [excused EXCEPT
       ![w] = @ \cup lost \cup (IF h.stale THEN {"race"} ELSE {})]
  /\ hand' = [j \in Instance |->
       IF j = i THEN Idle
       ELSE IF saved /\ hand[j] # Idle /\ hand[j].event.wallet = w
       THEN [hand[j] EXCEPT !.stale = TRUE]
       ELSE hand[j]]
  /\ counts' = Counting(h.event, alert)

\* load_all_profiles, the edges between co-traders and the check for
\* manipulation of the token, over all profiles: the one in hand takes part only
\* while the wallet has no other.
Relate(i) ==
  LET h == hand[i]
      all == Over(store, [w \in {h.event.wallet} |-> h.profile])
      clash == FundingClash(all) \/ (h.event.token /\ ChainClash(all))
  IN
  /\ h # Idle /\ h.pc = "relate"
  /\ IF FundingClash(all) THEN UNCHANGED mem
     ELSE \E some \in [Close(all) -> {0, 70, 85}] :
            mem' = [mem EXCEPT ![i].edges = WithEdges(@, CoTraders(some))]
  /\ IF clash
     THEN Ended(i, {"zone"}, FALSE)
     ELSE /\ hand' = [hand EXCEPT ![i].pc = "save"]
          /\ UNCHANGED <<topic, store, counts, excused>>
  /\ UNCHANGED <<now, arrivals, tasks, faults, delivered, zoneless>>

\* The profile is saved and an alert published if there is reason to; the
\* check for manipulation of the token may find any.  An upsert that fails ends
\* the workflow; an alert that cannot be published is given up.
Save(i) ==
  LET h == hand[i] IN
  /\ h # Idle /\ h.pc = "save"
  /\ \E outcome \in {"saved", "not published", "not saved"},
       downgrade \in BOOLEAN :
       /\ IF outcome = "saved" THEN UNCHANGED faults
          ELSE faults < MaxFaults /\ faults' = faults + 1
       /\ Ended(i, IF outcome = "not saved" THEN {"database"} ELSE {},
                outcome = "saved"
                  /\ \/ h.event.wallet \in Followed \/ LabelChange(h)
                     \/ downgrade /\ h.event.token)
  /\ UNCHANGED <<mem, now, arrivals, tasks, delivered, zoneless>>

\* A crash loses the memory of the instance; the event it had comes again.
Crash(i) ==
  /\ faults < MaxFaults
  /\ faults' = faults + 1
  /\ topic' = IF hand[i] = Idle THEN topic
              ELSE topic (+) SetToBag({hand[i].event})
  /\ hand' = [hand EXCEPT ![i] = Idle]
  /\ mem' = [mem EXCEPT ![i] = NewMemory]
  /\ delivered' = [delivered EXCEPT ![i] = {}]
  /\ UNCHANGED <<store, now, arrivals, tasks, counts, excused, zoneless>>

Tick ==
  /\ now < MaxTime
  /\ now' = now + 1
  /\ UNCHANGED <<topic, hand, mem, store, arrivals, tasks, faults, delivered,
                 counts, excused, zoneless>>

WorkflowsNext ==
  \/ \E i \in Instance :
       \/ \E e \in Pending : Take(i, e)
       \/ Relate(i) \/ Save(i) \/ Crash(i)
  \/ Tick

WorkflowsSpec == WorkflowsInit /\ [][WorkflowsNext]_workflowVars

----------------------------------------------------------------------------
(* Properties.                                                             *)

\* The types: profiles and tasks of known wallets, a balance that is never
\* negative and never larger than what was bought, confidences of edges in
\* range.
WorkflowsTypeOK ==
  /\ DOMAIN store \subseteq Wallet
  /\ \A w \in DOMAIN store :
       /\ store[w].position.balance \in 0..store[w].position.bought
       /\ store[w].labels # {}
       /\ store[w].swaps + store[w].transfers + store[w].liquidity
            + store[w].deployed <= store[w].txs
  /\ \A i \in Instance :
       /\ \A e \in DOMAIN mem[i].edges :
            mem[i].edges[e] \in {50, 70, 80, 85, 99}
       /\ mem[i].analysis.wash \in 0..100
       /\ mem[i].analysis.organic \in 0..Volume(mem[i].volume)
       /\ (hand[i] # Idle) => hand[i].pc \in {"relate", "save"}

\* A transaction or a trade of a wallet that was decoded is missing from its
\* profile only when another task saved the profile between the load and the
\* save, when the database failed, or when times with and without a zone were
\* compared, and this only after an event whose time had none; and none is ever
\* recorded twice for one handling (wallet.py 86-262, profiler.py 222,
\* clustering.py 108, manipulation.py 147).
UpdatesKept ==
  \A w \in Wallet :
    LET p == Loaded(w) IN
    /\ p.txs <= counts[w].txs
    /\ p.position.trades <= counts[w].trades
    /\ excused[w] \subseteq {"race", "database", "zone"}
    /\ "zone" \in excused[w] => zoneless
    /\ excused[w] = {} =>
         p.txs = counts[w].txs /\ p.position.trades = counts[w].trades

\* The derived trades that come back are never all there is to a finding (one
\* half of it they can be: see SuspectsTradedBack).  In the memory of an
\* instance, one of the deals of a wash pair is the sale of an event from
\* outside that it handled, a trade of the flow is the trade of such an event,
\* and a funded wallet received a native transfer in one (market.py 92-110,
\* intelligence.py 74-153).
FindingsNeedAnInput ==
  \A i \in Instance :
    LET m == mem[i]
        Sold(k) == \E e \in delivered[i] :
                     /\ e.trade = "sell" /\ e.tx.sender = m.volume[k].trader
                     /\ e.tx.usd = m.volume[k].usd
    IN
    /\ \A p \in WashPairs(m.volume) : Sold(p[1]) \/ Sold(p[2])
    /\ m.analysis.suspects # {} => \E e \in delivered[i] : e.trade = "sell"
    /\ \A t \in ToSet(m.flow.trades) :
         \E e \in delivered[i] : e.tx.sender = t.trader /\ e.tx.at = t.at
    /\ \A w \in DOMAIN m.funded :
         \E e \in delivered[i] : e.tx.receiver = w /\ e.tx.sender = m.funded[w]

\* Alerts of a wallet that nobody follows end: there are no more of them than
\* tasks for events from outside, since an alert that comes back finds the
\* labels it left (wallet.py 265-290).
AlertsEnd ==
  \A w \in Wallet \ Followed : counts[w].alerts <= counts[w].tasks

\* What volume_engine.py 42-43 says of wash trading, "back-and-forth trades
\* between same wallets": a suspect sold in one event from outside that the
\* instance handled, and bought in another.  It fails: a sale comes back from
\* IntelligenceWorkflow without is_buy, and is a purchase (market.py 101).
SuspectsTradedBack ==
  \A i \in Instance : \A w \in mem[i].analysis.suspects :
    /\ \E e \in delivered[i] : e.tx.sender = w /\ e.trade = "sell"
    /\ \E e \in delivered[i] : e.tx.sender = w /\ e.trade \in {"buy", "unsaid"}
=============================================================================
