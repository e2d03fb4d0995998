------------------------------ MODULE MC_Engines ------------------------------
(* Model-checking instance of Engines and of SafetyGate with the launch     *)
(* detector, which shares nothing with the others: a fifth subject.  The    *)
(* inputs are those at which a guard or a threshold of the code turns.      *)
EXTENDS Engines, SafetyGate, TLC

MCInit ==
  /\ Init /\ HoldersInit /\ CrossInit /\ MarketInit /\ SecurityInit
  /\ subject \in {"holders", "crosschain", "market", "security", "launch"}

MCNext ==
  \/ EnginesNext /\ UNCHANGED vars
  \/ subject = "launch" /\ Next /\ UNCHANGED engineVars

MCSpec == MCInit /\ [][MCNext]_<<engineVars, vars>>

(* Full evidence, and too little. *)
MCEvidence == {<<TRUE, TRUE, TRUE>>, <<FALSE, FALSE, FALSE>>}

(* Scaled down: the first float product that falls short is 15 / 22 * 22.  *)
MCFallsShort == {<<1, 2, 2>>}

(* Tasks and buyers of a launch are told apart only by name. *)
Symmetry == Permutations(Call) \cup Permutations(Wallet)

Move(k, from, to, n) == [kind |-> k, from |-> from, to |-> to, amount |-> n]
MCTransfers ==
  {Move("TRANSFER", "zero", "a", 2), Move("TRANSFER", "a", "b", 2),
   Move("TRANSFER", "b", "a", 2), Move("TRANSFER", "a", "zero", 2),
   Move("BURN", "a", "b", 1)}
MCNamed == [a |-> "RETAIL", b |-> "POOL"]

MCDeployment == {<<"eth", "0x1">>, <<"sol", "0x1">>}
MCFigures == {<<5, 2>>}

Says(s, p, l) == [source |-> s, price |-> p, liquidity |-> l, stale |-> FALSE]
(* A pool with n hundredths of it in the hands of one provider. *)
PoolOf(i, l, n) ==
  [id |-> i, liquidity |-> l,
   lp |-> [w \in Provider |-> IF w = "w1" THEN n ELSE (100 - n) \div 3]]
Quiet == [observations |-> {}, pool |-> None, price |-> 0, largest |-> 0,
          supply |-> None, evaluable |-> TRUE]
Agree == {Says("s1", 6, 600), Says("s2", 7, 9000)}
Stale == [Says("s2", 3, 0) EXCEPT !.stale = TRUE]
Change(k) == [kind |-> k, amount |-> 60]
MCMarketEvents ==
  {[Quiet EXCEPT !.observations = o] :
     o \in {{Says("s1", 1, 600)}, Agree \cup {Says("s3", 12, 600)},
            Agree \cup {Says("s3", 1, 600)}, {Says("s1", 0, 600), Stale}}}
  \cup {[Quiet EXCEPT !.pool = PoolOf("p1", 1000, 100), !.price = 4,
                      !.largest = 4, !.observations = {Says("s1", 4, 0)}],
        [Quiet EXCEPT !.pool = PoolOf("p1", 700, 10), !.price = 4,
                      !.observations = {Says("s1", 4, 0)}],
        [Quiet EXCEPT !.pool = PoolOf("p1", 600, 10), !.evaluable = FALSE,
                      !.supply = Change("BURN")],
        [Quiet EXCEPT !.pool = PoolOf("p2", 100, 10),
                      !.supply = Change("UNLOCK")]}
  \cup {[Quiet EXCEPT !.supply = Change(k)] :
          k \in {"MINT", "BURN", "MIGRATION"}}
MCBreakdowns ==
  {[total |-> 100, circulating |-> 30, burned |-> 0, locked |-> 70]}

Code(n, h, s) ==
  [named |-> n, claimed |-> {}, hints |-> h, source |-> s, slot |-> "none",
   slotAdmin |-> "none", admin |-> "live"]
MCCodes ==
  {Code(n, h, s) : n \in {{}, {"mint", "modify_balances", "alter_fees"}},
                   h \in {{}, {"is_proxy"}}, s \in {"none", "plain", "proxy"}}
  \cup {[Code({"withdraw_funds"}, {}, "none") EXCEPT
           !.slot = "EIP-1967", !.slotAdmin = a, !.admin = "none"] :
          a \in {"none", "dead", "live"}}
MCOwners ==
  {[renounced |-> TRUE, governance |-> "EOA", bypasses |-> {}]}
  \cup {[renounced |-> FALSE, governance |-> g, bypasses |-> {}] :
          g \in {"RENOUNCED", "EOA", "FAKE_RENOUNCED_BYPASSED"}}
Taxed(f, t, v) ==
  [faults |-> f, buyTax |-> 3, sellTax |-> t, seenBuy |-> -1, seenSell |-> v]
MCSimulations ==
  {Taxed(f, t, 20) : f \in {{}, {"dynamic_tax"}}, t \in {3, 12}}
  \cup {Taxed(f, 3, -1) : f \in {{}, {"exceeds_max_tx"}, {"failure"}}}
Lock(k, l, p) == [known |-> k, locked |-> l, percent |-> p, days |-> 0]
Top(k, t, d) == [known |-> k, top10 |-> t, dev |-> d]
MCCircumstances ==
  {[threats |-> t, habits |-> {"mixer"}, lp |-> l, holders |-> c] :
     t \in {{}, {"dev_sold"}},
     l \in {Lock(FALSE, FALSE, 0), Lock(TRUE, TRUE, 90), Lock(TRUE, FALSE, 10)},
     c \in {Top(FALSE, 0, 0), Top(TRUE, 80, 25)}}
=============================================================================
